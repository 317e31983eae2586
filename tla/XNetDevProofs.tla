--------------------------- MODULE XNetDevProofs ---------------------------
(***************************************************************************)
(* Proofs about XNetDev for every number of packets, set of frames, ring   *)
(* size and interrupt latency: the types, the interrupts and the receive   *)
(* ring, that the count covers the chip's memory, and that, but for one    *)
(* stretch of xmit, the count is exact, nothing is stranded, and xmit and  *)
(* the chip implement the two-packet pipe of TxPipe.                       *)
(***************************************************************************)
EXTENDS XNetDev, SequenceTheorems, TLAPS

(***************************************************************************)
(* What the chip's operators do to its registers.                          *)
(***************************************************************************)
LEMMA PutType ==
  ASSUME NEW c \in Chip, NEW bits, NEW num \in Nat
  PROVE  Put(c, bits, num) \in Chip
<1> USE DEF Chip, Events, Registers
<1>1. CASE c.addr = "NCR" /\ "RST" \in bits
  <2>1. Put(c, bits, num) = ResetChip(c)
    BY <1>1 DEF Put
  <2>2. <<>> \in Seq(Nat) /\ <<>> \in Seq(Frames) /\ {} \in SUBSET Events
    OBVIOUS
  <2>3. ResetChip(c) \in Chip
    BY <2>2 DEF ResetChip
  <2>4. QED
    BY <2>1, <2>3
<1>2. CASE c.addr = "NSR"
  BY <1>2 DEF Put
<1>3. CASE c.addr = "TCR" /\ "TXREQ" \in bits
  BY <1>3 DEF Put
<1>4. CASE c.addr = "RCR"
  <2>1. Put(c, bits, num) = [c EXCEPT !.rxOn = "RXEN" \in bits]
    BY <1>4 DEF Put
  <2>2. ("RXEN" \in bits) \in BOOLEAN
    OBVIOUS
  <2>3. QED
    BY <2>1, <2>2
<1>5. CASE c.addr = "ISR"
  BY <1>5 DEF Put
<1>6. CASE c.addr = "IMR"
  BY <1>6 DEF Put
<1>7. CASE c.addr = "TXPL"
  BY <1>7 DEF Put
<1>8. CASE c.addr = "MWCMD"
  <2>1. Put(c, bits, num) = [c EXCEPT !.sram = Append(c.sram, num)]
    BY <1>8 DEF Put
  <2>2. Append(c.sram, num) \in Seq(Nat)
    OBVIOUS
  <2>3. QED
    BY <2>1, <2>2
<1>9. CASE /\ ~(c.addr = "NCR" /\ "RST" \in bits)
           /\ ~(c.addr = "TCR" /\ "TXREQ" \in bits)
           /\ c.addr \notin {"NSR", "RCR", "ISR", "IMR", "TXPL", "MWCMD"}
  BY <1>9 DEF Put
<1>10. QED
  BY <1>1, <1>2, <1>3, <1>4, <1>5, <1>6, <1>7, <1>8, <1>9

LEMMA SelectType ==
  ASSUME NEW c \in Chip, NEW r \in Registers
  PROVE  [c EXCEPT !.addr = r] \in Chip
BY DEF Chip

LEMMA PortType ==
  ASSUME NEW c \in Chip, NEW r \in Registers, NEW bits, NEW num \in Nat
  PROVE  iowt(c, r, bits, num) \in Chip /\ iord(c, r) \in Chip
<1>1. iowt(c, r, bits, num) \in Chip
  BY SelectType, PutType DEF iowt
<1>2. iord(c, r) \in Chip
  BY DEF iord, Chip
<1>3. QED
  BY <1>1, <1>2

LEMMA DeviceType ==
  ASSUME NEW c \in Chip
  PROVE  /\ c.sram # <<>> => Transmitted(c) \in Chip
         /\ \A f \in Frames : Received(c, f) \in Chip
         /\ c.ring # <<>> => Drained(c) \in Chip
         /\ HeaderRead(c) \in Chip
<1> USE DEF Chip, Events
<1>1. ASSUME c.sram # <<>> PROVE Transmitted(c) \in Chip
  <2>1. Tail(c.sram) \in Seq(Nat)
    BY <1>1, HeadTailProperties
  <2>2. QED
    BY <2>1 DEF Transmitted
<1>2. ASSUME NEW f \in Frames PROVE Received(c, f) \in Chip
  <2>1. Append(c.ring, f) \in Seq(Frames)
    OBVIOUS
  <2>2. QED
    BY <2>1 DEF Received
<1>3. ASSUME c.ring # <<>> PROVE Drained(c) \in Chip
  <2>1. Tail(c.ring) \in Seq(Frames)
    BY <1>3, HeadTailProperties
  <2>2. QED
    BY <2>1 DEF Drained
<1>4. HeaderRead(c) \in Chip
  BY DEF HeaderRead
<1>5. QED
  BY <1>1, <1>2, <1>3, <1>4

(***************************************************************************)
(* A process write reaches the register it selected.                       *)
(***************************************************************************)
LEMMA PortTable ==
  ASSUME NEW w \in PortWrites
  PROVE  /\ w.at \in Labels /\ w.next \in Labels /\ w.reg \in Registers
         /\ w.at = "reset"     => w.reg = "NCR" /\ w.bits = {"RST"} /\ w.next = "clear_nsr"
         /\ w.at = "clear_nsr" => w.reg = "NSR" /\ w.bits = {} /\ w.next = "clear_isr"
         /\ w.at = "clear_isr" => w.reg = "ISR" /\ w.bits = Events /\ w.next = "rx_on"
         /\ w.at = "rx_on"     => w.reg = "RCR" /\ w.bits = {"RXEN"} /\ w.next = "enable"
         /\ w.at = "enable"    => w.reg = "IMR" /\ w.bits = Events /\ w.next = "opened"
         /\ w.at = "mask"      => w.reg = "IMR" /\ w.bits = {} /\ w.next = "fill"
         /\ w.at = "fill"      => w.reg = "MWCMD" /\ w.bits = {} /\ w.next = "branch"
         /\ w.at = "txpl"      => w.reg = "TXPL" /\ w.bits = {} /\ w.next = "tcr"
         /\ w.at = "tcr"       => w.reg = "TCR" /\ w.bits = {"TXREQ"} /\ w.next = "finish"
         /\ w.at = "unmask"    => w.reg = "IMR" /\ w.bits = Events /\ w.next = "idle"
         /\ w.at = "quiet"     => w.reg = "IMR" /\ w.bits = {} /\ w.next = "rx_off"
         /\ w.at = "rx_off"    => w.reg = "RCR" /\ w.bits = {} /\ w.next = "closed"
BY DEF PortWrites, Labels, Registers

LEMMA WriteEffect ==
  ASSUME TypeOK, AddrInv, NEW w \in PortWrites, Write(w)
  PROVE  /\ pc = w.at /\ pc' = w.next /\ ~sel' /\ hpc = "out"
         /\ pc = "reset"     => chip' = ResetChip(chip)
         /\ pc = "clear_nsr" => chip' = [chip EXCEPT !.sent = FALSE]
         /\ pc = "clear_isr" => chip' = [chip EXCEPT !.isr = {}]
         /\ pc = "rx_on"     => chip' = [chip EXCEPT !.rxOn = TRUE]
         /\ pc = "enable"    => chip' = [chip EXCEPT !.imr = Events]
         /\ pc = "mask"      => chip' = [chip EXCEPT !.imr = {}]
         /\ pc = "fill"      => chip' = [chip EXCEPT !.sram = Append(@, skb)]
         /\ pc = "txpl"      => chip' = [chip EXCEPT !.txLen = skb]
         /\ pc = "tcr"       => chip' = [chip EXCEPT !.busy = TRUE]
         /\ pc = "unmask"    => chip' = [chip EXCEPT !.imr = Events]
         /\ pc = "quiet"     => chip' = [chip EXCEPT !.imr = {}]
         /\ pc = "rx_off"    => chip' = [chip EXCEPT !.rxOn = FALSE]
<1>1. pc = w.at /\ pc' = w.next /\ ~sel' /\ hpc = "out"
  BY DEF Write, ProcRuns, TypeOK
<1>2. sel /\ chip' = Put(chip, w.bits, skb)
  BY DEF Write, ChipBecomes
<1>3. chip.addr = w.reg
  <2>1. PICK v \in PortWrites : v.at = pc /\ v.reg = chip.addr
    BY <1>1, <1>2 DEF AddrInv
  <2>2. v.reg = w.reg
    BY <1>1, <2>1 DEF PortWrites
  <2>3. QED
    BY <2>1, <2>2
<1>4. chip \in Chip
  BY DEF TypeOK
<1>5. pc = "reset" => chip' = ResetChip(chip)
  BY <1>1, <1>2, <1>3, PortTable DEF Put
<1>6. pc = "clear_nsr" => chip' = [chip EXCEPT !.sent = FALSE]
  BY <1>1, <1>2, <1>3, PortTable DEF Put
<1>7. pc = "clear_isr" => chip' = [chip EXCEPT !.isr = {}]
  <2>1. chip.isr \ Events = {}
    BY <1>4 DEF Chip
  <2>2. QED
    BY <1>1, <1>2, <1>3, <2>1, PortTable DEF Put
<1>8. pc = "rx_on" => chip' = [chip EXCEPT !.rxOn = TRUE]
  BY <1>1, <1>2, <1>3, PortTable DEF Put
<1>9. pc = "enable" => chip' = [chip EXCEPT !.imr = Events]
  BY <1>1, <1>2, <1>3, PortTable DEF Put, Events
<1>10. pc = "mask" => chip' = [chip EXCEPT !.imr = {}]
  BY <1>1, <1>2, <1>3, PortTable DEF Put, Events
<1>11. pc = "fill" => chip' = [chip EXCEPT !.sram = Append(@, skb)]
  BY <1>1, <1>2, <1>3, PortTable DEF Put
<1>12. pc = "txpl" => chip' = [chip EXCEPT !.txLen = skb]
  BY <1>1, <1>2, <1>3, PortTable DEF Put
<1>13. pc = "tcr" => chip' = [chip EXCEPT !.busy = TRUE]
  BY <1>1, <1>2, <1>3, PortTable DEF Put
<1>14. pc = "unmask" => chip' = [chip EXCEPT !.imr = Events]
  BY <1>1, <1>2, <1>3, PortTable DEF Put, Events
<1>15. pc = "quiet" => chip' = [chip EXCEPT !.imr = {}]
  BY <1>1, <1>2, <1>3, PortTable DEF Put, Events
<1>16. pc = "rx_off" => chip' = [chip EXCEPT !.rxOn = FALSE]
  <2>1. ("RXEN" \in {}) = FALSE
    OBVIOUS
  <2>2. QED
    BY <1>1, <1>2, <1>3, <2>1, PortTable DEF Put
<1>17. QED
  BY <1>1, <1>5, <1>6, <1>7, <1>8, <1>9, <1>10, <1>11, <1>12, <1>13, <1>14, <1>15, <1>16

(***************************************************************************)
(* Types.                                                                  *)
(***************************************************************************)
LEMMA LagType ==
  ASSUME TypeOK, ProcRuns
  PROVE  lag' \in 0..Latency
BY LatencyAssumption DEF TypeOK, ProcRuns

LEMMA U16Type ==
  /\ 0 \in 0..U16-1
  /\ \A n \in Int : n % U16 \in 0..U16-1
  /\ \A n \in 0..U16-1 : n + 1 \in Int /\ n + U16 - 1 \in Int
BY DEF U16

LEMMA ChipBecomesType ==
  ASSUME TypeOK, NEW c \in Chip, ChipBecomes(c)
  PROVE  chip' \in Chip /\ latch' \in BOOLEAN
BY DEF TypeOK, ChipBecomes

LEMMA ProcessType ==
  ASSUME IInv, Process
  PROVE  TypeOK'
<1> TypeOK
  BY DEF IInv
<1> USE LagType DEF TypeOK, handlerVars, driverVars
<1>1. ASSUME NEW w \in PortWrites, Select(w) PROVE TypeOK'
  <2>1. [chip EXCEPT !.addr = w.reg] \in Chip
    BY SelectType, PortTable
  <2>2. chip' \in Chip /\ latch' \in BOOLEAN
    BY <1>1, <2>1, ChipBecomesType DEF Select
  <2>3. QED
    BY <1>1, <2>2 DEF Select
<1>2. ASSUME NEW w \in PortWrites, Write(w) PROVE TypeOK'
  <2>1. Put(chip, w.bits, skb) \in Chip
    BY PutType, MaxPktsAssumption
  <2>2. chip' \in Chip /\ latch' \in BOOLEAN
    BY <1>2, <2>1, ChipBecomesType DEF Write
  <2>3. QED
    BY <1>2, <2>2, PortTable DEF Write
<1>3. CASE Open
  BY <1>3 DEF Open, Goto, Labels
<1>4. CASE Opened
  <2>1. 0 \in 0..U16-1 /\ 0 \in 0..MaxPkts
    BY U16Type, MaxPktsAssumption
  <2>2. QED
    BY <1>4, <2>1 DEF Opened, Goto, Labels
<1>5. CASE Stop
  BY <1>5 DEF Stop, Goto, Labels
<1>6. CASE FreeIrq
  BY <1>6 DEF FreeIrq, Goto, Labels
<1>7. CASE Xmit
  <2>1. skb' \in 0..MaxPkts
    BY <1>7, MaxPktsAssumption DEF Xmit
  <2>2. QED
    BY <1>7, <2>1 DEF Xmit, Goto, Labels
<1>8. CASE Branch
  BY <1>8 DEF Branch, Goto, Labels
<1>9. CASE Reload
  BY <1>9 DEF Reload, Goto, Labels
<1>10. CASE CountFirst
  BY <1>10, U16Type DEF CountFirst, Goto, Labels
<1>11. CASE CountSecond
  BY <1>11, U16Type DEF CountSecond, Goto, Labels
<1>12. CASE QueueLen
  BY <1>12 DEF QueueLen, Goto, Labels
<1>13. CASE Finish \/ Wake
  BY <1>13 DEF Finish, Wake, Goto, Labels
<1>14. QED
  BY <1>1, <1>2, <1>3, <1>4, <1>5, <1>6, <1>7, <1>8, <1>9, <1>10, <1>11, <1>12, <1>13
     DEF Process, XmitStep

LEMMA SendQueuedType ==
  ASSUME NEW c \in Chip, TypeOK
  PROVE  SendQueued(c) \in Chip
<1>1. queue_pkt_len \in Nat /\ "TXPL" \in Registers /\ "TCR" \in Registers
  BY MaxPktsAssumption DEF TypeOK, Registers
<1>2. iowt(c, "TXPL", {}, queue_pkt_len) \in Chip
  BY <1>1, PortType
<1>3. QED
  BY <1>1, <1>2, PortType DEF SendQueued

LEMMA HandlerType ==
  ASSUME IInv, Handler
  PROVE  TypeOK'
<1> TypeOK
  BY DEF IInv
<1> USE DEF TypeOK, procVars, driverVars
<1>1. CASE HEnter
  <2>1. hsave' \in Registers /\ lag' \in 0..Latency
    BY <1>1, LatencyAssumption DEF HEnter, Chip
  <2>2. QED
    BY <1>1, <2>1 DEF HEnter, HGoto, HLabels
<1>2. CASE HMask
  <2>1. iowt(chip, "IMR", {}, 0) \in Chip
    BY PortType DEF Registers
  <2>2. chip' \in Chip /\ latch' \in BOOLEAN
    BY <1>2, <2>1, ChipBecomesType DEF HMask
  <2>3. QED
    BY <1>2, <2>2 DEF HMask, HGoto, HLabels
<1>3. CASE HStatus
  <2>1. iord(chip, "ISR") \in Chip /\ chip.isr \in SUBSET Events
    BY PortType DEF Registers, Chip
  <2>2. chip' \in Chip /\ latch' \in BOOLEAN
    BY <1>3, <2>1, ChipBecomesType DEF HStatus
  <2>3. QED
    BY <1>3, <2>1, <2>2 DEF HStatus, HGoto, HLabels
<1>4. CASE HAck
  <2>1. iowt(chip, "ISR", hstat, 0) \in Chip
    BY PortType DEF Registers
  <2>2. chip' \in Chip /\ latch' \in BOOLEAN
    BY <1>4, <2>1, ChipBecomesType DEF HAck
  <2>3. QED
    BY <1>4, <2>2 DEF HAck, HGoto, HLabels
<1>5. CASE HTxDone
  <2>1. iord(chip, "NSR") \in Chip /\ SendQueued(iord(chip, "NSR")) \in Chip
    BY PortType, SendQueuedType DEF Registers
  <2>2. chip' \in Chip /\ latch' \in BOOLEAN
    BY <1>5, <2>1, ChipBecomesType DEF HTxDone
  <2>3. tx_pkt_cnt' \in 0..U16-1
    BY <1>5, U16Type DEF HTxDone
  <2>4. QED
    BY <1>5, <2>2, <2>3 DEF HTxDone, HGoto, HLabels
<1>6. CASE HTxNone
  <2>1. iord(chip, "NSR") \in Chip
    BY PortType DEF Registers
  <2>2. chip' \in Chip /\ latch' \in BOOLEAN
    BY <1>6, <2>1, ChipBecomesType DEF HTxNone
  <2>3. QED
    BY <1>6, <2>2 DEF HTxNone, HGoto, HLabels
<1>7. CASE RxNone
  BY <1>7 DEF RxNone, HGoto, HLabels
<1>8. iord(chip, "MRCMD") \in Chip
  BY PortType DEF Registers
<1>9. CASE RxEmpty
  <2>1. chip' \in Chip /\ latch' \in BOOLEAN
    BY <1>8, <1>9, ChipBecomesType DEF RxEmpty
  <2>2. QED
    BY <1>9, <2>1 DEF RxEmpty, HLabels
<1>10. CASE RxBadMark
  <2>1. iowt(iowt(chip, "RCR", {}, 0), "ISR", {}, 0) \in Chip
    BY PortType DEF Registers
  <2>2. chip' \in Chip /\ latch' \in BOOLEAN
    BY <1>10, <2>1, ChipBecomesType DEF RxBadMark
  <2>3. QED
    BY <1>10, <2>2 DEF RxBadMark, HLabels
<1>11. CASE RxFrame
  <2>1. ASSUME ~chip.skewed PROVE chip.ring # <<>>
    BY <1>11, <2>1 DEF RxFrame, RxByte, FirstBytes
  <2>2. iord(chip, "MRCMD").ring = chip.ring
    BY DEF iord, Chip
  <2>3. ~chip.skewed => Drained(iord(chip, "MRCMD")) \in Chip
    BY <1>8, <2>1, <2>2, DeviceType
  <2>4. chip' \in Chip /\ latch' \in BOOLEAN
    BY <1>11, <2>3, ChipBecomesType DEF RxFrame
  <2>5. Headers \subseteq [len: Nat, err: BOOLEAN, mark: Nat]
    <3>1. CASE chip.skewed
      BY <3>1, FramesAssumption DEF Headers
    <3>2. CASE ~chip.skewed
      <4>1. Head(chip.ring) \in Frames
        BY <2>1, <3>2, HeadTailProperties DEF Chip
      <4>2. QED
        BY <3>2, <4>1, FramesAssumption DEF Headers
    <3>3. QED
      BY <3>1, <3>2
  <2>6. delivered' \subseteq delivered \cup Headers
    BY <1>11 DEF RxFrame
  <2>7. QED
    BY <1>11, <2>4, <2>5, <2>6 DEF RxFrame, handlerVars
<1>12. CASE RxTooLong
  <2>1. HeaderRead(iord(chip, "MRCMD")) \in Chip
    BY <1>8, DeviceType
  <2>2. chip' \in Chip /\ latch' \in BOOLEAN
    BY <1>12, <2>1, ChipBecomesType DEF RxTooLong
  <2>3. QED
    BY <1>12, <2>2 DEF RxTooLong, HLabels
<1>13. CASE HExit
  <2>1. [iowt(chip, "IMR", Events, 0) EXCEPT !.addr = hsave] \in Chip
    BY PortType, SelectType DEF Registers
  <2>2. chip' \in Chip /\ latch' \in BOOLEAN
    BY <1>13, <2>1, ChipBecomesType DEF HExit
  <2>3. QED
    BY <1>13, <2>2 DEF HExit, HGoto, HLabels
<1>14. QED
  BY <1>1, <1>2, <1>3, <1>4, <1>5, <1>6, <1>7, <1>9, <1>10, <1>11, <1>12, <1>13 DEF Handler

LEMMA ChipStepsType ==
  ASSUME IInv, Device
  PROVE  TypeOK'
<1> TypeOK
  BY DEF IInv
<1> USE DEF TypeOK, procVars, handlerVars, driverVars
<1>1. CASE TxComplete
  <2>1. chip.sram # <<>>
    BY <1>1, EmptySeq DEF IInv, TxInv, TxComplete, Busy, Held
  <2>2. chip' \in Chip /\ latch' \in BOOLEAN
    BY <1>1, <2>1, DeviceType, ChipBecomesType DEF TxComplete
  <2>3. Head(chip.sram) \in Nat /\ chip.txLen \in Nat
    BY <2>1, HeadTailProperties DEF Chip
  <2>4. wire' \in Seq([pkt: Nat, len: Nat])
    BY <1>1, <2>3, AppendProperties DEF TxComplete
  <2>5. QED
    BY <1>1, <2>2, <2>4 DEF TxComplete
<1>2. ASSUME NEW f \in Frames, RxArrive(f) PROVE TypeOK'
  <2>1. chip' \in Chip /\ latch' \in BOOLEAN
    BY <1>2, DeviceType, ChipBecomesType DEF RxArrive
  <2>2. QED
    BY <1>2, <2>1 DEF RxArrive
<1>3. QED
  BY <1>1, <1>2 DEF Device

LEMMA TypeStep ==
  ASSUME IInv, [Next]_vars
  PROVE  TypeOK'
<1>1. CASE UNCHANGED vars
  BY <1>1 DEF IInv, TypeOK, vars, procVars, handlerVars, driverVars
<1>2. QED
  BY <1>1, ProcessType, HandlerType, ChipStepsType DEF Next

(***************************************************************************)
(* Interrupts.                                                             *)
(***************************************************************************)
\* A step that leaves the edge latch alone, or moves the chip through
\* ChipBecomes, cannot lose an edge.
LEMMA ChipBecomesIrq ==
  ASSUME NoLostIrq, NEW c, ChipBecomes(c), hpc # "mask"
  PROVE  NoLostIrq'
BY DEF NoLostIrq, ChipBecomes, Edge, Asserted

LEMMA IrqStep ==
  ASSUME IInv, [Next]_vars
  PROVE  NoLostIrq'
<1> TypeOK /\ NoLostIrq
  BY DEF IInv
<1>1. CASE UNCHANGED <<chip, latch, hpc>>
  BY <1>1 DEF NoLostIrq, Asserted
<1>2. CASE Process
  <2>1. ASSUME NEW w \in PortWrites, Select(w) \/ Write(w) PROVE NoLostIrq'
    BY <2>1, ChipBecomesIrq DEF Select, Write, ProcRuns
  <2>2. CASE Open \/ Opened \/ Stop \/ FreeIrq \/ Xmit \/ XmitStep
    BY <2>2, <1>1 DEF Open, Opened, Stop, FreeIrq, Xmit, XmitStep, Branch, Reload,
         CountFirst, CountSecond, QueueLen, Finish, Wake, handlerVars
  <2>3. QED
    BY <1>2, <2>1, <2>2 DEF Process
<1>3. CASE HEnter
  BY <1>3 DEF HEnter, HGoto, NoLostIrq
<1>4. CASE HMask
  <2>1. iowt(chip, "IMR", {}, 0).imr = {}
    BY DEF iowt, Put, TypeOK, Chip
  <2>2. QED
    BY <1>4, <2>1 DEF HMask, ChipBecomes, NoLostIrq, Asserted
<1>5. CASE HStatus \/ HAck \/ HTxDone \/ HTxNone \/ RxEmpty \/ RxBadMark \/ RxFrame
           \/ RxTooLong \/ HExit
  BY <1>5, ChipBecomesIrq
     DEF HStatus, HAck, HTxDone, HTxNone, RxEmpty, RxBadMark, RxFrame, RxTooLong, HExit,
         HGoto, RxByte
<1>6. CASE RxNone
  BY <1>6 DEF RxNone, HGoto, NoLostIrq, Asserted
<1>7. CASE Device
  <2>1. CASE hpc # "mask"
    BY <1>7, <2>1, ChipBecomesIrq DEF Device, TxComplete, RxArrive
  <2>2. CASE hpc = "mask"
    BY <1>7, <2>2 DEF Device, TxComplete, RxArrive, handlerVars, NoLostIrq
  <2>3. QED
    BY <2>1, <2>2
<1>8. QED
  BY <1>1, <1>2, <1>3, <1>4, <1>5, <1>6, <1>7
     DEF Next, Handler, vars, handlerVars

(***************************************************************************)
(* The index port.                                                         *)
(***************************************************************************)
LEMMA AddrStep ==
  ASSUME IInv, [Next]_vars
  PROVE  AddrInv'
<1> TypeOK /\ AddrInv
  BY DEF IInv
<1>1. CASE /\ UNCHANGED <<pc, sel, hsave>>
           /\ (hpc' = "out") = (hpc = "out")
           /\ hpc = "out" => chip'.addr = chip.addr
  BY <1>1 DEF AddrInv
<1>2. CASE UNCHANGED vars
  BY <1>1, <1>2 DEF vars, procVars, handlerVars
<1>3. ASSUME NEW w \in PortWrites, Select(w) PROVE AddrInv'
  <2>1. chip'.addr = w.reg /\ pc' = w.at /\ hpc' = "out"
    BY <1>3 DEF Select, ChipBecomes, ProcRuns, TypeOK, Chip, handlerVars
  <2>2. QED
    BY <2>1 DEF AddrInv
<1>4. ASSUME NEW w \in PortWrites, Write(w) PROVE AddrInv'
  BY <1>4 DEF Write, AddrInv
<1>5. CASE Open \/ Opened \/ Stop \/ FreeIrq \/ Xmit \/ XmitStep
  BY <1>5 DEF Open, Opened, Stop, FreeIrq, Xmit, XmitStep, Branch, Reload,
       CountFirst, CountSecond, QueueLen, Finish, Wake, Goto, AddrInv
<1>6. CASE HEnter
  BY <1>6 DEF HEnter, HGoto, AddrInv
<1>7. CASE \/ HMask \/ HStatus \/ HAck \/ HTxDone \/ HTxNone \/ RxNone
           \/ RxEmpty \/ RxBadMark \/ RxFrame \/ RxTooLong
  BY <1>1, <1>7 DEF HMask, HStatus, HAck, HTxDone, HTxNone, RxNone, RxEmpty, RxBadMark,
       RxFrame, RxTooLong, HGoto, RxByte, procVars, handlerVars
<1>8. CASE HExit
  <2>1. chip'.addr = hsave
    <3>1. iowt(chip, "IMR", Events, 0) \in Chip
      BY PortType DEF TypeOK, Registers
    <3>2. QED
      BY <1>8, <3>1 DEF HExit, ChipBecomes, Chip
  <2>2. QED
    BY <1>8, <2>1 DEF HExit, HGoto, AddrInv, procVars
<1>9. CASE Device
  <2>1. chip'.addr = chip.addr
    BY <1>9 DEF Device, TxComplete, RxArrive, ChipBecomes, Transmitted, Received, TypeOK, Chip
  <2>2. QED
    BY <1>1, <1>9, <2>1 DEF Device, TxComplete, RxArrive, procVars, handlerVars
<1>10. QED
  BY <1>2, <1>3, <1>4, <1>5, <1>6, <1>7, <1>8, <1>9 DEF Next, Process, Handler

(***************************************************************************)
(* Transmission.                                                           *)
(***************************************************************************)
\* What TxInv reads of the chip.
TxSame(c, d) == d.sram = c.sram /\ d.sent = c.sent /\ d.busy = c.busy

\* What PipeInv reads of it besides.
TxQuiet(c, d) == TxSame(c, d) /\ d.txLen = c.txLen

LEMMA TxSamePorts ==
  ASSUME NEW c \in Chip
  PROVE  /\ \A r \in Registers : TxQuiet(c, [c EXCEPT !.addr = r])
         /\ \A r \in {"IMR", "ISR", "RCR"}, num \in Nat :
              \A bits : TxQuiet(c, iowt(c, r, bits, num))
         /\ \A num \in Nat : TxSame(c, iowt(c, "TXPL", {}, num))
         /\ \A r \in {"ISR", "MRCMD"} : TxQuiet(c, iord(c, r))
         /\ \A f \in Frames : TxQuiet(c, Received(c, f))
         /\ TxQuiet(c, Drained(c))
         /\ TxQuiet(c, HeaderRead(c))
<1> USE DEF TxQuiet, TxSame
<1>1. ASSUME NEW r \in {"IMR", "ISR", "RCR"}, NEW num \in Nat, NEW bits
      PROVE  TxQuiet(c, iowt(c, r, bits, num))
  <2>1. CASE r = "IMR"
    BY <2>1 DEF iowt, Put, Chip
  <2>2. CASE r = "ISR"
    BY <2>2 DEF iowt, Put, Chip
  <2>3. CASE r = "RCR"
    BY <2>3 DEF iowt, Put, Chip
  <2>4. QED
    BY <2>1, <2>2, <2>3
<1>2. \A num \in Nat : TxSame(c, iowt(c, "TXPL", {}, num))
  BY DEF iowt, Put, Chip
<1>3. \A r \in {"ISR", "MRCMD"} : TxQuiet(c, iord(c, r))
  BY DEF iord, Chip
<1>4. QED
  BY <1>1, <1>2, <1>3 DEF Chip, Received, Drained, HeaderRead

LEMMA TxValues ==
  ASSUME TypeOK
  PROVE  /\ Held \in Nat /\ (chip.sram = <<>> <=> Held = 0)
         /\ Busy \in 0..1 /\ Sent \in 0..1
         /\ tx_pkt_cnt \in Nat /\ tmp \in Nat
<1>1. chip.sram \in Seq(Nat)
  BY DEF TypeOK, Chip
<1>2. Held \in Nat /\ (chip.sram = <<>> <=> Held = 0)
  BY <1>1, LenProperties, EmptySeq DEF Held
<1>3. tx_pkt_cnt \in Nat /\ tmp \in Nat
  BY DEF TypeOK
<1>4. QED
  BY <1>2, <1>3 DEF Busy, Sent

LEMMA TxSameValues ==
  ASSUME TxSame(chip, chip')
  PROVE  Held' = Held /\ Busy' = Busy /\ Sent' = Sent
BY DEF TxSame, Held, Busy, Sent

LEMMA TxStutter ==
  ASSUME TxInv, TxSame(chip, chip'), UNCHANGED <<tx_pkt_cnt, tmp, pc>>
  PROVE  TxInv'
BY TxSameValues DEF TxInv, Uncounted

\* Choosing a register or receiving a frame leaves the transmit side alone.
LEMMA SelectQuiet ==
  ASSUME IInv, NEW w \in PortWrites, Select(w)
  PROVE  TxQuiet(chip, chip') /\ UNCHANGED <<pc, tmp, skb, tx_pkt_cnt, queue_pkt_len, awake>>
BY PortTable, TxSamePorts DEF IInv, TypeOK, Select, ChipBecomes, driverVars

LEMMA ArriveQuiet ==
  ASSUME IInv, NEW f \in Frames, RxArrive(f)
  PROVE  TxQuiet(chip, chip') /\ UNCHANGED <<pc, tmp, skb, tx_pkt_cnt, queue_pkt_len, awake>>
BY TxSamePorts DEF IInv, TypeOK, RxArrive, ChipBecomes, procVars, driverVars

\* What a process write does to the counts of packets.
LEMMA WriteCounts ==
  ASSUME IInv, NEW w \in PortWrites, Write(w)
  PROVE  /\ UNCHANGED <<tx_pkt_cnt, tmp, skb, queue_pkt_len, awake>>
         /\ pc = "reset" => /\ pc' = "clear_nsr"
                            /\ Held' = 0 /\ Busy' = 0 /\ Sent' = 0
         /\ pc \in Opening => /\ pc' \in {"clear_isr", "rx_on", "enable", "opened"}
                              /\ Held' = 0 /\ Busy' = 0 /\ Sent' = 0
         /\ pc = "fill" => /\ pc' = "branch" /\ chip'.sram = Append(chip.sram, skb)
                           /\ Held' = Held + 1 /\ Busy' = Busy /\ Sent' = Sent
         /\ pc = "tcr" => /\ pc' = "finish" /\ chip'.sram = chip.sram
                          /\ Held' = Held /\ Busy' = 1 /\ Sent' = Sent
         /\ pc \notin Opening \cup {"reset", "fill", "tcr"} =>
              /\ TxSame(chip, chip')
              /\ \/ pc = "mask" /\ pc' = "fill"
                 \/ pc = "txpl" /\ pc' = "tcr"
                 \/ pc = "unmask" /\ pc' = "idle"
                 \/ pc \in {"quiet", "rx_off"} /\ pc' \in {"rx_off", "closed"}
<1> TypeOK /\ AddrInv /\ TxInv
  BY DEF IInv
<1> chip \in Chip
  BY DEF TypeOK
<1>1. UNCHANGED <<tx_pkt_cnt, tmp, skb, queue_pkt_len, awake>>
  BY DEF Write, driverVars
<1>2. pc = w.at /\ pc' = w.next
  BY WriteEffect
<1>3. ASSUME pc = "reset"
      PROVE  pc' = "clear_nsr" /\ Held' = 0 /\ Busy' = 0 /\ Sent' = 0
  <2>1. chip'.sram = <<>> /\ ~chip'.busy /\ ~chip'.sent
    BY <1>3, WriteEffect DEF ResetChip, Chip
  <2>2. QED
    BY <1>2, <1>3, <2>1, PortTable, EmptySeq DEF Held, Busy, Sent
<1>4. ASSUME pc \in Opening
      PROVE  /\ pc' \in {"clear_isr", "rx_on", "enable", "opened"}
             /\ Held' = 0 /\ Busy' = 0 /\ Sent' = 0
  <2>1. pc \in {"clear_nsr", "clear_isr", "rx_on", "enable"}
    BY <1>4 DEF Opening
  <2>2. chip'.sram = chip.sram /\ chip'.busy = chip.busy
    BY <2>1, WriteEffect DEF Chip
  <2>3. ~chip'.sent
    <3>1. ~chip.sent
      BY <2>1, TxValues DEF TxInv, Busy, Sent
    <3>2. QED
      BY <2>1, <3>1, WriteEffect DEF Chip
  <2>4. Held' = Held /\ Busy' = Busy /\ Sent' = 0
    BY <2>2, <2>3 DEF Held, Busy, Sent
  <2>5. pc' \in {"clear_isr", "rx_on", "enable", "opened"}
    BY <1>2, <2>1, PortTable
  <2>6. QED
    BY <2>1, <2>4, <2>5, TxValues DEF TxInv
<1>5. ASSUME pc = "fill"
      PROVE  /\ pc' = "branch" /\ chip'.sram = Append(chip.sram, skb)
             /\ Held' = Held + 1 /\ Busy' = Busy /\ Sent' = Sent
  <2>1. /\ chip'.sram = Append(chip.sram, skb)
        /\ chip'.busy = chip.busy /\ chip'.sent = chip.sent
    BY <1>5, WriteEffect DEF Chip
  <2>2. chip.sram \in Seq(Nat) /\ skb \in Nat
    BY MaxPktsAssumption DEF TypeOK, Chip
  <2>3. Held' = Held + 1 /\ Busy' = Busy /\ Sent' = Sent
    BY <2>1, <2>2, AppendProperties DEF Held, Busy, Sent
  <2>4. QED
    BY <1>2, <1>5, <2>1, <2>3, PortTable
<1>6. ASSUME pc = "tcr"
      PROVE  /\ pc' = "finish" /\ chip'.sram = chip.sram
             /\ Held' = Held /\ Busy' = 1 /\ Sent' = Sent
  <2>1. chip'.busy /\ chip'.sram = chip.sram /\ chip'.sent = chip.sent
    BY <1>6, WriteEffect DEF Chip
  <2>2. QED
    BY <1>2, <1>6, <2>1, PortTable DEF Held, Busy, Sent
<1>7. ASSUME pc \notin Opening \cup {"reset", "fill", "tcr"}
      PROVE  /\ TxSame(chip, chip')
             /\ \/ pc = "mask" /\ pc' = "fill"
                \/ pc = "txpl" /\ pc' = "tcr"
                \/ pc = "unmask" /\ pc' = "idle"
                \/ pc \in {"quiet", "rx_off"} /\ pc' \in {"rx_off", "closed"}
  <2>1. pc \in {"mask", "txpl", "unmask", "quiet", "rx_off"}
    BY <1>2, <1>7 DEF PortWrites, Opening
  <2>2. TxSame(chip, chip')
    BY <2>1, WriteEffect DEF TxSame, Chip
  <2>3. QED
    BY <1>2, <2>1, <2>2, PortTable
<1>8. QED
  BY <1>1, <1>3, <1>4, <1>5, <1>6, <1>7

LEMMA TxWrite ==
  ASSUME IInv, NEW w \in PortWrites, Write(w)
  PROVE  TxInv'
<1> TypeOK /\ TxInv
  BY DEF IInv
<1>1. UNCHANGED <<tx_pkt_cnt, tmp>>
  BY WriteCounts
<1>2. CASE pc = "reset"
  BY <1>1, <1>2, WriteCounts, TxValues DEF TxInv, Uncounted
<1>3. CASE pc \in Opening
  BY <1>1, <1>3, WriteCounts, TxValues DEF TxInv, Uncounted
<1>4. CASE pc = "fill"
  BY <1>1, <1>4, WriteCounts, TxValues DEF TxInv, Uncounted
<1>5. CASE pc = "tcr"
  BY <1>1, <1>5, WriteCounts, TxValues DEF TxInv, Uncounted
<1>6. CASE pc \notin Opening \cup {"reset", "fill", "tcr"}
  BY <1>1, <1>6, WriteCounts, TxValues, TxSameValues DEF TxInv, Uncounted
<1>7. QED
  BY <1>2, <1>3, <1>4, <1>5, <1>6

\* xmit's own steps.
LEMMA TxXmit ==
  ASSUME IInv, Xmit \/ XmitStep
  PROVE  TxInv'
<1> TypeOK /\ TxInv
  BY DEF IInv
<1>1. chip' = chip /\ Held' = Held /\ Busy' = Busy /\ Sent' = Sent
  BY DEF Xmit, XmitStep, Branch, Reload, CountFirst, CountSecond, QueueLen, Finish, Wake,
         Held, Busy, Sent
<1>2. CASE Xmit
  <2>1. pc = "idle" /\ pc' = "mask" /\ tx_pkt_cnt <= 1 /\ UNCHANGED <<tx_pkt_cnt, tmp>>
    BY <1>2 DEF Xmit, Goto
  <2>2. QED
    BY <1>1, <2>1, TxValues DEF TxInv, Uncounted
<1>3. CASE Branch
  <2>1. /\ tmp' = tx_pkt_cnt /\ tx_pkt_cnt' = tx_pkt_cnt /\ pc = "branch"
        /\ pc' = IF tx_pkt_cnt = 0 THEN "first" ELSE "second"
    BY <1>3 DEF Branch, Goto, driverVars
  <2>2. QED
    BY <1>1, <2>1, TxValues DEF TxInv, Uncounted
<1>4. CASE Reload
  <2>1. /\ tmp' = tx_pkt_cnt /\ tx_pkt_cnt' = tx_pkt_cnt /\ pc' = pc
        /\ pc \in {"first", "second"}
    BY <1>4 DEF Reload, Goto, driverVars
  <2>2. QED
    BY <1>1, <2>1, TxValues DEF TxInv, Uncounted
<1>5. CASE CountFirst
  <2>1. pc = "first" /\ pc' = "txpl" /\ tmp' = tmp /\ tx_pkt_cnt' = (tmp + 1) % U16
    BY <1>5 DEF CountFirst, Goto
  <2>2. tmp = 0
    BY <2>1 DEF TxInv
  <2>3. tx_pkt_cnt' = 1
    BY <2>1, <2>2 DEF U16
  <2>4. QED
    BY <1>1, <2>1, <2>3, TxValues DEF TxInv, Uncounted
<1>6. CASE CountSecond
  <2>1. pc = "second" /\ pc' = "queue" /\ tmp' = tmp /\ tx_pkt_cnt' = (tmp + 1) % U16
    BY <1>6 DEF CountSecond, Goto
  <2>2. tmp \in 0..1
    BY <2>1, TxValues DEF TxInv
  <2>3. tx_pkt_cnt' = tmp + 1
    BY <2>1, <2>2 DEF U16
  <2>4. QED
    BY <1>1, <2>1, <2>3, TxValues DEF TxInv, Uncounted
<1>7. CASE QueueLen \/ Finish \/ Wake
  <2>1. /\ UNCHANGED <<tx_pkt_cnt, tmp>>
        /\ pc \in {"queue", "finish", "wake"} /\ pc' \in {"finish", "wake", "unmask"}
    BY <1>7 DEF QueueLen, Finish, Wake, Goto, driverVars
  <2>2. QED
    BY <1>1, <2>1, TxValues DEF TxInv, Uncounted
<1>8. QED
  BY <1>2, <1>3, <1>4, <1>5, <1>6, <1>7 DEF XmitStep

LEMMA TxProcess ==
  ASSUME IInv, Process
  PROVE  TxInv'
<1> TypeOK /\ TxInv
  BY DEF IInv
<1>1. ASSUME NEW w \in PortWrites, Select(w) PROVE TxInv'
  BY <1>1, SelectQuiet, TxStutter DEF TxQuiet
<1>2. ASSUME NEW w \in PortWrites, Write(w) PROVE TxInv'
  BY <1>2, TxWrite
<1>3. CASE Open \/ Stop \/ FreeIrq
  <2>1. UNCHANGED <<chip, tx_pkt_cnt, tmp>>
    BY <1>3 DEF Open, Stop, FreeIrq
  <2>2. pc \in {"closed", "idle", "free_irq"} /\ pc' \in {"reset", "free_irq", "quiet"}
    BY <1>3 DEF Open, Stop, FreeIrq, Goto
  <2>3. QED
    BY <2>1, <2>2, TxValues DEF TxInv, Uncounted, Held, Busy, Sent
<1>4. CASE Opened
  <2>1. chip' = chip /\ tx_pkt_cnt' = 0 /\ tmp' = tmp /\ pc = "opened" /\ pc' = "idle"
    BY <1>4 DEF Opened, Goto
  <2>2. Held' = Held /\ Busy' = Busy /\ Sent' = Sent
    BY <2>1 DEF Held, Busy, Sent
  <2>3. QED
    BY <2>1, <2>2, TxValues DEF TxInv, Uncounted
<1>5. QED
  BY <1>1, <1>2, <1>3, <1>4, TxXmit DEF Process

\* The handler sees that a packet is out: the count was at least 1, and
\* exact, and the packet behind it is sent with queue_pkt_len.
LEMMA DoneCounts ==
  ASSUME IInv, HTxDone
  PROVE  /\ UNCHANGED <<tmp, pc, skb, queue_pkt_len>> /\ awake' = TRUE
         /\ Sent = 1 /\ Busy = 0 /\ tx_pkt_cnt \in 1..2
         /\ tx_pkt_cnt' = tx_pkt_cnt - 1
         /\ Held' = Held /\ Sent' = 0 /\ chip'.sram = chip.sram
         /\ tx_pkt_cnt' = 0 => Busy' = 0 /\ chip'.txLen = chip.txLen
         /\ tx_pkt_cnt' > 0 => Busy' = 1 /\ chip'.txLen = queue_pkt_len
<1> TypeOK /\ TxInv
  BY DEF IInv
<1>1. Sent = 1 /\ Busy = 0 /\ tx_pkt_cnt \in 1..2
  <2>1. Sent = 1
    BY DEF HTxDone, Sent
  <2>2. QED
    BY <2>1, TxValues DEF TxInv
<1>2. tx_pkt_cnt' = tx_pkt_cnt - 1
  <2>1. tx_pkt_cnt' = (tx_pkt_cnt + U16 - 1) % U16
    BY DEF HTxDone
  <2>2. QED
    BY <1>1, <2>1 DEF U16
<1>3. UNCHANGED <<tmp, pc, skb, queue_pkt_len>> /\ awake' = TRUE
  BY DEF HTxDone, procVars
<1> DEFINE c == iord(chip, "NSR")
<1>4. /\ c \in Chip /\ c.sram = chip.sram /\ c.busy = chip.busy /\ ~c.sent
      /\ c.txLen = chip.txLen
  <2>1. c \in Chip
    BY PortType DEF TypeOK, Registers
  <2>2. QED
    BY <2>1 DEF iord, TypeOK, Chip
<1> HIDE DEF c
<1>5. ASSUME tx_pkt_cnt' = 0
      PROVE  /\ chip'.sram = chip.sram /\ chip'.txLen = chip.txLen
             /\ Held' = Held /\ Busy' = 0 /\ Sent' = 0
  <2>1. chip' = c
    BY <1>5 DEF HTxDone, ChipBecomes, c
  <2>2. Held' = Held /\ Busy' = Busy /\ Sent' = 0
    BY <1>4, <2>1 DEF Held, Busy, Sent
  <2>3. QED
    BY <1>1, <1>4, <2>1, <2>2
<1>6. ASSUME tx_pkt_cnt' > 0
      PROVE  /\ chip'.sram = chip.sram /\ chip'.txLen = queue_pkt_len
             /\ Held' = Held /\ Busy' = 1 /\ Sent' = 0
  <2>1. chip' = SendQueued(c)
    BY <1>6 DEF HTxDone, ChipBecomes, c
  <2>2. queue_pkt_len \in Nat
    BY MaxPktsAssumption DEF TypeOK
  <2> DEFINE d == iowt(c, "TXPL", {}, queue_pkt_len)
  <2>3. /\ d \in Chip /\ d.sram = chip.sram /\ ~d.sent
        /\ d.txLen = queue_pkt_len
    <3>1. d \in Chip
      BY <1>4, <2>2, PortType DEF Registers
    <3>2. TxSame(c, d)
      BY <1>4, <2>2, TxSamePorts
    <3>3. d.txLen = queue_pkt_len
      BY <1>4 DEF iowt, Put, Chip
    <3>4. QED
      BY <1>4, <3>1, <3>2, <3>3 DEF TxSame
  <2>4. chip' = iowt(d, "TCR", {"TXREQ"}, 0)
    BY <2>1 DEF SendQueued
  <2> HIDE DEF d
  <2>5. /\ chip'.sram = chip.sram /\ chip'.busy /\ ~chip'.sent
        /\ chip'.txLen = queue_pkt_len
    BY <2>3, <2>4 DEF iowt, Put, Chip
  <2>6. QED
    BY <2>5 DEF Held, Busy, Sent
<1>7. tx_pkt_cnt' = 0 \/ tx_pkt_cnt' > 0
  BY <1>1, <1>2
<1>8. QED
  BY <1>1, <1>2, <1>3, <1>5, <1>6, <1>7

LEMMA TxDoneStep ==
  ASSUME IInv, HTxDone
  PROVE  TxInv'
<1> TypeOK /\ TxInv
  BY DEF IInv
<1>1. CASE tx_pkt_cnt' = 0
  BY <1>1, DoneCounts, TxValues DEF TxInv, Uncounted
<1>2. CASE tx_pkt_cnt' > 0
  BY <1>2, DoneCounts, TxValues DEF TxInv, Uncounted
<1>3. QED
  BY <1>1, <1>2, DoneCounts

\* No other step of the handler touches the transmit side.
LEMMA HandlerQuiet ==
  ASSUME IInv, Handler, ~HTxDone
  PROVE  TxQuiet(chip, chip') /\ UNCHANGED <<pc, tmp, skb, tx_pkt_cnt, queue_pkt_len, awake>>
<1> TypeOK /\ chip \in Chip
  BY DEF IInv, TypeOK
<1> SUFFICES TxQuiet(chip, chip')
  <2> UNCHANGED <<pc, tmp, skb, tx_pkt_cnt, queue_pkt_len, awake>>
    BY DEF Handler, HEnter, HMask, HStatus, HAck, HTxNone, RxNone, RxEmpty, RxBadMark,
           RxFrame, RxTooLong, HExit, procVars, driverVars
  <2> QED
    OBVIOUS
<1>1. CASE HEnter \/ RxNone
  BY <1>1 DEF HEnter, RxNone, TxQuiet, TxSame
<1>2. CASE HMask \/ HStatus \/ HAck
  BY <1>2, TxSamePorts DEF HMask, HStatus, HAck, ChipBecomes
<1>3. CASE HTxNone
  BY <1>3 DEF HTxNone, ChipBecomes, iord, TxQuiet, TxSame, Chip
<1>4. iord(chip, "MRCMD") \in Chip /\ TxQuiet(chip, iord(chip, "MRCMD"))
  BY TxSamePorts, PortType DEF Registers
<1>5. CASE RxEmpty
  BY <1>4, <1>5 DEF RxEmpty, ChipBecomes
<1>6. CASE RxBadMark
  <2>1. iowt(chip, "RCR", {}, 0) \in Chip /\ TxQuiet(chip, iowt(chip, "RCR", {}, 0))
    BY TxSamePorts, PortType DEF Registers
  <2>2. QED
    BY <1>6, <2>1, TxSamePorts DEF RxBadMark, ChipBecomes, TxQuiet, TxSame
<1>7. CASE RxFrame
  BY <1>4, <1>7, TxSamePorts DEF RxFrame, ChipBecomes, TxQuiet, TxSame
<1>8. CASE RxTooLong
  BY <1>4, <1>8, TxSamePorts DEF RxTooLong, ChipBecomes, TxQuiet, TxSame
<1>9. CASE HExit
  <2>1. /\ iowt(chip, "IMR", Events, 0) \in Chip
        /\ TxQuiet(chip, iowt(chip, "IMR", Events, 0))
    BY TxSamePorts, PortType DEF Registers
  <2>2. QED
    BY <1>9, <2>1, TxSamePorts DEF HExit, ChipBecomes, TxQuiet, TxSame, TypeOK
<1>10. QED
  BY <1>1, <1>2, <1>3, <1>5, <1>6, <1>7, <1>8, <1>9 DEF Handler

LEMMA TxHandler ==
  ASSUME IInv, Handler
  PROVE  TxInv'
<1>1. CASE HTxDone
  BY <1>1, TxDoneStep
<1>2. CASE ~HTxDone
  BY <1>2, HandlerQuiet, TxStutter DEF TxQuiet, IInv
<1>3. QED
  BY <1>1, <1>2

\* The chip has sent the packet at the head of its SRAM.
LEMMA SentCounts ==
  ASSUME IInv, TxComplete
  PROVE  /\ UNCHANGED <<tx_pkt_cnt, tmp, pc, skb, queue_pkt_len, awake>>
         /\ Busy = 1 /\ chip.sram # <<>> /\ chip.sram \in Seq(Nat)
         /\ chip'.sram = Tail(chip.sram) /\ ~chip'.busy /\ chip'.txLen = chip.txLen
         /\ Held' = Held - 1 /\ Busy' = 0 /\ Sent' = 1
<1> TypeOK /\ TxInv
  BY DEF IInv
<1>1. Busy = 1 /\ chip.sram # <<>>
  <2>1. Busy = 1
    BY DEF TxComplete, Busy
  <2>2. QED
    BY <2>1, TxValues DEF TxInv
<1>2. /\ chip'.sram = Tail(chip.sram) /\ ~chip'.busy /\ chip'.sent
      /\ chip'.txLen = chip.txLen
  BY DEF TxComplete, ChipBecomes, Transmitted, TypeOK, Chip
<1>3. chip.sram \in Seq(Nat)
  BY DEF TypeOK, Chip
<1>4. Held' = Held - 1 /\ Busy' = 0 /\ Sent' = 1
  BY <1>1, <1>2, <1>3, HeadTailProperties DEF Held, Busy, Sent
<1>5. UNCHANGED <<tx_pkt_cnt, tmp, pc, skb, queue_pkt_len, awake>>
  BY DEF TxComplete, procVars, driverVars
<1>6. QED
  BY <1>1, <1>2, <1>3, <1>4, <1>5

LEMMA TxStep ==
  ASSUME IInv, [Next]_vars
  PROVE  TxInv'
<1> TypeOK /\ TxInv
  BY DEF IInv
<1>1. CASE UNCHANGED vars
  BY <1>1, TxStutter DEF vars, procVars, driverVars, TxSame
<1>2. CASE TxComplete
  BY <1>2, SentCounts, TxValues DEF TxInv, Uncounted
<1>3. ASSUME NEW f \in Frames, RxArrive(f) PROVE TxInv'
  BY <1>3, ArriveQuiet, TxStutter DEF TxQuiet
<1>4. QED
  BY <1>1, <1>2, <1>3, TxProcess, TxHandler DEF Next, Device

(***************************************************************************)
(* Reception.                                                              *)
(***************************************************************************)
\* What RxInv reads of the chip.
RxSame(c, d) ==
  d.ring = c.ring /\ d.rxOn = c.rxOn /\ d.skewed = c.skewed /\ d.isr = c.isr

LEMMA RxSamePorts ==
  ASSUME NEW c \in Chip, NEW bits, NEW num \in Nat
  PROVE  /\ \A r \in Registers : RxSame(c, [c EXCEPT !.addr = r])
         /\ \A r \in Registers : RxSame(c, iord(c, r))
         /\ RxSame(c, iowt(c, "IMR", bits, num))
         /\ RxSame(c, iowt(c, "TXPL", bits, num))
         /\ RxSame(c, iowt(c, "TCR", {"TXREQ"}, num))
<1>1. RxSame(c, iowt(c, "IMR", bits, num))
  BY DEF RxSame, iowt, Put, Chip
<1>2. RxSame(c, iowt(c, "TXPL", bits, num))
  BY DEF RxSame, iowt, Put, Chip
<1>3. RxSame(c, iowt(c, "TCR", {"TXREQ"}, num))
  BY DEF RxSame, iowt, Put, Chip
<1>4. QED
  BY <1>1, <1>2, <1>3 DEF RxSame, iord, Chip

\* A step that leaves the receive side of the chip and the handler alone.
LEMMA RxStutter ==
  ASSUME RxInv, RxSame(chip, chip'), UNCHANGED <<device_wait_reset, delivered>>,
         \/ UNCHANGED <<hpc, hstat>>
         \/ hpc \notin {"ack", "tx", "rx"} /\ hpc' \notin {"ack", "tx", "rx"}
         \/ hpc' \in {"ack", "tx", "rx"} /\ hpc \in {"ack", "tx", "rx"} /\ hstat' = hstat,
         \/ pc' = pc
         \/ pc' \notin {"clear_nsr", "clear_isr", "rx_on"}
         \/ pc \in {"clear_nsr", "clear_isr"}
  PROVE  RxInv'
BY DEF RxInv, RxSame, NoStrandedFrame, DeliveredIntact

LEMMA RxWrite ==
  ASSUME IInv, NEW w \in PortWrites, Write(w)
  PROVE  RxInv'
<1> TypeOK /\ AddrInv /\ RxInv /\ chip \in Chip
  BY DEF IInv, TypeOK
<1>1. UNCHANGED <<hpc, hstat, device_wait_reset, delivered>>
  BY DEF Write, driverVars, handlerVars
<1>2. pc = w.at /\ pc' = w.next
  BY WriteEffect
<1>3. CASE pc = "reset"
  <2>1. chip'.ring = <<>> /\ ~chip'.rxOn /\ ~chip'.skewed
    BY <1>3, WriteEffect DEF ResetChip, Chip
  <2>2. QED
    BY <1>1, <2>1 DEF RxInv, NoStrandedFrame, DeliveredIntact
<1>4. CASE pc = "clear_nsr"
  <2>1. RxSame(chip, chip')
    BY <1>4, WriteEffect DEF RxSame, Chip
  <2>2. QED
    BY <1>1, <1>4, <2>1, RxStutter
<1>5. CASE pc = "clear_isr"
  <2>1. /\ chip'.ring = chip.ring /\ chip'.rxOn = chip.rxOn
        /\ chip'.skewed = chip.skewed /\ chip.ring = <<>>
    BY <1>5, WriteEffect DEF Chip, RxInv
  <2>2. QED
    BY <1>1, <1>5, <2>1 DEF RxInv, NoStrandedFrame, DeliveredIntact
<1>6. CASE pc \in {"rx_on", "rx_off"}
  <2>1. chip'.ring = chip.ring /\ chip'.skewed = chip.skewed /\ chip'.isr = chip.isr
    BY <1>6, WriteEffect DEF Chip
  <2>2. pc' \notin {"clear_nsr", "clear_isr", "rx_on"}
    BY <1>2, <1>6, PortTable
  <2>3. QED
    BY <1>1, <2>1, <2>2 DEF RxInv, NoStrandedFrame, DeliveredIntact
<1>7. CASE pc \in {"enable", "unmask", "mask", "quiet", "fill", "txpl", "tcr"}
  <2>1. RxSame(chip, chip')
    BY <1>7, WriteEffect DEF RxSame, Chip
  <2>2. pc' \notin {"clear_nsr", "clear_isr", "rx_on"}
    BY <1>2, <1>7, PortTable
  <2>3. QED
    BY <1>1, <2>1, <2>2, RxStutter
<1>8. QED
  BY <1>2, <1>3, <1>4, <1>5, <1>6, <1>7 DEF PortWrites

LEMMA RxProcess ==
  ASSUME IInv, Process
  PROVE  RxInv'
<1> TypeOK /\ RxInv /\ chip \in Chip
  BY DEF IInv, TypeOK
<1> USE DEF driverVars, handlerVars
<1>1. ASSUME NEW w \in PortWrites, Select(w) PROVE RxInv'
  <2>1. RxSame(chip, chip')
    BY <1>1, PortTable DEF Select, ChipBecomes, Chip, RxSame
  <2>2. QED
    BY <1>1, <2>1, RxStutter DEF Select
<1>2. ASSUME NEW w \in PortWrites, Write(w) PROVE RxInv'
  BY <1>2, RxWrite
<1>3. CASE Open \/ Opened \/ Stop \/ FreeIrq \/ Xmit \/ XmitStep
  <2>1. UNCHANGED <<chip, device_wait_reset, delivered, hpc, hstat>>
    BY <1>3 DEF Open, Opened, Stop, FreeIrq, Xmit, XmitStep, Branch, Reload,
         CountFirst, CountSecond, QueueLen, Finish, Wake
  <2>2. RxSame(chip, chip')
    BY <2>1 DEF RxSame
  <2>3. pc' \notin {"clear_nsr", "clear_isr", "rx_on"}
    BY <1>3 DEF Open, Opened, Stop, FreeIrq, Xmit, XmitStep, Branch, Reload,
         CountFirst, CountSecond, QueueLen, Finish, Wake, Goto
  <2>4. QED
    BY <2>1, <2>2, <2>3, RxStutter
<1>4. QED
  BY <1>1, <1>2, <1>3 DEF Process

\* ISR is cleared before the ring is read: what is cleared is in hstat.
LEMMA RxStatusAck ==
  ASSUME IInv, HStatus \/ HAck
  PROVE  RxInv'
<1> TypeOK /\ RxInv /\ chip \in Chip
  BY DEF IInv, TypeOK
<1> USE DEF driverVars, procVars
<1>1. CASE HStatus
  <2>1. RxSame(chip, chip')
    BY <1>1, RxSamePorts DEF HStatus, ChipBecomes, Registers
  <2>2. QED
    BY <1>1, <2>1 DEF HStatus, HGoto, RxSame, RxInv, NoStrandedFrame, DeliveredIntact
<1>2. CASE HAck
  <2>1. /\ chip'.ring = chip.ring /\ chip'.rxOn = chip.rxOn
        /\ chip'.skewed = chip.skewed /\ chip'.isr = chip.isr \ hstat
    BY <1>2 DEF HAck, ChipBecomes, iowt, Put, Chip
  <2>2. QED
    BY <1>2, <2>1 DEF HAck, HGoto, RxInv, NoStrandedFrame, DeliveredIntact
<1>3. QED
  BY <1>1, <1>2

\* A frame of any length that is good fits in its buffer, odd lengths too.
LEMMA CopyFits == ASSUME NEW n \in Nat, n >= 64
                  PROVE  2 * ((n + 1) \div 2) \in n - 4 .. n + 4 - 2
  OBVIOUS

\* do_xnet_rx.
LEMMA RxLoop ==
  ASSUME IInv, RxNone \/ RxEmpty \/ RxBadMark \/ RxFrame \/ RxTooLong
  PROVE  RxInv'
<1> TypeOK /\ RxInv /\ chip \in Chip
  BY DEF IInv, TypeOK
<1> USE DEF driverVars, procVars
<1>1. CASE RxNone
  BY <1>1 DEF RxNone, HGoto, RxInv, NoStrandedFrame, DeliveredIntact
<1>2. iord(chip, "MRCMD") \in Chip /\ RxSame(chip, iord(chip, "MRCMD"))
  BY RxSamePorts, PortType DEF Registers
<1>3. ~chip.skewed /\ chip.ring # <<>> => Head(chip.ring).mark # 0
  <2>1. ASSUME chip.ring # <<>> PROVE Head(chip.ring) \in Frames
    BY <2>1, HeadTailProperties DEF Chip
  <2>2. QED
    BY <2>1, FramesAssumption
<1>4. CASE RxEmpty
  <2>1. device_wait_reset \/ chip.ring = <<>>
    BY <1>3, <1>4 DEF RxEmpty, RxByte, FirstBytes, RxInv
  <2>2. RxSame(chip, chip')
    BY <1>2, <1>4 DEF RxEmpty, ChipBecomes
  <2>3. QED
    BY <1>4, <2>1, <2>2 DEF RxEmpty, RxSame, RxInv, NoStrandedFrame, DeliveredIntact
<1>5. CASE RxBadMark
  <2>1. chip'.ring = chip.ring /\ ~chip'.rxOn
    <3> DEFINE c == iowt(chip, "RCR", {}, 0)
    <3>1. c \in Chip
      BY PortType DEF Registers
    <3>2. c.ring = chip.ring /\ ~c.rxOn
      BY DEF iowt, Put, Chip
    <3>3. chip' = iowt(c, "ISR", {}, 0)
      BY <1>5 DEF RxBadMark, ChipBecomes
    <3> HIDE DEF c
    <3>4. QED
      BY <3>1, <3>2, <3>3 DEF iowt, Put, Chip
  <2>2. QED
    BY <1>5, <2>1 DEF RxBadMark, RxInv, NoStrandedFrame, DeliveredIntact
<1>6. CASE RxTooLong
  <2>1. chip'.ring = chip.ring /\ chip'.rxOn = chip.rxOn
    BY <1>2, <1>6 DEF RxTooLong, ChipBecomes, HeaderRead, RxSame, Chip
  <2>2. QED
    BY <1>6, <2>1 DEF RxTooLong, RxInv, NoStrandedFrame, DeliveredIntact
<1>7. CASE RxFrame
  <2>1. PICK h \in Headers : /\ ~Waits(h)
                             /\ \/ Good(h) /\ delivered' = delivered \cup {h}
                                \/ UNCHANGED delivered
    BY <1>7 DEF RxFrame
  <2>2. ~device_wait_reset /\ ~chip.skewed /\ ~(h.len > PKT_MAX)
    BY <2>1 DEF Waits, RxInv
  <2>3. chip.ring # <<>> /\ Head(chip.ring).mark = 1
    BY <1>7, <2>2 DEF RxFrame, RxByte, FirstBytes
  <2>4. h = Head(chip.ring) /\ h \in Frames
    BY <2>1, <2>2, <2>3, HeadTailProperties DEF Headers, Chip
  <2>5. h.len \in Nat
    BY <2>4, FramesAssumption
  <2>6. h.len <= PKT_MAX
    BY <2>2, <2>5 DEF PKT_MAX
  <2>7. /\ chip'.rxOn = chip.rxOn /\ chip'.skewed = chip.skewed
        /\ hpc' = "rx" /\ "PR" \in hstat' /\ pc' = pc
        /\ device_wait_reset' = device_wait_reset
    BY <1>2, <1>7, <2>2 DEF RxFrame, RxByte, ChipBecomes, Drained, RxSame, Chip, handlerVars
  <2>8. DeliveredIntact'
    <3>1. Good(h) => Fits(h)
      BY <2>5, CopyFits DEF Good, Fits, PKT_MIN
    <3> QED BY <2>1, <2>3, <2>4, <2>6, <3>1 DEF RxInv, DeliveredIntact, Good
  <2>9. QED
    BY <2>3, <2>7, <2>8 DEF RxInv, NoStrandedFrame
<1>8. QED
  BY <1>1, <1>4, <1>5, <1>6, <1>7

LEMMA RxHandler ==
  ASSUME IInv, Handler
  PROVE  RxInv'
<1> TypeOK /\ RxInv /\ chip \in Chip
  BY DEF IInv, TypeOK
<1> USE DEF driverVars, procVars
<1>1. CASE HEnter
  BY <1>1, RxStutter DEF HEnter, HGoto, RxSame
<1>2. CASE HMask
  BY <1>2, RxSamePorts, RxStutter DEF HMask, HGoto, ChipBecomes
<1>3. CASE HTxDone
  <2>1. /\ iord(chip, "NSR") \in Chip /\ RxSame(chip, iord(chip, "NSR"))
        /\ queue_pkt_len \in Nat
    <3>1. iord(chip, "NSR") \in Chip /\ RxSame(chip, iord(chip, "NSR"))
      BY RxSamePorts, PortType DEF Registers
    <3>2. queue_pkt_len \in Nat
      BY MaxPktsAssumption DEF TypeOK
    <3>3. QED
      BY <3>1, <3>2
  <2> DEFINE c == iowt(iord(chip, "NSR"), "TXPL", {}, queue_pkt_len)
  <2>2. c \in Chip /\ RxSame(iord(chip, "NSR"), c)
    BY <2>1, RxSamePorts, PortType DEF Registers
  <2>3. RxSame(c, iowt(c, "TCR", {"TXREQ"}, 0))
    BY <2>2, RxSamePorts
  <2>4. chip' = iord(chip, "NSR") \/ chip' = iowt(c, "TCR", {"TXREQ"}, 0)
    BY <1>3 DEF HTxDone, ChipBecomes, SendQueued
  <2> HIDE DEF c
  <2>5. RxSame(chip, chip')
    BY <2>1, <2>2, <2>3, <2>4 DEF RxSame
  <2>6. QED
    BY <1>3, <2>5, RxStutter DEF HTxDone, HGoto
<1>4. CASE HTxNone
  <2>1. RxSame(chip, chip')
    BY <1>4, RxSamePorts DEF HTxNone, ChipBecomes, RxSame, Registers
  <2>2. QED
    BY <1>4, <2>1, RxStutter DEF HTxNone, HGoto
<1>5. CASE HExit
  <2>1. /\ iowt(chip, "IMR", Events, 0) \in Chip
        /\ RxSame(chip, iowt(chip, "IMR", Events, 0))
    BY RxSamePorts, PortType DEF Registers
  <2>2. RxSame(chip, chip')
    BY <1>5, <2>1, RxSamePorts DEF HExit, ChipBecomes, RxSame, TypeOK
  <2>3. QED
    BY <1>5, <2>2, RxStutter DEF HExit, HGoto
<1>6. QED
  BY <1>1, <1>2, <1>3, <1>4, <1>5, RxStatusAck, RxLoop DEF Handler

LEMMA RxStep ==
  ASSUME IInv, [Next]_vars
  PROVE  RxInv'
<1> TypeOK /\ RxInv /\ chip \in Chip
  BY DEF IInv, TypeOK
<1> USE DEF driverVars, procVars, handlerVars
<1>1. CASE UNCHANGED vars
  BY <1>1, RxStutter DEF vars, RxSame
<1>2. CASE TxComplete
  <2>1. /\ chip'.ring = chip.ring /\ chip'.rxOn = chip.rxOn
        /\ chip'.skewed = chip.skewed /\ chip'.isr = chip.isr \cup {"PT"}
    BY <1>2 DEF TxComplete, ChipBecomes, Transmitted, Chip
  <2>2. QED
    BY <1>2, <2>1 DEF TxComplete, RxInv, NoStrandedFrame, DeliveredIntact
<1>3. ASSUME NEW f \in Frames, RxArrive(f) PROVE RxInv'
  <2>1. /\ chip.rxOn /\ chip'.rxOn = chip.rxOn
        /\ chip'.skewed = chip.skewed /\ "PR" \in chip'.isr
    BY <1>3 DEF RxArrive, ChipBecomes, Received, Chip
  <2>2. QED
    BY <1>3, <2>1 DEF RxArrive, RxInv, NoStrandedFrame, DeliveredIntact
<1>4. QED
  BY <1>1, <1>2, <1>3, RxProcess, RxHandler DEF Next, Device

(***************************************************************************)
(* The theorems.                                                           *)
(***************************************************************************)
LEMMA InitInv == Init => IInv
<1> SUFFICES ASSUME Init PROVE IInv
  OBVIOUS
<1>1. /\ chip.isr = {} /\ chip.imr = {} /\ chip.addr = "NCR" /\ chip.sram = <<>>
      /\ ~chip.sent /\ ~chip.busy /\ ~chip.rxOn /\ chip.ring = <<>> /\ ~chip.skewed
  BY DEF Init
<1>2. TypeOK
  <2>1. <<>> \in Seq(Nat) /\ <<>> \in Seq(Frames) /\ <<>> \in Seq([pkt: Nat, len: Nat])
    OBVIOUS
  <2>2. chip \in Chip
    BY <2>1 DEF Init, Chip, Registers
  <2>3. 0 \in 0..U16-1 /\ 0 \in 0..MaxPkts /\ 0 \in 0..Latency
    BY U16Type, MaxPktsAssumption, LatencyAssumption
  <2>4. QED
    BY <2>1, <2>2, <2>3 DEF Init, TypeOK, Labels, HLabels, Registers
<1>3. NoLostIrq /\ AddrInv
  BY <1>1 DEF Init, NoLostIrq, Asserted, AddrInv
<1>4. TxInv
  <2>1. Held = 0 /\ Busy = 0 /\ Sent = 0 /\ Uncounted = 0
    BY <1>1, EmptySeq DEF Held, Busy, Sent, Uncounted, Init
  <2>2. QED
    BY <2>1 DEF Init, TxInv
<1>5. RxInv
  BY <1>1 DEF Init, RxInv, NoStrandedFrame, DeliveredIntact
<1>6. QED
  BY <1>2, <1>3, <1>4, <1>5 DEF IInv

\* The inductive invariant holds of every behaviour of the driver and chip.
THEOREM Invariance == Spec => []IInv
<1>1. IInv /\ [Next]_vars => IInv'
  BY TypeStep, IrqStep, AddrStep, TxStep, RxStep DEF IInv
<1>2. QED
  BY InitInv, <1>1, PTL DEF Spec

\* Every variable keeps its type; the counter stays in its u16.
THEOREM TypeCorrect == Spec => []TypeOK
<1>1. IInv => TypeOK
  BY DEF IInv
<1>2. QED
  BY Invariance, <1>1, PTL

\* The edge-triggered line never loses an interrupt of the chip.
THEOREM InterruptsKept == Spec => []NoLostIrq
<1>1. IInv => NoLostIrq
  BY DEF IInv
<1>2. QED
  BY Invariance, <1>1, PTL

\* The handler never redirects a register write of the process it interrupts.
THEOREM AddressKept == Spec => []AddressRestored
<1>1. IInv => AddressRestored
  BY DEF IInv, AddrInv, AddressRestored
<1>2. QED
  BY Invariance, <1>1, PTL

\* tx_pkt_cnt covers what the chip holds and never wraps below 0, however
\* late interrupts are taken.
THEOREM TxCountSound == Spec => []TxCountCovers
<1>1. IInv => TxCountCovers
  <2> SUFFICES ASSUME IInv PROVE TxCountCovers
    OBVIOUS
  <2>1. TypeOK /\ TxInv
    BY DEF IInv
  <2>2. chip.sent => Sent = 1
    BY DEF Sent
  <2>3. QED
    BY <2>1, <2>2, TxValues DEF TxInv, TxCountCovers, Uncounted
<1>2. QED
  BY Invariance, <1>1, PTL

\* No received frame is forgotten in the ring.
THEOREM FramesServed == Spec => []NoStrandedFrame
<1>1. IInv => NoStrandedFrame
  BY DEF IInv, RxInv
<1>2. QED
  BY Invariance, <1>1, PTL

\* Only whole, good frames are handed to the stack.
THEOREM FramesIntact == Spec => []DeliveredIntact
<1>1. IInv => DeliveredIntact
  BY DEF IInv, RxInv
<1>2. QED
  BY Invariance, <1>1, PTL

(***************************************************************************)
(* Every latency: what a completion inside xmit can and cannot disturb.    *)
(***************************************************************************)
LEMMA PipeLabels ==
  /\ Opening = {"clear_nsr", "clear_isr", "rx_on", "enable"}
  /\ Filled = {"branch", "first", "second", "queue", "txpl", "tcr"}
BY DEF Opening, Filled

\* After a step that leaves no race behind there was none before it, unless it
\* cleared the count, and a completion it counted was not in the stretch.
LEMMA Unraced ==
  ASSUME TypeOK, [Next]_vars, ~raced'
  PROVE  /\ Opened \/ ~raced
         /\ HTxDone => pc \notin {"second", "queue"}
<1>1. HTxDone => ~raced /\ pc \notin {"second", "queue"}
  BY DEF HTxDone
<1>2. ASSUME ~Opened, ~HTxDone PROVE raced' = raced
  <2>1. CASE UNCHANGED vars
    BY <2>1 DEF vars, driverVars
  <2>2. CASE Process
    BY <1>2, <2>2 DEF Process, Select, Write, Open, Stop, FreeIrq, Xmit, XmitStep, Branch,
                      Reload, CountFirst, CountSecond, QueueLen, Finish, Wake, driverVars
  <2>3. CASE Handler
    BY <1>2, <2>3 DEF Handler, HEnter, HMask, HStatus, HAck, HTxNone, RxNone, RxEmpty,
                      RxBadMark, RxFrame, RxTooLong, HExit, driverVars
  <2>4. CASE Device
    BY <2>4 DEF Device, TxComplete, RxArrive, driverVars
  <2>5. QED
    BY <2>1, <2>2, <2>3, <2>4 DEF Next
<1>3. QED
  BY <1>1, <1>2

\* Open clears the count with nothing in the chip, whatever went on before.
LEMMA OpenedAnew ==
  ASSUME IInv, Opened
  PROVE  CountInv' /\ LengthInv'
<1> TypeOK /\ TxInv
  BY DEF IInv
<1>1. /\ chip' = chip /\ pc = "opened" /\ pc' = "idle" /\ tx_pkt_cnt' = 0 /\ awake' = TRUE
      /\ Held' = Held /\ Busy' = Busy /\ Sent' = Sent
  BY DEF Opened, Goto, Held, Busy, Sent
<1>2. Held = 0 /\ Busy = 0 /\ Sent = 0
  BY <1>1, TxValues DEF TxInv
<1>3. CountInv'
  BY <1>1, <1>2 DEF CountInv, ExactInv, MovingInv, QueueInv, Uncounted
<1>4. LengthInv'
  BY <1>1, <1>2, PipeLabels DEF LengthInv, Busy
<1>5. QED
  BY <1>3, <1>4

(***************************************************************************)
(* Every latency: what is written has a name, what is sent a length.       *)
(***************************************************************************)
LEMMA SentStep ==
  ASSUME IInv, SentInv, [Next]_vars
  PROVE  SentInv'
<1> TypeOK /\ TxInv /\ AddrInv
  BY DEF IInv
<1>0. skb \in 0..MaxPkts /\ queue_pkt_len \in 0..MaxPkts /\ 0 \in 0..MaxPkts
  BY MaxPktsAssumption DEF TypeOK
<1> USE PipeLabels DEF SentInv
<1>1. CASE UNCHANGED vars
  BY <1>1 DEF vars, procVars
<1>2. ASSUME NEW w \in PortWrites, Select(w) PROVE SentInv'
  BY <1>2, SelectQuiet DEF TxQuiet
<1>3. ASSUME NEW w \in PortWrites, Write(w) PROVE SentInv'
  <2>1. chip'.txLen \in {0, skb, chip.txLen}
    BY <1>3, WriteEffect DEF ResetChip, TypeOK, Chip, PortWrites
  <2>2. /\ skb' = skb
        /\ pc' \in Filled \cup {"mask", "fill"} => pc \in Filled \cup {"mask", "fill"}
    BY <1>3, WriteCounts DEF Opening
  <2>3. QED
    BY <1>0, <2>1, <2>2
<1>4. CASE Open \/ Opened \/ Stop \/ FreeIrq
  BY <1>4 DEF Open, Opened, Stop, FreeIrq, Goto
<1>5. CASE Xmit
  BY <1>0, <1>5 DEF Xmit, Goto
<1>6. CASE XmitStep
  <2>1. /\ UNCHANGED <<chip, skb>> /\ pc \in Filled \cup {"finish", "wake"}
        /\ pc' \in Filled => pc \in Filled
        /\ pc' \notin {"mask", "fill"}
    BY <1>6 DEF XmitStep, Branch, Reload, CountFirst, CountSecond, QueueLen, Finish, Wake, Goto
  <2>2. QED
    BY <2>1
<1>7. CASE Handler
  <2>1. pc' = pc /\ skb' = skb /\ chip'.txLen \in {queue_pkt_len, chip.txLen}
    <3>1. CASE HTxDone
      BY <3>1, DoneCounts
    <3>2. CASE ~HTxDone
      BY <1>7, <3>2, HandlerQuiet DEF TxQuiet
    <3>3. QED
      BY <3>1, <3>2
  <2>2. QED
    BY <1>0, <2>1
<1>8. CASE Device
  BY <1>8, ArriveQuiet, SentCounts DEF Device, TxQuiet
<1>9. QED
  BY <1>1, <1>2, <1>3, <1>4, <1>5, <1>6, <1>7, <1>8 DEF Next, Process

(***************************************************************************)
(* Until a race the count is exact, no packet stands still, and the queue  *)
(* is awake while there is room.                                           *)
(***************************************************************************)
LEMMA CountStutter ==
  ASSUME CountInv, TxQuiet(chip, chip'), UNCHANGED <<pc, tmp, tx_pkt_cnt, awake>>
  PROVE  CountInv'
BY TxSameValues DEF TxQuiet, CountInv, ExactInv, MovingInv, QueueInv, Uncounted

LEMMA CountWrite ==
  ASSUME IInv, CountInv, NEW w \in PortWrites, Write(w)
  PROVE  CountInv'
<1> TypeOK /\ TxInv
  BY DEF IInv
<1> USE DEF CountInv, ExactInv, MovingInv, QueueInv, Uncounted
<1>1. CASE pc \in Opening \cup {"reset"}
  BY <1>1, WriteCounts DEF Opening
<1>2. CASE pc = "fill"
  BY <1>2, WriteCounts, TxValues DEF Opening, TxInv
<1>3. CASE pc = "tcr"
  BY <1>3, WriteCounts, TxValues DEF Opening, TxInv
<1>4. CASE pc \notin Opening \cup {"reset", "fill", "tcr"}
  BY <1>4, WriteCounts, TxSameValues, TxValues DEF Opening
<1>5. QED
  BY <1>1, <1>2, <1>3, <1>4

LEMMA CountCalls ==
  ASSUME IInv, CountInv, Open \/ Stop \/ FreeIrq \/ Xmit
  PROVE  CountInv'
<1> TypeOK /\ TxInv
  BY DEF IInv
<1> USE DEF CountInv, ExactInv, MovingInv, QueueInv, Uncounted
<1>1. chip' = chip /\ Held' = Held /\ Busy' = Busy /\ Sent' = Sent /\ tmp' = tmp
  BY DEF Open, Stop, FreeIrq, Xmit, Held, Busy, Sent
<1>2. CASE Open \/ Stop \/ FreeIrq
  <2>1. /\ pc \in {"closed", "idle", "free_irq"} /\ pc' \in {"reset", "free_irq", "quiet"}
        /\ tx_pkt_cnt' = tx_pkt_cnt
    BY <1>2 DEF Open, Stop, FreeIrq, Goto
  <2>2. QED
    BY <1>1, <2>1 DEF Opening
<1>3. CASE Xmit
  <2>1. pc = "idle" /\ pc' = "mask" /\ tx_pkt_cnt' = tx_pkt_cnt /\ awake' = FALSE
    BY <1>3 DEF Xmit, Goto
  <2>2. QED
    BY <1>1, <2>1 DEF Opening
<1>4. QED
  BY <1>2, <1>3

LEMMA CountXmit ==
  ASSUME IInv, CountInv, XmitStep
  PROVE  CountInv'
<1> TypeOK /\ TxInv
  BY DEF IInv
<1> USE DEF CountInv, ExactInv, MovingInv, QueueInv, Uncounted
<1>1. chip' = chip /\ Held' = Held /\ Busy' = Busy /\ Sent' = Sent
  BY DEF XmitStep, Branch, Reload, CountFirst, CountSecond, QueueLen, Finish, Wake,
         Held, Busy, Sent
<1>2. CASE Branch
  <2>1. /\ tmp' = tx_pkt_cnt /\ UNCHANGED <<tx_pkt_cnt, awake>> /\ pc = "branch"
        /\ pc' = IF tx_pkt_cnt = 0 THEN "first" ELSE "second"
    BY <1>2 DEF Branch, Goto, driverVars
  <2>2. QED
    BY <1>1, <2>1, TxValues DEF TxInv, Opening
<1>3. CASE Reload
  <2>1. pc \in {"first", "second"} /\ tmp # tx_pkt_cnt
    BY <1>3 DEF Reload
  <2>2. QED
    BY <2>1
<1>4. CASE CountFirst
  <2>1. pc = "first" /\ pc' = "txpl" /\ tx_pkt_cnt' = (tmp + 1) % U16 /\ awake' = awake
    BY <1>4 DEF CountFirst, Goto
  <2>2. tmp = 0
    BY <2>1 DEF TxInv
  <2>3. tx_pkt_cnt' = 1
    BY <2>1, <2>2 DEF U16
  <2>4. QED
    BY <1>1, <2>1, <2>3, TxValues DEF TxInv, Opening
<1>5. CASE CountSecond
  <2>1. pc = "second" /\ pc' = "queue" /\ tx_pkt_cnt' = (tmp + 1) % U16 /\ awake' = awake
    BY <1>5 DEF CountSecond, Goto
  <2>2. tmp = 1
    BY <2>1
  <2>3. tx_pkt_cnt' = 2
    BY <2>1, <2>2 DEF U16
  <2>4. QED
    BY <1>1, <2>1, <2>3, TxValues DEF TxInv, Opening
<1>6. CASE QueueLen
  <2>1. pc = "queue" /\ pc' = "finish" /\ UNCHANGED <<tx_pkt_cnt, awake>>
    BY <1>6 DEF QueueLen, Goto
  <2>2. QED
    BY <1>1, <2>1, TxValues DEF Opening
<1>7. CASE Finish
  <2>1. /\ pc = "finish" /\ UNCHANGED <<tx_pkt_cnt, awake>>
        /\ pc' = IF tx_pkt_cnt = 1 THEN "wake" ELSE "unmask"
    BY <1>7 DEF Finish, Goto, driverVars
  <2>2. tx_pkt_cnt \in 0..2
    BY TxValues DEF TxInv
  <2>3. QED
    BY <1>1, <2>1, <2>2, TxValues DEF Opening
<1>8. CASE Wake
  <2>1. pc = "wake" /\ pc' = "unmask" /\ tx_pkt_cnt' = tx_pkt_cnt /\ awake' = TRUE
    BY <1>8 DEF Wake, Goto
  <2>2. QED
    BY <1>1, <2>1, TxValues DEF TxInv, Opening
<1>9. QED
  BY <1>2, <1>3, <1>4, <1>5, <1>6, <1>7, <1>8 DEF XmitStep

\* A completion counted off outside the stretch: the packet behind the one
\* that is out, if there is one, is on its way already or is sent now.
LEMMA CountDone ==
  ASSUME IInv, CountInv, HTxDone, pc \notin {"second", "queue"}
  PROVE  CountInv'
<1> TypeOK /\ TxInv
  BY DEF IInv
<1>1. /\ UNCHANGED <<tmp, pc>> /\ awake' = TRUE
      /\ Sent = 1 /\ Sent' = 0 /\ Held' = Held /\ tx_pkt_cnt \in 1..2
      /\ tx_pkt_cnt' = tx_pkt_cnt - 1
  BY DoneCounts
<1>2. pc \notin Opening \cup {"opened", "first", "second", "queue", "txpl", "tcr"}
  BY <1>1, TxValues, PipeLabels DEF TxInv
<1>3. tx_pkt_cnt + Uncounted = Held + Sent /\ Uncounted' = Uncounted
  BY <1>1, <1>2 DEF CountInv, ExactInv, Uncounted
<1>4. CASE pc = "branch"
  <2>1. Uncounted = 1
    BY <1>4 DEF Uncounted
  <2>2. tx_pkt_cnt' = 0 /\ Held' = 1
    BY <1>1, <1>3, <1>4, <2>1, TxValues DEF TxInv
  <2>3. QED
    BY <1>1, <1>3, <1>4, <2>1, <2>2 DEF CountInv, ExactInv, MovingInv, QueueInv
<1>5. CASE pc # "branch"
  <2>1. Uncounted = 0
    BY <1>2, <1>5 DEF Uncounted
  <2>2. Held' > 0 => Busy' + Sent' > 0
    BY <1>1, <1>3, <2>1, DoneCounts, TxValues
  <2>3. pc \in {"mask", "fill"} => tx_pkt_cnt' = 0
    BY <1>1, TxValues DEF TxInv
  <2>4. QED
    BY <1>1, <1>2, <1>3, <1>5, <2>1, <2>2, <2>3, TxValues
       DEF CountInv, ExactInv, MovingInv, QueueInv
<1>6. QED
  BY <1>4, <1>5

LEMMA CountSent ==
  ASSUME IInv, CountInv, TxComplete
  PROVE  CountInv'
<1> TypeOK /\ TxInv
  BY DEF IInv
<1>1. /\ UNCHANGED <<tx_pkt_cnt, tmp, pc, awake>>
      /\ Busy = 1 /\ Held' = Held - 1 /\ Busy' = 0 /\ Sent' = 1
  BY SentCounts
<1>2. Sent = 0 /\ Held >= 1
  BY <1>1, TxValues DEF TxInv
<1>3. QED
  BY <1>1, <1>2, TxValues DEF CountInv, ExactInv, MovingInv, QueueInv, Uncounted

LEMMA CountStep ==
  ASSUME IInv, CountInv, [Next]_vars, ~Opened, HTxDone => pc \notin {"second", "queue"}
  PROVE  CountInv'
<1>1. CASE UNCHANGED vars
  BY <1>1, CountStutter DEF vars, procVars, driverVars, TxQuiet, TxSame
<1>2. CASE Process
  BY <1>2, SelectQuiet, CountStutter, CountWrite, CountCalls, CountXmit DEF Process
<1>3. CASE Handler
  BY <1>3, HandlerQuiet, CountStutter, CountDone
<1>4. CASE Device
  BY <1>4, ArriveQuiet, CountStutter, CountSent DEF Device
<1>5. QED
  BY <1>1, <1>2, <1>3, <1>4 DEF Next

(***************************************************************************)
(* Until a race each packet is sent with its own length.                   *)
(***************************************************************************)
LEMMA LengthStutter ==
  ASSUME LengthInv, TxQuiet(chip, chip'), UNCHANGED <<pc, skb, queue_pkt_len>>
  PROVE  LengthInv'
BY TxSameValues DEF TxQuiet, TxSame, LengthInv

LEMMA LengthWrite ==
  ASSUME IInv, CountInv, LengthInv, NEW w \in PortWrites, Write(w)
  PROVE  LengthInv'
<1> /\ TypeOK /\ AddrInv /\ TxInv
    /\ chip \in Chip /\ chip.sram \in Seq(Nat) /\ skb \in Nat
  BY MaxPktsAssumption DEF IInv, TypeOK, Chip
<1> USE DEF LengthInv
<1>1. CASE pc \in Opening \cup {"reset"}
  <2>1. pc' \in Opening \cup {"opened"} /\ Held' = 0 /\ Sent' = 0 /\ Busy' = 0
    BY <1>1, WriteCounts DEF Opening
  <2>2. QED
    BY <2>1 DEF Opening, Filled, Busy
<1>2. CASE pc = "fill"
  <2>1. /\ pc' = "branch" /\ skb' = skb /\ chip'.sram = Append(chip.sram, skb)
        /\ Held' = Held + 1 /\ Busy' = Busy
    BY <1>2, WriteCounts
  <2>2. Held' >= 1 /\ chip'.sram[Held'] = skb
    BY <2>1, TxValues, AppendProperties DEF Held
  <2>3. chip'.busy = chip.busy /\ chip'.txLen = chip.txLen
    BY <1>2, WriteEffect DEF Chip
  <2>4. ASSUME chip.busy PROVE chip'.sram[1] = chip.sram[1]
    <3>1. Held >= 1
      BY <2>4 DEF TxInv, Busy
    <3>2. QED
      BY <2>1, <3>1, TxValues, AppendProperties DEF Held
  <2>5. QED
    BY <2>1, <2>2, <2>3, <2>4 DEF Filled
<1>3. CASE pc = "txpl"
  <2>1. /\ pc' = "tcr" /\ TxSame(chip, chip') /\ skb' = skb
    BY <1>3, WriteCounts DEF Opening
  <2>2. chip'.txLen = skb
    BY <1>3, WriteEffect DEF Chip
  <2>3. Held = 1
    BY <1>3 DEF TxInv
  <2>4. Held' = Held /\ chip'.sram = chip.sram
    BY <2>1, TxSameValues DEF TxSame
  <2>5. chip.sram[1] = skb
    BY <1>3, <2>3 DEF Filled
  <2>6. QED
    BY <2>1, <2>2, <2>3, <2>4, <2>5 DEF Filled
<1>4. CASE pc = "tcr"
  <2>1. /\ pc' = "finish" /\ chip'.sram = chip.sram
        /\ Held' = Held /\ Sent' = Sent
    BY <1>4, WriteCounts
  <2>2. chip'.txLen = chip.txLen
    BY <1>4, WriteEffect DEF Chip
  <2>3. Held + Sent = 1
    BY <1>4, TxValues DEF TxInv
  <2>4. QED
    BY <1>4, <2>1, <2>2, <2>3 DEF Filled
<1>5. CASE pc \notin Opening \cup {"reset", "fill", "tcr", "txpl"}
  <2>1. /\ TxSame(chip, chip') /\ UNCHANGED <<skb, queue_pkt_len>>
        /\ pc' \notin Filled /\ pc \notin Filled
    BY <1>5, WriteCounts DEF Opening, Filled
  <2>2. chip'.txLen = chip.txLen
    <3>1. pc \in {"mask", "unmask", "quiet", "rx_off"}
      BY <1>5, WriteCounts DEF Opening
    <3>2. QED
      BY <3>1, WriteEffect DEF Chip
  <2>3. Held' = Held /\ Sent' = Sent /\ chip'.sram = chip.sram /\ chip'.busy = chip.busy
    BY <2>1, TxSameValues DEF TxSame
  <2>4. QED
    BY <2>1, <2>2, <2>3 DEF Filled
<1>6. QED
  BY <1>1, <1>2, <1>3, <1>4, <1>5

LEMMA LengthCalls ==
  ASSUME IInv, CountInv, LengthInv, Open \/ Stop \/ FreeIrq \/ Xmit \/ XmitStep
  PROVE  LengthInv'
<1> TypeOK /\ TxInv /\ skb \in Nat
  BY MaxPktsAssumption DEF IInv, TypeOK
<1> USE DEF LengthInv
<1>1. chip' = chip /\ Held' = Held /\ Sent' = Sent
  BY DEF Open, Stop, FreeIrq, Xmit, XmitStep, Branch, Reload, CountFirst,
         CountSecond, QueueLen, Finish, Wake, Held, Sent
<1>2. CASE Open \/ Stop \/ FreeIrq
  <2>1. /\ pc \in {"closed", "idle", "free_irq"} /\ pc' \in {"reset", "free_irq", "quiet"}
        /\ queue_pkt_len' = queue_pkt_len
    BY <1>2 DEF Open, Stop, FreeIrq, Goto
  <2>2. QED
    BY <1>1, <2>1 DEF Filled
<1>3. CASE Xmit
  <2>1. pc = "idle" /\ pc' = "mask" /\ queue_pkt_len' = queue_pkt_len
    BY <1>3 DEF Xmit, Goto
  <2>2. QED
    BY <1>1, <2>1 DEF Filled
<1>4. CASE Branch \/ Reload \/ CountFirst \/ CountSecond
  <2>1. /\ pc \in {"branch", "first", "second"} /\ UNCHANGED <<skb, queue_pkt_len>>
        /\ pc' \in {"first", "second", "txpl", "queue"}
    BY <1>4 DEF Branch, Reload, CountFirst, CountSecond, Goto, driverVars
  <2>2. QED
    BY <1>1, <2>1 DEF Filled
<1>5. CASE QueueLen
  <2>1. pc = "queue" /\ pc' = "finish" /\ queue_pkt_len' = skb
    BY <1>5 DEF QueueLen, Goto
  <2>2. QED
    BY <1>1, <2>1 DEF Filled
<1>6. CASE Finish \/ Wake
  <2>1. /\ pc \in {"finish", "wake"} /\ pc' \in {"wake", "unmask"}
        /\ UNCHANGED <<skb, queue_pkt_len>>
    BY <1>6 DEF Finish, Wake, Goto, driverVars
  <2>2. QED
    BY <1>1, <2>1 DEF Filled
<1>7. QED
  BY <1>2, <1>3, <1>4, <1>5, <1>6 DEF XmitStep

LEMMA LengthDone ==
  ASSUME IInv, CountInv, LengthInv, HTxDone, pc \notin {"second", "queue"}
  PROVE  LengthInv'
<1> TypeOK /\ TxInv
  BY DEF IInv
<1>1. /\ UNCHANGED <<pc, skb>> /\ chip'.sram = chip.sram
      /\ Sent = 1 /\ Busy = 0 /\ Sent' = 0 /\ Held' = Held /\ tx_pkt_cnt \in 1..2
      /\ tx_pkt_cnt' = tx_pkt_cnt - 1
  BY DoneCounts
<1>2. pc \notin Opening \cup {"opened", "first", "second", "queue", "txpl", "tcr"}
  BY <1>1, TxValues, PipeLabels DEF TxInv
<1>3. tx_pkt_cnt + Uncounted = Held + Sent
  BY <1>2 DEF CountInv, ExactInv
<1>4. pc = "branch" => tx_pkt_cnt' = 0
  BY <1>1, TxValues DEF TxInv
<1>5. pc # "branch" => Held' + Sent' <= 1
  BY <1>1, <1>2, <1>3, TxValues DEF Uncounted
<1>6. chip'.busy => chip'.txLen = chip'.sram[1]
  <2>1. CASE tx_pkt_cnt' = 0
    BY <2>1, DoneCounts DEF Busy
  <2>2. CASE tx_pkt_cnt' > 0
    <3>1. pc \notin Filled /\ Held = 1 /\ Sent = 1
      BY <1>1, <1>2, <1>3, <1>4, <2>2, TxValues, PipeLabels DEF Uncounted
    <3>2. chip.sram[1] = queue_pkt_len
      BY <3>1 DEF LengthInv
    <3>3. QED
      BY <1>1, <2>2, <3>2, DoneCounts
  <2>3. QED
    BY <1>1, <2>1, <2>2
<1>7. QED
  BY <1>1, <1>2, <1>5, <1>6, PipeLabels DEF LengthInv

LEMMA LengthSent ==
  ASSUME IInv, CountInv, LengthInv, TxComplete
  PROVE  LengthInv'
<1> TypeOK /\ TxInv
  BY DEF IInv
<1>1. /\ UNCHANGED <<pc, skb, queue_pkt_len>>
      /\ Busy = 1 /\ chip.sram # <<>> /\ chip.sram \in Seq(Nat)
      /\ chip'.sram = Tail(chip.sram) /\ ~chip'.busy
      /\ Held' = Held - 1 /\ Sent' = 1
  BY SentCounts
<1>2. Sent = 0
  BY <1>1, TxValues DEF TxInv
<1>3. Held >= 2 => Held' >= 1 /\ chip'.sram[Held'] = chip.sram[Held]
  BY <1>1, TxValues, HeadTailProperties DEF Held
<1>4. pc \in Filled => Held >= 2
  <2>1. CASE pc \in {"branch", "first", "second", "queue"}
    BY <1>1, <1>2, <2>1, TxValues DEF TxInv, CountInv, ExactInv, Uncounted, Opening
  <2>2. CASE pc \in {"txpl", "tcr"}
    BY <1>1, <2>2, TxValues DEF TxInv
  <2>3. QED
    BY <2>1, <2>2 DEF Filled
<1>5. pc # "tcr"
  BY <1>1, TxValues DEF TxInv
<1>6. Held + Sent = 2 \/ pc \in Filled => Held >= 2
  BY <1>2, <1>4, TxValues
<1>7. Held' + Sent' = 2 => Held + Sent = 2
  BY <1>1, <1>2, TxValues
<1>8. QED
  BY <1>1, <1>3, <1>5, <1>6, <1>7 DEF LengthInv

LEMMA LengthStep ==
  ASSUME IInv, CountInv, LengthInv, [Next]_vars, ~Opened,
         HTxDone => pc \notin {"second", "queue"}
  PROVE  LengthInv'
<1>1. CASE UNCHANGED vars
  BY <1>1, LengthStutter DEF vars, procVars, driverVars, TxQuiet, TxSame
<1>2. CASE Process
  BY <1>2, SelectQuiet, LengthStutter, LengthWrite, LengthCalls DEF Process
<1>3. CASE Handler
  BY <1>3, HandlerQuiet, LengthStutter, LengthDone
<1>4. CASE Device
  BY <1>4, ArriveQuiet, LengthStutter, LengthSent DEF Device
<1>5. QED
  BY <1>1, <1>2, <1>3, <1>4 DEF Next

LEMMA PipeInvInit == Init => PipeInv
<1> SUFFICES ASSUME Init PROVE PipeInv
  OBVIOUS
<1>1. Held = 0 /\ Busy = 0 /\ Sent = 0 /\ Uncounted = 0 /\ ~chip.busy /\ chip.txLen = 0
  BY EmptySeq DEF Init, Held, Busy, Sent, Uncounted
<1>2. pc = "closed" /\ tx_pkt_cnt = 0
  BY DEF Init
<1>3. ExactInv /\ MovingInv /\ QueueInv
  BY <1>1, <1>2 DEF ExactInv, MovingInv, QueueInv
<1>4. LengthInv /\ SentInv
  BY <1>1, <1>2, PipeLabels, MaxPktsAssumption DEF LengthInv, SentInv
<1>5. QED
  BY <1>3, <1>4 DEF PipeInv, CountInv

\* The inductive invariant of the transmit side, at every latency.
THEOREM PipeInvariance == Spec => [](IInv /\ PipeInv)
<1>1. Init => IInv /\ PipeInv
  BY InitInv, PipeInvInit
<1>2. (IInv /\ PipeInv) /\ [Next]_vars => (IInv /\ PipeInv)'
  <2> SUFFICES ASSUME IInv, PipeInv, [Next]_vars
               PROVE  IInv' /\ PipeInv'
    OBVIOUS
  <2>1. IInv'
    BY TypeStep, IrqStep, AddrStep, TxStep, RxStep DEF IInv
  <2>2. SentInv'
    BY SentStep DEF PipeInv
  <2>3. ASSUME ~raced' PROVE CountInv' /\ LengthInv'
    <3>1. CASE Opened
      BY <3>1, OpenedAnew
    <3>2. CASE ~Opened
      <4>1. ~raced /\ (HTxDone => pc \notin {"second", "queue"})
        BY <2>3, <3>2, Unraced DEF IInv
      <4>2. CountInv /\ LengthInv
        BY <4>1 DEF PipeInv
      <4>3. QED
        BY <3>2, <4>1, <4>2, CountStep, LengthStep
    <3>3. QED
      BY <3>1, <3>2
  <2>4. QED
    BY <2>1, <2>2, <2>3 DEF PipeInv
<1>3. QED
  BY <1>1, <1>2, PTL DEF Spec

\* Whatever the latency, tx_pkt_cnt is exact between calls unless a completion
\* was counted off between xmit's read of it and its store of queue_pkt_len.
THEOREM CountExact == Spec => []CountTracksSram
<1>1. IInv /\ PipeInv => CountTracksSram
  <2> SUFFICES ASSUME IInv, PipeInv, Quiescent, ~raced PROVE tx_pkt_cnt = Held + Sent
    BY DEF CountTracksSram
  <2>1. Uncounted = 0 /\ tx_pkt_cnt + Uncounted = Held + Sent
    BY DEF PipeInv, CountInv, ExactInv, Quiescent, Uncounted, Opening
  <2>2. QED
    BY <2>1, TxValues DEF IInv
<1>2. QED
  BY PipeInvariance, <1>1, PTL

\* xmit is called only while there is room, and again as soon as there is.
THEOREM QueueSound == Spec => []QueueTracksPipeline
<1>1. PipeInv => QueueTracksPipeline
  BY DEF PipeInv, CountInv, QueueInv, QueueTracksPipeline, Quiescent
<1>2. QED
  BY PipeInvariance, <1>1, PTL

\* No packet lies in the SRAM with nothing under way that will send it, but
\* for a completion in that stretch.
THEOREM NothingStranded == Spec => []StrandedOnlyByRace
<1>1. PipeInv => StrandedOnlyByRace
  BY DEF PipeInv, CountInv, MovingInv, StrandedOnlyByRace, NoStrandedTx, Quiescent
<1>2. QED
  BY PipeInvariance, <1>1, PTL

(***************************************************************************)
(* The driver and the chip implement the two-packet pipe of TxPipe.        *)
(***************************************************************************)
LEMMA PipeStutter ==
  ASSUME chip'.sram = chip.sram, wire' = wire
  PROVE  [Pipe!PipeNext]_Pipe!pipeVars
BY DEF Pipe!pipeVars

\* xmit's write to the SRAM is the pipe's Accept: there is room, since the
\* count is at most 1 and covers what the chip holds.
LEMMA WriteIsPipe ==
  ASSUME IInv, PipeInv, NEW w \in PortWrites, Write(w)
  PROVE  [Pipe!PipeNext]_Pipe!pipeVars
<1> TypeOK /\ AddrInv /\ TxInv /\ SentInv
  BY DEF IInv, PipeInv
<1>1. wire' = wire
  BY DEF Write
<1>2. CASE pc = "reset"
  <2>1. chip'.sram = <<>>
    BY <1>2, WriteEffect DEF ResetChip, TypeOK, Chip
  <2>2. QED
    BY <1>1, <2>1 DEF Pipe!PipeNext, Pipe!Reset
<1>3. CASE pc = "fill"
  <2>1. chip'.sram = Append(chip.sram, skb)
    BY <1>3, WriteCounts
  <2>2. Len(chip.sram) < 2
    BY <1>3, TxValues DEF TxInv, Held, Uncounted
  <2>3. skb \in 1..MaxPkts
    BY <1>3, MaxPktsAssumption DEF SentInv, TypeOK
  <2>4. Pipe!Accept
    BY <1>1, <2>1, <2>2, <2>3 DEF Pipe!Accept
  <2>5. QED
    BY <2>4 DEF Pipe!PipeNext
<1>4. CASE pc \notin {"reset", "fill"}
  <2>1. chip'.sram = chip.sram
    <3>1. CASE pc \in Opening
      BY <3>1, WriteEffect DEF TypeOK, Chip, Opening
    <3>2. CASE pc \notin Opening
      BY <1>4, <3>2, WriteCounts DEF TxSame
    <3>3. QED
      BY <3>1, <3>2
  <2>2. QED
    BY <1>1, <2>1, PipeStutter
<1>5. QED
  BY <1>2, <1>3, <1>4

LEMMA StepIsPipe ==
  ASSUME IInv, PipeInv, [Next]_vars
  PROVE  [Pipe!PipeNext]_Pipe!pipeVars
<1>1. CASE UNCHANGED vars
  BY <1>1, PipeStutter DEF vars
<1>2. CASE Process
  <2>1. ASSUME NEW w \in PortWrites, Select(w) PROVE [Pipe!PipeNext]_Pipe!pipeVars
    BY <2>1, SelectQuiet, PipeStutter DEF TxQuiet, TxSame, Select
  <2>2. CASE Open \/ Opened \/ Stop \/ FreeIrq \/ Xmit \/ XmitStep
    <3>1. chip' = chip /\ wire' = wire
      BY <2>2 DEF Open, Opened, Stop, FreeIrq, Xmit, XmitStep, Branch, Reload, CountFirst,
                  CountSecond, QueueLen, Finish, Wake
    <3>2. QED
      BY <3>1, PipeStutter
  <2>3. QED
    BY <1>2, <2>1, <2>2, WriteIsPipe DEF Process
<1>3. CASE Handler
  <2>1. wire' = wire
    BY <1>3 DEF Handler, HEnter, HMask, HStatus, HAck, HTxDone, HTxNone, RxNone, RxEmpty,
                RxBadMark, RxFrame, RxTooLong, HExit
  <2>2. chip'.sram = chip.sram
    BY <1>3, HandlerQuiet, DoneCounts DEF TxQuiet, TxSame
  <2>3. QED
    BY <2>1, <2>2, PipeStutter
<1>4. CASE TxComplete
  <2>1. chip.sram # <<>> /\ chip'.sram = Tail(chip.sram)
    BY <1>4, SentCounts
  <2>2. chip.txLen \in (1..MaxPkts) \cup {0}
    BY MaxPktsAssumption DEF PipeInv, SentInv
  <2>3. chip.txLen = Head(chip.sram) \/ raced
    BY <1>4, <2>1 DEF PipeInv, LengthInv, TxComplete, IInv, TypeOK, Chip
  <2>4. wire' = Append(wire, [pkt |-> Head(chip.sram), len |-> chip.txLen])
    BY <1>4 DEF TxComplete
  <2>5. QED
    BY <2>1, <2>2, <2>3, <2>4 DEF Pipe!PipeNext, Pipe!Transmit
<1>5. ASSUME NEW f \in Frames, RxArrive(f) PROVE [Pipe!PipeNext]_Pipe!pipeVars
  BY <1>5, ArriveQuiet, PipeStutter DEF TxQuiet, TxSame, RxArrive
<1>6. QED
  BY <1>1, <1>2, <1>3, <1>4, <1>5 DEF Next, Device

\* At every latency each packet xmit accepts leaves once and in order, never
\* more than two are on their way, and a packet leaves with another's length
\* only after a completion in that stretch.
THEOREM PipeImplemented == Spec => ImplementsPipe
<1>1. Init => Pipe!PipeInit
  BY DEF Init, Pipe!PipeInit
<1>2. (IInv /\ PipeInv) /\ [Next]_vars => [Pipe!PipeNext]_Pipe!pipeVars
  BY StepIsPipe
<1>3. QED
  BY PipeInvariance, <1>1, <1>2, PTL DEF Spec, ImplementsPipe, Pipe!PipeSpec
============================================================================
