------------------------------ MODULE Dm9000 ------------------------------
(***************************************************************************)
(* The DM9000 Ethernet chip as static/coding/xnetdev.c uses it: one index  *)
(* port that selects a register and one data port that reads or writes the *)
(* selected register.  The chip is hardware, so this module is external to *)
(* the repository; what is kept of it is what the driver's registers       *)
(* (0x00 NCR, 0x01 NSR, 0x02 TCR, 0x05 RCR, 0xf0/0xf2 MRCMD, 0xf8 MWCMD,   *)
(* 0xfc/0xfd TXPL, 0xfe ISR, 0xff IMR) do when the driver touches them.    *)
(*                                                                         *)
(* A register byte is a set of named bits; where the byte is a number (a   *)
(* length, packet data) it is a number.  A packet is named by its length,  *)
(* so a frame sent with another packet's length is recognisable.           *)
(***************************************************************************)
EXTENDS Naturals, Sequences

CONSTANTS
  Frames,    \* the frames a sender may put on the wire: records [len, err, mark]
  RingSize   \* frames the receive SRAM holds before it drops

\* a frame in the ring never starts with 0, which marks the ring's end
ASSUME FramesAssumption == Frames \subseteq [len: Nat, err: BOOLEAN, mark: Nat \ {0}]
ASSUME RingSizeAssumption == RingSize \in Nat

Registers == {"NCR", "NSR", "TCR", "RCR", "ISR", "IMR", "TXPL", "MWCMD", "MRCMD"}

\* the interrupt causes: packet transmitted (bit 1), packet received (bit 0)
Events == {"PT", "PR"}

Chip == [addr: Registers,         \* the selected register
         imr: SUBSET Events, isr: SUBSET Events,
         sent: BOOLEAN,           \* NSR TX1END or TX2END
         sram: Seq(Nat),          \* packets written to the transmit SRAM
         txLen: Nat, busy: BOOLEAN,
         rxOn: BOOLEAN,
         ring: Seq(Frames),       \* frames received and not yet read
         skewed: BOOLEAN]         \* the read pointer is not at a frame's start

\* The registers after a reset, whatever register was selected.
ResetChip(c) ==
  [c EXCEPT !.imr = {}, !.isr = {}, !.sent = FALSE, !.sram = <<>>, !.txLen = 0,
            !.busy = FALSE, !.rxOn = FALSE, !.ring = <<>>, !.skewed = FALSE]

\* A write to the data port: the selected register decides what it does.
Put(c, bits, num) ==
  CASE c.addr = "NCR" /\ "RST" \in bits   -> ResetChip(c)
    [] c.addr = "NSR"                     -> [c EXCEPT !.sent = FALSE]
    [] c.addr = "TCR" /\ "TXREQ" \in bits -> [c EXCEPT !.busy = TRUE]
    [] c.addr = "RCR"                     -> [c EXCEPT !.rxOn = "RXEN" \in bits]
    [] c.addr = "ISR"                     -> [c EXCEPT !.isr = @ \ bits]
    [] c.addr = "IMR"                     -> [c EXCEPT !.imr = bits \cap Events]
    [] c.addr = "TXPL"                    -> [c EXCEPT !.txLen = num]
    [] c.addr = "MWCMD"                   -> [c EXCEPT !.sram = Append(@, num)]
    [] OTHER                              -> c

\* The interrupt pin, level at the chip, latched on its edge by the CPU.
Asserted(c) == c.isr \cap c.imr # {}
Edge(c, d) == ~Asserted(c) /\ Asserted(d)

\* The frame at the head of the SRAM has left with the programmed length.
Transmitted(c) ==
  [c EXCEPT !.sram = Tail(@), !.busy = FALSE, !.sent = TRUE, !.isr = @ \cup {"PT"}]

\* A frame has come in (a full SRAM drops it, which nothing else shows).
Received(c, f) == [c EXCEPT !.ring = Append(@, f), !.isr = @ \cup {"PR"}]

\* The read pointer moves past the whole frame at the head of the ring, or
\* only past its four-byte header.
Drained(c)    == [c EXCEPT !.ring = Tail(@)]
HeaderRead(c) == [c EXCEPT !.skewed = TRUE]

\* What the first byte of the next frame may read as: 0 when there is none,
\* the frame's mark, or any byte of the middle of a frame.
FirstBytes(c) ==
  IF c.skewed THEN {0, 1, 2}
  ELSE IF c.ring = <<>> THEN {0} ELSE {Head(c.ring).mark}
============================================================================
