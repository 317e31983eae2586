------------------------------ MODULE TxPipe ------------------------------
(***************************************************************************)
(* What the transmit side of static/coding/xnetdev.c promises the network  *)
(* stack: a pipeline of at most two packets (the chip sends one while the  *)
(* next is written behind it), each leaving once, in the order it was      *)
(* accepted and with its own length, unless the interface is opened anew.  *)
(***************************************************************************)
EXTENDS Naturals, Sequences

CONSTANT Packets   \* a packet is named by its length, which is not 0

VARIABLES held,    \* accepted and not yet on the wire
          wire,    \* sent, each with the length the chip was told
          raced    \* set by the environment: the lengths are no longer promised

pipeVars == <<held, wire>>

PipeInit == held = <<>> /\ wire = <<>>

Accept == \E p \in Packets :
  /\ Len(held) < 2
  /\ held' = Append(held, p)
  /\ UNCHANGED wire

Transmit == \E n \in Packets \cup {0} :
  /\ held # <<>>
  /\ held' = Tail(held)
  /\ wire' = Append(wire, [pkt |-> Head(held), len |-> n])
  /\ n = Head(held) \/ raced

Reset == held' = <<>> /\ UNCHANGED wire

PipeNext == Accept \/ Transmit \/ Reset

PipeSpec == PipeInit /\ [][PipeNext]_pipeVars
============================================================================
