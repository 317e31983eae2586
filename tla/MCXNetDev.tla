----------------------------- MODULE MCXNetDev -----------------------------
(* XNetDev for TLC: frames at the boundaries do_xnet_rx tests.             *)
EXTENDS XNetDev

Plain == {[len |-> 64, err |-> FALSE, mark |-> 1]}

Boundary == Plain \cup {
  [len |-> 63,   err |-> FALSE, mark |-> 1],
  [len |-> 1537, err |-> FALSE, mark |-> 1],
  [len |-> 1536, err |-> TRUE,  mark |-> 1],
  [len |-> 1536, err |-> FALSE, mark |-> 2]}
============================================================================
