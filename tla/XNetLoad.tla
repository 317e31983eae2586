----------------------------- MODULE XNetLoad -----------------------------
(***************************************************************************)
(* static/coding/xnetdev.c: loading, probing and unloading, and what may   *)
(* be asked of the device meanwhile.  What open, stop, xmit and the        *)
(* interrupt handler do in themselves is XNetDev's; here they need the     *)
(* driver's data, dev->priv, to be there.                                  *)
(***************************************************************************)
EXTENDS Naturals

VARIABLES
  ldPc,      \* the module: "out", its phases of loading, "in", "unregistered", "stuck"
  ldPriv,    \* dev->priv: "none", "own" (alloc_etherdev's), "chip" (allocated by probe)
  ldOps,     \* dev->open, stop and hard_start_xmit: "null", "set"
  ldIf,      \* the interface: "down", "up", "irq" (up, and the handler registered)
  ldSeen     \* history: "short" (no memory), "other" (another chip), "fault" (the kernel
             \* has followed a null pointer, or freed what was not allocated)

ldVars == <<ldPc, ldPriv, ldOps, ldIf, ldSeen>>

LdInit == ldPc = "out" /\ ldPriv = "none" /\ ldOps = "null" /\ ldIf = "down" /\ ldSeen = {}

\* Definitions named <Name>_<Bug> are the one they precede with a plausible
\* mistake; they show that a property notices.

\* The kernel faults if dev->priv is not the driver's.
UsesPriv == ldSeen' = ldSeen \cup {e \in {"fault"} : ldPriv # "chip"}

\* xnet_dev_init up to line 435, which writes through what it was given.
LdAlloc ==
  /\ ldPc = "out"
  /\ \/ ldPc' = "named" /\ ldPriv' = "own" /\ UNCHANGED ldSeen
     \/ ldPc' = "stuck" /\ ldSeen' = ldSeen \cup {"short", "fault"} /\ UNCHANGED ldPriv
  /\ UNCHANGED <<ldOps, ldIf>>

\* dev_alloc_name fails, or register_netdev after its probe: the module is not
\* loaded, and the device is not freed.
LdRefused ==
  /\ ldPc \in {"named", "probed"}
  /\ ldPc' = "out" /\ ldPriv' = "none" /\ ldOps' = "null"
  /\ UNCHANGED <<ldIf, ldSeen>>

\* xnet_probe, called by register_netdev: the chip is a DM9000 and there is
\* memory, or there is none (line 111), or it is another chip (line 107).
LdProbe ==
  /\ ldPc = "named"
  /\ \/ /\ ldPc' = "probed" /\ ldPriv' = "chip" /\ ldOps' = "set"
        /\ UNCHANGED ldSeen
     \/ /\ ldPc' = "stuck" /\ ldSeen' = ldSeen \cup {"short", "fault"}
        /\ UNCHANGED <<ldPriv, ldOps>>
     \/ /\ ldPc' = "probed" /\ ldSeen' = ldSeen \cup {"other"}
        /\ UNCHANGED <<ldPriv, ldOps>>
  /\ UNCHANGED ldIf

LdRegistered ==
  /\ ldPc = "probed"
  /\ ldPc' = "in"
  /\ UNCHANGED <<ldPriv, ldOps, ldIf, ldSeen>>

\* The interface is brought up: xnet_open, if there is one, unless request_irq fails.
LdUp ==
  /\ ldPc = "in" /\ ldIf = "down"
  /\ ldIf' = IF ldOps = "set" THEN "irq" ELSE "up"
  /\ UNCHANGED <<ldPc, ldPriv, ldOps, ldSeen>>

LdStop_KeepsIrq == ldIf' = IF ldIf = "irq" THEN "irq" ELSE "down"

\* The interface goes down: xnet_stop, if there is one, frees the irq.
LdStop == ldIf' = IF ldIf = "irq" /\ ldOps = "null" THEN "irq" ELSE "down"

LdDown ==
  /\ ldPc = "in" /\ ldIf # "down"
  /\ LdStop
  /\ UNCHANGED <<ldPc, ldPriv, ldOps, ldSeen>>

\* The stack calls xmit, which another chip has left null.
LdXmit ==
  /\ ldPc = "in" /\ ldIf # "down"
  /\ ldSeen' = ldSeen \cup {e \in {"fault"} : ldOps = "null"}
  /\ UNCHANGED <<ldPc, ldPriv, ldOps, ldIf>>

\* The handler runs, with xnet_dev->priv.
LdInterrupt ==
  /\ ldIf = "irq"
  /\ UsesPriv
  /\ UNCHANGED <<ldPc, ldPriv, ldOps, ldIf>>

\* xnet_dev_exit: unregister_netdev takes the interface down ...
LdUnregister ==
  /\ ldPc = "in"
  /\ ldPc' = "unregistered"
  /\ LdStop
  /\ UNCHANGED <<ldPriv, ldOps, ldSeen>>

\* ... and dev->priv is freed, which without a DM9000 was never allocated, and
\* the device set to zero.
LdFree ==
  /\ ldPc = "unregistered"
  /\ ldPc' = "out" /\ ldPriv' = "none" /\ ldOps' = "null"
  /\ UsesPriv
  /\ UNCHANGED ldIf

LdNext ==
  \/ LdAlloc \/ LdRefused \/ LdProbe \/ LdRegistered
  \/ LdUp \/ LdDown \/ LdXmit \/ LdInterrupt
  \/ LdUnregister \/ LdFree

LdSpec == LdInit /\ [][LdNext]_ldVars

LdTypeOK ==
  /\ ldPc \in {"out", "named", "probed", "in", "unregistered", "stuck"}
  /\ ldPriv \in {"none", "own", "chip"}
  /\ ldOps \in {"null", "set"}
  /\ ldIf \in {"down", "up", "irq"}
  /\ ldSeen \subseteq {"short", "other", "fault"}

\* With a DM9000 in its place and enough memory no sequence of loading, refusals,
\* up, down, traffic and unloading makes the kernel fault: whenever the handler
\* may run, the driver's data is there.
LoadSound ==
  /\ "fault" \in ldSeen => "short" \in ldSeen \/ "other" \in ldSeen
  /\ ldIf = "irq" => ldPriv = "chip" /\ ldPc = "in"

\* The inductive invariant: the entry points and the data come and go together.
LdInv ==
  /\ LdTypeOK /\ LoadSound
  /\ ldOps = "set" <=> ldPriv = "chip"
  /\ ldOps = "set" => ldPc \in {"probed", "in", "unregistered"}
  /\ ldPc \in {"probed", "in", "unregistered"} => ldOps = "set" \/ "other" \in ldSeen
============================================================================
