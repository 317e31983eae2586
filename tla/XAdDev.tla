------------------------------- MODULE XAdDev -------------------------------
(***************************************************************************)
(* static/coding/xaddev.c: read starts a conversion of the one A/D         *)
(* converter and polls its end flag; several processes may read at a time. *)
(* The node appears before the converter's registers are mapped.           *)
(***************************************************************************)
EXTENDS Integers

\* Definitions named <Action>_<Bug> are not part of the program: each is the
\* definition that follows it with a plausible slip, and a check must catch it.

CONSTANT AdReaders   \* processes

VARIABLES
  adPhase,             \* the module: out, node (chrdev registered), up
  adNode, base_addr,   \* the device can be opened; the registers are mapped
  adOpen,              \* processes that have it open
  adPc,                \* per process: label
  adBusy, adFlag,      \* the converter: converting; ADCCON's end flag (0x8000)
  adFresh              \* history, per process: a conversion has ended since it asked

adModule == <<adPhase, adNode, base_addr, adOpen>>
adVars == <<adModule, adPc, adBusy, adFlag, adFresh>>

AdInit ==
  /\ adPhase = "out" /\ adNode = FALSE /\ base_addr = FALSE /\ adOpen = {}
  /\ adPc = [r \in AdReaders |-> "idle"]
  /\ adBusy = FALSE /\ adFlag \in BOOLEAN
  /\ adFresh = [r \in AdReaders |-> FALSE]

\* ad_init: register_chrdev and the node, or nothing ...
AdRegister ==
  /\ adPhase = "out"
  /\ adPhase' = "node" /\ adNode' = TRUE /\ base_addr' = FALSE
  /\ UNCHANGED <<adOpen, adPc, adBusy, adFlag, adFresh>>

\* ... then ioremap; when it fails the registration is undone.
AdMap ==
  /\ adPhase = "node"
  /\ \/ adPhase' = "up" /\ base_addr' = TRUE /\ UNCHANGED adNode
     \/ adPhase' = "out" /\ adNode' = FALSE /\ UNCHANGED base_addr
  /\ UNCHANGED <<adOpen, adPc, adBusy, adFlag, adFresh>>

\* ad_exit, when nobody has the device open; the mapping is left behind.
AdUnload ==
  /\ adPhase = "up" /\ adOpen = {}
  /\ adPhase' = "out" /\ adNode' = FALSE /\ base_addr' = FALSE
  /\ UNCHANGED <<adOpen, adPc, adBusy, adFlag, adFresh>>

AdOpens(r) ==
  /\ adNode /\ r \notin adOpen
  /\ adOpen' = adOpen \cup {r}
  /\ UNCHANGED <<adPhase, adNode, base_addr, adPc, adBusy, adFlag, adFresh>>

AdCloses(r) ==
  /\ r \in adOpen /\ adPc[r] = "idle"
  /\ adOpen' = adOpen \ {r}
  /\ UNCHANGED <<adPhase, adNode, base_addr, adPc, adBusy, adFlag, adFresh>>

AdGoto(r, from, to) == adPc[r] = from /\ adPc' = [adPc EXCEPT ![r] = to]

\* xad_read reads ADCCON, through a base that may not be mapped ...
AdRead(r) ==
  /\ r \in adOpen
  /\ AdGoto(r, "idle", IF base_addr THEN "start" ELSE "fault")
  /\ UNCHANGED <<adModule, adBusy, adFlag, adFresh>>

\* What the converter does when ADCCON is written with the start bit: it converts,
\* from the beginning if it was at it, and its end flag is down from then on.  The
\* driver takes this for granted when it polls at once (58); it is assumed here.
AdConvert == adBusy' = TRUE /\ adFlag' = FALSE

\* ... and writes it back with the start bit.  The other bits are settings that nobody
\* changes, and the flag is not written: what was read meanwhile decides nothing else.
AdStart(r) ==
  /\ AdGoto(r, "start", "poll")
  /\ AdConvert
  /\ adFresh' = [adFresh EXCEPT ![r] = FALSE]
  /\ UNCHANGED adModule

AdPoll_Once(r) ==
  /\ AdGoto(r, "poll", "data")
  /\ UNCHANGED <<adModule, adBusy, adFlag, adFresh>>

AdPoll(r) ==
  /\ adFlag /\ AdGoto(r, "poll", "data")
  /\ UNCHANGED <<adModule, adBusy, adFlag, adFresh>>

\* The value is read and copied (or the copy faults).
AdTake(r) ==
  /\ AdGoto(r, "data", "idle")
  /\ UNCHANGED <<adModule, adBusy, adFlag, adFresh>>

\* The converter has finished.
AdDone ==
  /\ adBusy
  /\ adBusy' = FALSE /\ adFlag' = TRUE
  /\ adFresh' = [r \in AdReaders |-> TRUE]
  /\ UNCHANGED <<adModule, adPc>>

AdNext ==
  \/ AdRegister \/ AdMap \/ AdUnload \/ AdDone
  \/ \E r \in AdReaders : AdOpens(r) \/ AdCloses(r) \/ AdRead(r) \/ AdStart(r) \/ AdPoll(r) \/ AdTake(r)
AdSpec == AdInit /\ [][AdNext]_adVars

AdTypeOK ==
  /\ adPhase \in {"out", "node", "up"}
  /\ {adNode, base_addr, adBusy, adFlag} \subseteq BOOLEAN
  /\ adOpen \subseteq AdReaders
  /\ adPc \in [AdReaders -> {"idle", "start", "poll", "data", "fault"}]
  /\ adFresh \in [AdReaders -> BOOLEAN]

\* With a converter that lowers its flag when started, the value a process takes
\* (61) was converted after that process asked (57), although another may start the
\* converter again before the first has seen the flag: the flag of an earlier
\* conversion is never taken for its own.
ValueIsFresh == \A r \in AdReaders : adPc[r] = "data" => adFresh[r]

\* Where the device can be opened its registers are mapped, except between
\* lines 81 and 89: a failed ioremap leaves no node behind.
NodeIsMapped == adNode => base_addr \/ adPhase = "node"

\* A read gets a value of its own time from a converter that is there: the
\* two properties above.
AdSound == ValueIsFresh /\ NodeIsMapped
=============================================================================
