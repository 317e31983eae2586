-------------------------------- MODULE Spix --------------------------------
(***************************************************************************)
(* static/coding/spix.c and spix.h: bytes to and from a flash chip over    *)
(* one SPI bus.  send_byte is a sequence of register writes with no lock;  *)
(* any number of processes may be in it, and open resets the bus under them.*)
(***************************************************************************)
EXTENDS Integers

\* Definitions named <Action>_<Bug> are not part of the program: each is the
\* definition that follows it with a plausible slip, and a check must catch it.

CONSTANT SpCallers   \* processes, each with a file of its own

VARIABLES
  spPhase, spDev, spDrv, spMisc, spRefs,  \* module, what it registered, its use count
  spPc, spTim,                            \* per caller: label, polls left (tim)
  spWrite, spSel, spShift, spBusy,        \* bus: write on, chip selected, shift on, busy
  spAlone                                 \* history, per caller: nobody else has been at
                                          \* the bus since it entered send_byte

spModule == <<spPhase, spDev, spDrv, spMisc>>
spBus == <<spWrite, spSel, spShift, spBusy>>
spVars == <<spModule, spRefs, spPc, spTim, spBus, spAlone>>

SpInit ==
  /\ spPhase = "out" /\ spDev = FALSE /\ spDrv = FALSE /\ spMisc = FALSE /\ spRefs = 0
  /\ spPc = [c \in SpCallers |-> "closed"]
  /\ spTim = [c \in SpCallers |-> 0]
  /\ spWrite = FALSE /\ spSel = FALSE /\ spShift = FALSE /\ spBusy = FALSE
  /\ spAlone = [c \in SpCallers |-> FALSE]

\* platest_init: the device, then the driver, whose probe registers the misc
\* device.  A failing probe does not fail the driver's registration.
SpLoad ==
  /\ spPhase = "out"
  /\ spPhase' = "device" /\ spDev' = TRUE
  /\ UNCHANGED <<spDrv, spMisc, spRefs, spPc, spTim, spBus, spAlone>>

SpDriver ==
  /\ spPhase = "device"
  /\ \/ spPhase' = "up" /\ spDrv' = TRUE /\ spMisc' \in BOOLEAN /\ UNCHANGED spDev
     \/ spPhase' = "out" /\ spDev' = FALSE /\ UNCHANGED <<spDrv, spMisc>>
  /\ UNCHANGED <<spRefs, spPc, spTim, spBus, spAlone>>

\* platest_exit: the driver, with remove if it was bound, and then the device.
SpUnloadDriver ==
  /\ spPhase = "up" /\ spRefs = 0
  /\ spPhase' = "going" /\ spDrv' = FALSE /\ spMisc' = FALSE
  /\ UNCHANGED <<spDev, spRefs, spPc, spTim, spBus, spAlone>>

SpUnloadDevice ==
  /\ spPhase = "going"
  /\ spPhase' = "out" /\ spDev' = FALSE
  /\ UNCHANGED <<spDrv, spMisc, spRefs, spPc, spTim, spBus, spAlone>>

\* spix_open: the file counts as a use of the module, and init_spix writes the bus's
\* registers one after the other: the chip is deselected ...
SpOpen(c) ==
  /\ spMisc /\ spPc[c] = "closed"
  /\ spPc' = [spPc EXCEPT ![c] = "opening"]
  /\ spRefs' = spRefs + 1
  /\ spSel' = FALSE
  /\ spAlone' = [d \in SpCallers |-> FALSE]
  /\ UNCHANGED <<spModule, spTim, spWrite, spShift, spBusy>>

\* ... the controller is reset, after which shift and status are as it has them ...
SpReset(c) ==
  /\ spPc[c] = "opening"
  /\ spPc' = [spPc EXCEPT ![c] = "reset"]
  /\ spShift' \in BOOLEAN /\ spBusy' \in BOOLEAN
  /\ spAlone' = [d \in SpCallers |-> FALSE]
  /\ UNCHANGED <<spModule, spRefs, spTim, spWrite, spSel>>

\* ... and the shift is set off.  try_module_get counts a second time.
SpReady(c) ==
  /\ spPc[c] = "reset"
  /\ spPc' = [spPc EXCEPT ![c] = "open"]
  /\ spRefs' = spRefs + 1
  /\ spShift' = FALSE
  /\ spAlone' = [d \in SpCallers |-> FALSE]
  /\ UNCHANGED <<spModule, spTim, spWrite, spSel, spBusy>>

SpClose(c) ==
  /\ spPc[c] = "open"
  /\ spPc' = [spPc EXCEPT ![c] = "closed"]
  /\ spRefs' = spRefs - 2
  /\ UNCHANGED <<spModule, spTim, spBus, spAlone>>

\* spix_write and spix_read: send_byte for each byte, however many.
SpCall(c) ==
  /\ spPc[c] = "open"
  /\ spPc' = [spPc EXCEPT ![c] = "bytes"]
  /\ UNCHANGED <<spModule, spRefs, spTim, spBus, spAlone>>

Opening(c) == spPc[c] \in {"opening", "reset"}
InSend(c) == spPc[c] \in {"select", "shift", "data", "poll", "answer", "unshift", "deselect", "disable"}

\* The steps of send_byte: label, next label, and the bus after the step.
SpStep(c, from, to, write, sel, shift) ==
  /\ spPc[c] = from /\ spPc' = [spPc EXCEPT ![c] = to]
  /\ spWrite' = write /\ spSel' = sel /\ spShift' = shift
  /\ UNCHANGED <<spModule, spRefs>>

SendEnable(c) ==
  /\ SpStep(c, "bytes", "select", TRUE, spSel, spShift)
  /\ spTim' = [spTim EXCEPT ![c] = 6]
  /\ spAlone' = [d \in SpCallers |-> d = c /\ \A e \in SpCallers \ {c} : ~InSend(e) /\ ~Opening(e)]
  /\ UNCHANGED spBusy

SendSelect(c) == SpStep(c, "select", "shift", spWrite, TRUE, spShift) /\ UNCHANGED <<spTim, spBusy, spAlone>>

\* spix_con is read and written back with the shift bit set or cleared, here
\* and in SendUnshift: what was read decides nothing that is modelled.
SendShift(c) == SpStep(c, "shift", "data", spWrite, spSel, TRUE) /\ UNCHANGED <<spTim, spBusy, spAlone>>

SendData(c) ==
  /\ SpStep(c, "data", "poll", spWrite, spSel, spShift)
  /\ spBusy' = TRUE
  /\ UNCHANGED <<spTim, spAlone>>

\* The status is read six times at most; then the byte is taken for sent.
SendPoll(c) ==
  /\ SpStep(c, "poll", IF spBusy /\ spTim[c] > 1 THEN "poll" ELSE "answer", spWrite, spSel, spShift)
  /\ spTim' = [spTim EXCEPT ![c] = @ - 1]
  /\ UNCHANGED <<spBusy, spAlone>>

SendAnswer(c) == SpStep(c, "answer", "unshift", spWrite, spSel, spShift) /\ UNCHANGED <<spTim, spBusy, spAlone>>

SendUnshift(c) == SpStep(c, "unshift", "deselect", spWrite, spSel, FALSE) /\ UNCHANGED <<spTim, spBusy, spAlone>>

SendDeselect_Forgotten(c) == SpStep(c, "deselect", "disable", spWrite, spSel, spShift) /\ UNCHANGED <<spTim, spBusy, spAlone>>
SendDeselect(c) == SpStep(c, "deselect", "disable", spWrite, FALSE, spShift) /\ UNCHANGED <<spTim, spBusy, spAlone>>

\* ... and the loop has another byte, or the call returns 0.
SendDisable(c) ==
  /\ \E to \in {"bytes", "open"} : SpStep(c, "disable", to, FALSE, spSel, spShift)
  /\ UNCHANGED <<spTim, spBusy, spAlone>>

Send(c) ==
  \/ SendEnable(c) \/ SendSelect(c) \/ SendShift(c) \/ SendData(c) \/ SendPoll(c)
  \/ SendAnswer(c) \/ SendUnshift(c) \/ SendDeselect(c) \/ SendDisable(c)

\* The chip has shifted the byte; or never does.
SpChip ==
  /\ spBusy /\ spBusy' = FALSE
  /\ UNCHANGED <<spModule, spRefs, spPc, spTim, spWrite, spSel, spShift, spAlone>>

SpNext ==
  \/ SpLoad \/ SpDriver \/ SpUnloadDriver \/ SpUnloadDevice \/ SpChip
  \/ \E c \in SpCallers : SpOpen(c) \/ SpReset(c) \/ SpReady(c) \/ SpClose(c) \/ SpCall(c) \/ Send(c)
SpSpec == SpInit /\ [][SpNext]_spVars

SpTypeOK ==
  /\ spPhase \in {"out", "device", "up", "going"}
  /\ {spDev, spDrv, spMisc, spWrite, spSel, spShift, spBusy} \subseteq BOOLEAN
  /\ \A c \in SpCallers : InSend(c) \/ Opening(c) \/ spPc[c] \in {"closed", "open", "bytes"}
  /\ spTim \in [SpCallers -> 0..6]
  /\ spAlone \in [SpCallers -> BOOLEAN] /\ spRefs \in Nat

\* However the register writes of calls and opens interleave, once nobody is in
\* send_byte or in open the chip is deselected, writing is off and the shift is
\* off (spix.h 76-80, spix.c 29-37).
BusReleased == (\A c \in SpCallers : ~InSend(c) /\ ~Opening(c)) => ~spWrite /\ ~spSel /\ ~spShift

\* A byte is written to the chip (66) and its answer read (73) with the chip
\* selected and the shift on, if nobody else was in send_byte or in
\* open meanwhile: the driver itself excludes nobody.
AloneSelected ==
  \A c \in SpCallers : spAlone[c] /\ spPc[c] \in {"data", "poll", "answer"} => spWrite /\ spSel /\ spShift

\* Whatever fails while loading (157-164), a module that is out has nothing
\* registered and no file open, and only files keep it in.
NothingRegistered ==
  /\ spPhase = "out" => ~spDev /\ ~spDrv /\ ~spMisc
  /\ (\A c \in SpCallers : spPc[c] = "closed") <=> spRefs = 0
  /\ spRefs > 0 => spMisc /\ spDrv /\ spDev

\* The driver and its bus are left in order, whatever its callers do: the
\* three properties above.
SpixSound == BusReleased /\ AloneSelected /\ NothingRegistered

\* A byte's transfer ends although the chip may stay busy for ever (67-70),
\* and whatever others do on the bus.
ByteEnds == \A c \in SpCallers : InSend(c) ~> ~InSend(c)
=============================================================================
