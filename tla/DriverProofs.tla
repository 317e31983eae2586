---------------------------- MODULE DriverProofs ----------------------------
(* The drivers mytasklet, xaddev, led_proc, spix and mytimer, for any       *)
(* number of callers, the threads of mutex.c, and the loading of            *)
(* xnetdev.c.  They share nothing; each has its own section.                *)
EXTENDS MyTasklet, MyTimer, XAdDev, LedProc, Spix, SemPair, XNetLoad, FiniteSetTheorems, SequenceTheorems, TLAPS

(***************************************************************************)
(* mytasklet.c                                                             *)
(***************************************************************************)

\* Without its irq the module gets no interrupt; while tasklet_kill holds the
\* bit none queues the tasklet; what follows the kill is clean or late.
LetInv ==
  /\ letPhase \in {"out", "loading", "up", "killing", "killed"}
  /\ letLate \in BOOLEAN
  /\ letPhase \in {"out", "loading"} => letIrq = FALSE
  /\ letPhase = "killing" => letSched = "held"
  /\ letPhase \in {"out", "loading", "killed"} => (letSched = "no" /\ ~letRunning) \/ letLate

LEMMA LetStep == LetInv /\ [LetNext]_letVars => LetInv'
<1> SUFFICES ASSUME LetInv, [LetNext]_letVars PROVE LetInv'
  OBVIOUS
<1>1. CASE UNCHANGED letVars
  BY <1>1 DEF letVars, LetInv
<1>2. CASE LetLoad \/ LetRequest
  BY <1>2 DEF LetInv, LetLoad, LetRequest
<1>3. CASE MyInterrupt
  BY <1>3 DEF LetInv, MyInterrupt
<1>4. CASE MyletBegin \/ MyletEnd
  BY <1>4 DEF LetInv, MyletBegin, MyletEnd
<1>5. CASE LetKill \/ LetKilled \/ LetFreeIrq
  BY <1>5 DEF LetInv, LetKill, LetKilled, LetFreeIrq
<1> QED BY <1>1, <1>2, <1>3, <1>4, <1>5 DEF LetNext

\* mytasklet.c 61-66: a module that has gone leaves its tasklet neither queued
\* nor running, unless an interrupt fell between tasklet_kill and free_irq.
THEOREM TaskletGone == LetSpec => []GoneIsQuiet
<1>1. LetInit => LetInv
  BY DEF LetInit, LetInv
<1>2. LetInv => GoneIsQuiet
  BY DEF LetInv, GoneIsQuiet
<1> QED BY <1>1, <1>2, LetStep, PTL DEF LetSpec

(***************************************************************************)
(* xaddev.c                                                                *)
(***************************************************************************)

\* The end flag, if it is up, was raised after every process that polls had
\* asked: asking lowers it.
AdInv ==
  /\ AdTypeOK
  /\ \A r \in AdReaders : adPc[r] = "data" \/ (adPc[r] = "poll" /\ adFlag) => adFresh[r]
  /\ NodeIsMapped

LEMMA AdModuleStep == ASSUME AdInv, AdRegister \/ AdMap \/ AdUnload PROVE AdInv'
<1>1. AdTypeOK'
  BY DEF AdInv, AdTypeOK, AdRegister, AdMap, AdUnload
<1>2. NodeIsMapped'
  BY DEF AdInv, NodeIsMapped, AdRegister, AdMap, AdUnload
<1>3. UNCHANGED <<adPc, adFlag, adFresh>>
  BY DEF AdRegister, AdMap, AdUnload
<1> QED BY <1>1, <1>2, <1>3 DEF AdInv

LEMMA AdFileStep == ASSUME AdInv, NEW r \in AdReaders, AdOpens(r) \/ AdCloses(r) PROVE AdInv'
<1>1. AdTypeOK'
  BY DEF AdInv, AdTypeOK, AdOpens, AdCloses
<1>2. UNCHANGED <<adPhase, adNode, base_addr, adPc, adFlag, adFresh>>
  BY DEF AdOpens, AdCloses
<1> QED BY <1>1, <1>2 DEF AdInv, NodeIsMapped

LEMMA AdReadStep == ASSUME AdInv, NEW r \in AdReaders, AdRead(r) \/ AdStart(r) \/ AdPoll(r) \/ AdTake(r) PROVE AdInv'
<1>1. UNCHANGED <<adPhase, adNode, base_addr, adOpen>>
  BY DEF AdRead, AdStart, AdPoll, AdTake, adModule
<1>2. AdTypeOK'
  BY <1>1 DEF AdInv, AdTypeOK, AdRead, AdStart, AdConvert, AdPoll, AdTake, AdGoto
<1>3. CASE AdStart(r)
  BY <1>1, <1>2, <1>3 DEF AdInv, AdTypeOK, NodeIsMapped, AdStart, AdConvert, AdGoto
<1>4. CASE AdRead(r) \/ AdPoll(r) \/ AdTake(r)
  BY <1>1, <1>2, <1>4 DEF AdInv, AdTypeOK, NodeIsMapped, AdRead, AdPoll, AdTake, AdGoto
<1> QED BY <1>3, <1>4

LEMMA AdDoneStep == ASSUME AdInv, AdDone PROVE AdInv'
<1>1. AdTypeOK' /\ NodeIsMapped'
  BY DEF AdInv, AdTypeOK, NodeIsMapped, AdDone, adModule
<1> QED BY <1>1 DEF AdInv, AdDone

LEMMA AdStep == AdInv /\ [AdNext]_adVars => AdInv'
<1> SUFFICES ASSUME AdInv, [AdNext]_adVars PROVE AdInv'
  OBVIOUS
<1>1. CASE UNCHANGED adVars
  BY <1>1 DEF adVars, adModule, AdInv, AdTypeOK, NodeIsMapped
<1> QED BY <1>1, AdModuleStep, AdFileStep, AdReadStep, AdDoneStep DEF AdNext

LEMMA AdInitInv == AdInit => AdInv
BY DEF AdInit, AdInv, AdTypeOK, NodeIsMapped

\* xaddev.c 49-67 and 77-98, for a converter as AdConvert has it: the value a process takes was converted after it
\* asked, for any number of processes, and the node outlives no failed ioremap.
THEOREM AdValuesFresh == AdSpec => []AdSound
<1>1. AdInv => AdSound
  BY DEF AdInv, AdSound, ValueIsFresh
<1> QED BY AdInitInv, AdStep, <1>1, PTL DEF AdSpec

(***************************************************************************)
(* led_proc.c                                                              *)
(***************************************************************************)

\* What the lamps show for the character written last.
LampsShow(ch, port) ==
  \/ \E d \in 0..15 : ch \in HexDigits[d + 1] /\ port = 16 * d
  \/ (\A d \in 1..16 : ch \notin HexDigits[d]) /\ port = 240

\* proc_write_led's conversion, for every byte.
LEMMA LedCodeShows == ASSUME NEW ch \in 0..255 PROVE LampsShow(ch, (LedCode(ch) * 16) % 256)
<1> USE DEF LampsShow, HexDigits, LedCode
<1>1. CASE ch \in 48..57
  <2>1. ch - 48 \in 0..15 /\ LedCode(ch) = ch - 48
    BY <1>1
  <2>2. ch \in HexDigits[ch - 48 + 1]
    BY <1>1
  <2>3. (LedCode(ch) * 16) % 256 = 16 * (ch - 48)
    BY <1>1, <2>1
  <2> QED BY <2>1, <2>2, <2>3 DEF LampsShow
<1>2. CASE ch \in 65..70
  <2>1. ch - 55 \in 0..15 /\ LedCode(ch) = ch - 55
    BY <1>2
  <2>2. ch \in HexDigits[ch - 55 + 1]
    BY <1>2
  <2>3. (LedCode(ch) * 16) % 256 = 16 * (ch - 55)
    BY <1>2, <2>1
  <2> QED BY <2>1, <2>2, <2>3 DEF LampsShow
<1>3. CASE ch \in 97..102
  <2>1. ch - 87 \in 0..15 /\ LedCode(ch) = ch - 87
    BY <1>3
  <2>2. ch \in HexDigits[ch - 87 + 1]
    BY <1>3
  <2>3. (LedCode(ch) * 16) % 256 = 16 * (ch - 87)
    BY <1>3, <2>1
  <2> QED BY <2>1, <2>2, <2>3 DEF LampsShow
<1>4. CASE ch \notin (48..57) \cup (65..70) \cup (97..102)
  <2>1. (LedCode(ch) * 16) % 256 = 240
    BY <1>4
  <2>2. \A d \in 1..16 : ch \notin HexDigits[d]
    BY <1>4
  <2> QED BY <2>1, <2>2
<1> QED BY <1>1, <1>2, <1>3, <1>4

\* The file is there between its making and led_proc_exit only, its data from
\* the line after its making on; an open file counts only while the module is up.
LedInv ==
  /\ ledPhase \in {"out", "io", "dir", "file", "data", "up", "stale", "going", "gone", "oops"}
  /\ ledPhase \in {"out", "io", "dir", "stale", "going", "gone", "oops"} => ledFile = FALSE
  /\ ledPhase \in {"out", "io", "stale", "going", "gone", "oops"} => ledDir = FALSE
  /\ ledPhase = "data" => ledHasData = TRUE
  /\ ledHasOps = TRUE => ledHasData = TRUE /\ ledPhase = "up"
  /\ {ledDir, ledFile, ledHasData, ledHasOps} \subseteq BOOLEAN

\* Who may still write, and what the port shows.
LedUseInv ==
  /\ ledPc \in [LedUsers -> {"closed", "open", "copied", "reading", "dangling", "fault"}]
  /\ ledCh \in [LedUsers -> {0} \cup LedChars] /\ ledHeld \subseteq LedUsers
  /\ ledHeld # {} => ledPhase = "up"
  /\ \A p \in LedUsers : ledPc[p] = "copied" =>
                           ledCh[p] \in LedChars /\ ledPhase \in {"up", "going", "gone"}
  /\ ledPhase \in {"gone", "out"} => ledPort = 255 \/ ledTouched
  /\ LampsShowDigit

LEMMA LedEntriesStep == LedInv /\ [LedNext]_ledVars => LedInv'
<1> USE DEF LedInv
<1> SUFFICES ASSUME LedInv, [LedNext]_ledVars PROVE LedInv'
  OBVIOUS
<1>1. CASE UNCHANGED ledVars
  BY <1>1 DEF ledVars, ledEntries
<1>2. CASE LedModule
  BY <1>2 DEF LedModule, LedIo, LedMakeDir, LedMakeFile, LedSetData, LedSetOps, LedRemove, LedIoExit,
              LedFree, ledEntries
<1>3. ASSUME NEW p \in LedUsers,
             \/ LedOpen(p) \/ LedClose(p) \/ LedWrite(p) \/ LedReadPort(p) \/ LedReadStat(p) \/ LedFaults(p)
             \/ \E ch \in LedChars : LedCopy(p, ch)
      PROVE  LedInv'
  <2>1. UNCHANGED <<ledPhase, ledEntries>>
    BY <1>3 DEF LedOpen, LedClose, LedWrite, LedReadPort, LedReadStat, LedFaults, LedCopy
  <2> QED BY <2>1 DEF ledEntries
<1> QED BY <1>1, <1>2, <1>3 DEF LedNext

\* Loading and unloading: the port is set, and whoever could still write is stopped.
LEMMA LedModuleStep == ASSUME LedInv, LedUseInv, LedModule PROVE LedUseInv'
<1>1. CASE LedIo \/ LedIoExit
  <2>1. UNCHANGED ledFiles /\ ledLast' = -1
    BY <1>1 DEF LedIo, LedIoExit
  <2>2. LampsShowDigit'
    BY <2>1 DEF LampsShowDigit
  <2> HIDE DEF LampsShowDigit
  <2> QED BY <1>1, <2>1, <2>2 DEF LedUseInv, LedIo, LedIoExit, ledFiles
<1>2. CASE LedMakeDir \/ LedMakeFile \/ LedSetData \/ LedSetOps \/ LedRemove
  <2>1. UNCHANGED <<ledFiles, ledLamps>>
    BY <1>2 DEF LedMakeDir, LedMakeFile, LedSetData, LedSetOps, LedRemove
  <2>2. LampsShowDigit'
    BY <2>1 DEF LedUseInv, LampsShowDigit, ledLamps
  <2> HIDE DEF LampsShowDigit
  <2> QED BY <1>2, <2>1, <2>2 DEF LedUseInv, ledFiles, ledLamps,
          LedMakeDir, LedMakeFile, LedSetData, LedSetOps, LedRemove
<1>3. CASE LedFree
  <2>1. UNCHANGED <<ledCh, ledHeld, ledLamps>> /\ ledPhase = "gone" /\ ledPhase' = "out"
    BY <1>3 DEF LedFree
  <2>2. LampsShowDigit'
    BY <2>1 DEF LedUseInv, LampsShowDigit, ledLamps
  <2>3. ledPc' = [p \in LedUsers |-> CASE ledPc[p] = "open" -> "dangling"
                                       [] ledPc[p] \in {"copied", "reading"} -> "fault"
                                       [] OTHER -> ledPc[p]]
    BY <1>3 DEF LedFree
  <2>4. /\ ledPc' \in [LedUsers -> {"closed", "open", "copied", "reading", "dangling", "fault"}]
        /\ \A p \in LedUsers : ledPc'[p] # "copied"
    BY <2>3 DEF LedUseInv
  <2> HIDE DEF LampsShowDigit
  <2> QED BY <2>1, <2>2, <2>4 DEF LedUseInv, ledLamps
<1> QED BY <1>1, <1>2, <1>3 DEF LedModule

\* A process at the file: only line 64 changes the lamps.
LEMMA LedFileStep ==
  ASSUME LedInv, LedUseInv, NEW p \in LedUsers,
         \/ LedOpen(p) \/ LedClose(p) \/ LedReadPort(p) \/ LedReadStat(p) \/ LedFaults(p)
         \/ \E ch \in LedChars : LedCopy(p, ch)
  PROVE  LedUseInv'
<1>1. UNCHANGED <<ledPhase, ledLamps>>
  BY DEF LedOpen, LedClose, LedReadPort, LedReadStat, LedFaults, LedCopy
<1>2. LampsShowDigit'
  BY <1>1 DEF LedUseInv, LampsShowDigit, ledLamps
<1> HIDE DEF LampsShowDigit
<1>3. ledPc' \in [LedUsers -> {"closed", "open", "copied", "reading", "dangling", "fault"}]
  BY DEF LedUseInv, LedAt, LedOpen, LedClose, LedReadPort, LedReadStat, LedFaults, LedCopy
<1>4. ledHeld' \subseteq LedUsers /\ (ledHeld' # {} => ledPhase' = "up")
  BY <1>1 DEF LedInv, LedUseInv, LedOpen, LedClose, LedReadPort, LedReadStat, LedFaults, LedCopy
<1>5. ASSUME NEW ch \in LedChars, LedCopy(p, ch) PROVE LedUseInv'
  <2>1. ledCh' = [ledCh EXCEPT ![p] = ch] /\ ledPc' = [ledPc EXCEPT ![p] = "copied"]
    BY <1>5 DEF LedCopy, LedAt
  <2>2. ledPhase \in {"up", "going", "gone"}
    BY <1>5 DEF LedCopy, LedInv
  <2>3. ledCh' \in [LedUsers -> {0} \cup LedChars]
    BY <2>1 DEF LedUseInv
  <2>4. \A q \in LedUsers : ledPc'[q] = "copied" => ledCh'[q] \in LedChars /\ ledPhase' \in {"up", "going", "gone"}
    BY <1>1, <2>1, <2>2 DEF LedUseInv
  <2> QED BY <1>1, <1>2, <1>3, <1>4, <2>3, <2>4 DEF LedUseInv, ledLamps
<1>6. CASE LedOpen(p) \/ LedClose(p) \/ LedReadPort(p) \/ LedReadStat(p) \/ LedFaults(p)
  <2>1. ledCh' = ledCh
    BY <1>6 DEF LedOpen, LedClose, LedReadPort, LedReadStat, LedFaults
  <2>2. \A q \in LedUsers : ledPc'[q] = "copied" => ledPc[q] = "copied"
    BY <1>6 DEF LedUseInv, LedAt, LedOpen, LedClose, LedReadPort, LedReadStat, LedFaults
  <2> QED BY <1>1, <1>2, <1>3, <1>4, <2>1, <2>2 DEF LedUseInv, ledLamps
<1> QED BY <1>5, <1>6

LEMMA LedWriteStep == ASSUME LedInv, LedUseInv, NEW p \in LedUsers, LedWrite(p) PROVE LedUseInv'
<1> DEFINE ch == ledCh[p]
<1>1. ch \in LedChars /\ ledPhase \in {"up", "going", "gone"}
  BY DEF LedUseInv, LedWrite, LedAt
<1>2. ledPort' = (LedCode(ch) * 16) % 256 /\ ledLast' = ch
  BY DEF LedWrite
<1>3. LampsShow(ch, ledPort')
  BY <1>1, <1>2, LedCharsAssumption, LedCodeShows
<1>4. LampsShowDigit'
  BY <1>2, <1>3 DEF LampsShow, LampsShowDigit
<1>5. ledPhase = "gone" => ledTouched'
  BY DEF LedUseInv, LedWrite
<1>6. /\ ledPc' = [ledPc EXCEPT ![p] = "open"] /\ ledCh' = [ledCh EXCEPT ![p] = 0]
      /\ ledHeld' = ledHeld /\ ledPhase' = ledPhase
  BY DEF LedWrite, LedAt
<1>7. ledPc' \in [LedUsers -> {"closed", "open", "copied", "reading", "dangling", "fault"}]
      /\ ledCh' \in [LedUsers -> {0} \cup LedChars]
  BY <1>6 DEF LedUseInv
<1>8. \A q \in LedUsers : ledPc'[q] = "copied" => ledPc[q] = "copied" /\ ledCh'[q] = ledCh[q]
  BY <1>6 DEF LedUseInv
<1> HIDE DEF LampsShowDigit, ch
<1> QED BY <1>1, <1>4, <1>5, <1>6, <1>7, <1>8 DEF LedUseInv

LEMMA LedInitInv == LedInit => LedInv /\ LedUseInv
BY DEF LedInit, LedInv, LedUseInv, LampsShowDigit

LEMMA LedStep == LedInv /\ LedUseInv /\ [LedNext]_ledVars => LedInv' /\ LedUseInv'
<1>1. LedUseInv /\ UNCHANGED ledVars => LedUseInv'
  BY DEF ledVars, ledFiles, ledLamps, LedUseInv, LampsShowDigit
<1> QED BY <1>1, LedEntriesStep, LedModuleStep, LedFileStep, LedWriteStep DEF LedNext

\* led_proc.c 26-66, 68-103 and 105-140: for every byte, and any number of processes
\* whose writes overlap each other and the unload, the lamps show the digit, the
\* file has its data before its functions, and nothing is left, but for a write
\* through a file opened before it had an owner.
THEOREM LedsShow == LedSpec => []LedSound
<1>1. LedInv /\ LedUseInv => LedSound
  BY DEF LedInv, LedUseInv, LedSound, OpsHaveData, LedsAreLeft
<1> QED BY LedInitInv, LedStep, <1>1, PTL DEF LedSpec

(***************************************************************************)
(* spix.c                                                                  *)
(***************************************************************************)

SpLabels == {"closed", "opening", "reset", "open", "bytes", "select", "shift", "data", "poll", "answer",
             "unshift", "deselect", "disable"}

\* Who is responsible for a bus signal that is on: a caller on its way to the
\* write that turns it off, in send_byte or, after a reset, in open.
BusInv ==
  /\ spPc \in [SpCallers -> SpLabels] /\ spAlone \in [SpCallers -> BOOLEAN]
  /\ spWrite => \E c \in SpCallers : InSend(c)
  /\ spSel => \E c \in SpCallers : InSend(c) /\ spPc[c] \notin {"select", "disable"}
  /\ spShift => \E c \in SpCallers : spPc[c] \in {"data", "poll", "answer", "unshift", "reset"}

\* A caller that is alone finds the bus as it left it.
AloneInv ==
  \A c \in SpCallers : spAlone[c] /\ InSend(c) =>
    /\ \A d \in SpCallers \ {c} : ~InSend(d) /\ ~Opening(d)
    /\ spWrite
    /\ spPc[c] \notin {"select", "disable"} => spSel
    /\ spPc[c] \in {"data", "poll", "answer", "unshift"} => spShift

SpInv == BusInv /\ AloneInv

LEMMA SpLoadStep ==
  ASSUME SpInv, SpLoad \/ SpDriver \/ SpUnloadDriver \/ SpUnloadDevice \/ SpChip PROVE SpInv'
<1>1. UNCHANGED <<spPc, spAlone, spWrite, spSel, spShift>>
  BY DEF SpLoad, SpDriver, SpUnloadDriver, SpUnloadDevice, SpChip, spBus, spModule
<1> QED BY <1>1 DEF SpInv, BusInv, AloneInv, InSend, Opening

\* open: whoever is in send_byte is alone no more.
LEMMA SpOpenStep ==
  ASSUME SpInv, NEW c \in SpCallers, SpOpen(c) \/ SpReset(c) \/ SpReady(c) PROVE SpInv'
<1>1. spPc' \in [SpCallers -> SpLabels] /\ spAlone' = [d \in SpCallers |-> FALSE]
  BY DEF SpInv, BusInv, SpOpen, SpReset, SpReady, SpLabels
<1>2. spAlone' \in [SpCallers -> BOOLEAN] /\ AloneInv'
  BY <1>1 DEF AloneInv
<1>3. \A d \in SpCallers : InSend(d) => spPc'[d] = spPc[d] /\ InSend(d)'
  BY DEF SpInv, BusInv, SpOpen, SpReset, SpReady, InSend
<1>4. spWrite' = spWrite /\ (spSel' => spSel)
  BY DEF SpOpen, SpReset, SpReady
<1>5. spShift' => \E d \in SpCallers : spPc'[d] \in {"data", "poll", "answer", "unshift", "reset"}
  <2>1. CASE SpOpen(c)
    BY <2>1 DEF SpInv, BusInv, SpOpen
  <2>2. CASE SpReset(c)
    BY <2>2 DEF SpInv, BusInv, SpReset
  <2>3. CASE SpReady(c)
    BY <2>3 DEF SpReady
  <2> QED BY <2>1, <2>2, <2>3
<1> QED BY <1>1, <1>2, <1>3, <1>4, <1>5 DEF SpInv, BusInv

\* close and the beginning of a read or write: no caller in send_byte moves.
LEMMA SpFileStep ==
  ASSUME SpInv, NEW c \in SpCallers, SpClose(c) \/ SpCall(c) PROVE SpInv'
<1>1. spPc' \in [SpCallers -> SpLabels]
  BY DEF SpInv, BusInv, SpClose, SpCall, SpLabels
<1>2. UNCHANGED <<spWrite, spSel, spShift, spAlone>>
  BY DEF SpClose, SpCall, spBus
<1>3. \A d \in SpCallers : /\ InSend(d)' = InSend(d) /\ Opening(d)' = Opening(d)
                           /\ InSend(d) \/ Opening(d) => spPc'[d] = spPc[d]
  BY DEF SpInv, BusInv, SpClose, SpCall, InSend, Opening
<1>4. \A d \in SpCallers : spPc[d] \in {"data", "poll", "answer", "unshift", "reset"} => InSend(d) \/ Opening(d)
  BY DEF InSend, Opening
<1>5. BusInv'
  BY <1>1, <1>2, <1>3, <1>4 DEF SpInv, BusInv
<1>6. AloneInv'
  BY <1>2, <1>3 DEF SpInv, AloneInv
<1> QED BY <1>5, <1>6 DEF SpInv

LEMMA SendEnableStep == ASSUME SpInv, NEW c \in SpCallers, SendEnable(c) PROVE SpInv'
<1>1. /\ spPc[c] = "bytes" /\ spPc' = [spPc EXCEPT ![c] = "select"]
      /\ spWrite' /\ spSel' = spSel /\ spShift' = spShift
      /\ spAlone' = [d \in SpCallers |-> d = c /\ \A e \in SpCallers \ {c} : ~InSend(e) /\ ~Opening(e)]
  BY DEF SendEnable, SpStep
<1>2. BusInv'
  BY <1>1 DEF SpInv, BusInv, InSend, SpLabels
<1>3. AloneInv'
  BY <1>1 DEF SpInv, BusInv, AloneInv, InSend, Opening
<1> QED BY <1>2, <1>3 DEF SpInv

\* A later step of send_byte: it changes the caller's label and what the
\* write at that label says of the bus.
LEMMA SendStep ==
  ASSUME SpInv, NEW c \in SpCallers,
         SendSelect(c) \/ SendShift(c) \/ SendData(c) \/ SendPoll(c) \/ SendAnswer(c)
           \/ SendUnshift(c) \/ SendDeselect(c) \/ SendDisable(c)
  PROVE  SpInv'
<1>1. /\ spPc' = [spPc EXCEPT ![c] = spPc'[c]]
      /\ <<spPc[c], spPc'[c]>> \in
           {<<"select", "shift">>, <<"shift", "data">>, <<"data", "poll">>, <<"poll", "poll">>,
            <<"poll", "answer">>, <<"answer", "unshift">>, <<"unshift", "deselect">>,
            <<"deselect", "disable">>, <<"disable", "bytes">>, <<"disable", "open">>}
      /\ spAlone' = spAlone
      /\ spWrite' = IF spPc[c] = "disable" THEN FALSE ELSE spWrite
      /\ spSel' = IF spPc[c] = "select" THEN TRUE ELSE IF spPc[c] = "deselect" THEN FALSE ELSE spSel
      /\ spShift' = IF spPc[c] = "shift" THEN TRUE ELSE IF spPc[c] = "unshift" THEN FALSE ELSE spShift
  BY DEF SpInv, BusInv, SpStep, SendSelect, SendShift, SendData, SendPoll, SendAnswer,
         SendUnshift, SendDeselect, SendDisable
<1>2. spPc' \in [SpCallers -> SpLabels] /\ \A d \in SpCallers : d # c => spPc'[d] = spPc[d]
  BY <1>1 DEF SpInv, BusInv, SpLabels
<1>3. spWrite' => \E d \in SpCallers : InSend(d)'
  BY <1>1, <1>2 DEF SpInv, BusInv, InSend
<1>4. spSel' => \E d \in SpCallers : InSend(d)' /\ spPc'[d] \notin {"select", "disable"}
  BY <1>1, <1>2 DEF SpInv, BusInv, InSend
<1>5. spShift' => \E d \in SpCallers : spPc'[d] \in {"data", "poll", "answer", "unshift", "reset"}
  BY <1>1, <1>2 DEF SpInv, BusInv
<1>6. AloneInv'
  <2> SUFFICES ASSUME NEW d \in SpCallers, spAlone'[d], InSend(d)'
               PROVE  /\ \A e \in SpCallers \ {d} : ~InSend(e)' /\ ~Opening(e)'
                      /\ spWrite'
                      /\ spPc'[d] \notin {"select", "disable"} => spSel'
                      /\ spPc'[d] \in {"data", "poll", "answer", "unshift"} => spShift'
    BY DEF AloneInv
  <2>1. InSend(c)
    BY <1>1 DEF InSend
  <2>2. CASE d = c
    BY <1>1, <1>2, <2>1, <2>2 DEF SpInv, AloneInv, InSend, Opening
  <2>3. CASE d # c
    BY <1>1, <1>2, <2>1, <2>3 DEF SpInv, AloneInv, InSend
  <2> QED BY <2>2, <2>3
<1> QED BY <1>1, <1>2, <1>3, <1>4, <1>5, <1>6 DEF SpInv, BusInv

\* The use count is one for each file and one more where open is through, and what
\* is registered goes with the phase.
SpFiles == {c \in SpCallers : spPc[c] # "closed"}
SpOpened == {c \in SpCallers : spPc[c] # "closed" /\ ~Opening(c)}
RefInv ==
  /\ IsFiniteSet(SpFiles) /\ IsFiniteSet(SpOpened)
  /\ spRefs = Cardinality(SpFiles) + Cardinality(SpOpened)
  /\ spPhase \in {"out", "device", "up", "going"}
  /\ spPhase = "out" => ~spDev
  /\ spPhase # "out" => spDev
  /\ spPhase = "up" => spDrv
  /\ spPhase # "up" => ~spDrv /\ ~spMisc
  /\ SpFiles # {} => spMisc

\* The same files are open, and the module is as it was.
LEMMA SameRefs ==
  ASSUME RefInv, SpFiles' = SpFiles, SpOpened' = SpOpened, UNCHANGED <<spModule, spRefs>>
  PROVE  RefInv'
  BY DEF RefInv, spModule

LEMMA RefStep == SpInv /\ RefInv /\ [SpNext]_spVars => RefInv'
<1> SUFFICES ASSUME SpInv, RefInv, [SpNext]_spVars PROVE RefInv'
  OBVIOUS
<1> DEFINE n == Cardinality(SpFiles)
           m == Cardinality(SpOpened)
<1>1. /\ n \in Nat /\ IsFiniteSet(SpFiles) /\ (n = 0 <=> SpFiles = {})
      /\ m \in Nat /\ IsFiniteSet(SpOpened) /\ spRefs = n + m
  BY FS_CardinalityType, FS_EmptySet DEF RefInv
<1>2. CASE UNCHANGED spVars \/ SpChip
  <2>1. SpFiles' = SpFiles /\ SpOpened' = SpOpened
    BY <1>2 DEF spVars, SpChip, SpFiles, SpOpened, Opening
  <2> QED BY <1>2, <2>1, SameRefs DEF spVars, SpChip
<1>3. CASE SpLoad \/ SpDriver \/ SpUnloadDriver \/ SpUnloadDevice
  <2>1. SpFiles' = SpFiles /\ SpOpened' = SpOpened /\ spRefs' = spRefs
    BY <1>3 DEF SpLoad, SpDriver, SpUnloadDriver, SpUnloadDevice, SpFiles, SpOpened, Opening
  <2>2. CASE SpLoad \/ SpDriver \/ SpUnloadDevice
    BY <2>1, <2>2 DEF RefInv, SpLoad, SpDriver, SpUnloadDevice
  <2>3. CASE SpUnloadDriver
    <3>1. SpFiles = {}
      <4>1. spRefs = 0
        BY <2>3 DEF SpUnloadDriver
      <4> HIDE DEF n, m
      <4> QED BY <1>1, <4>1
    <3> QED BY <2>1, <2>3, <3>1 DEF RefInv, SpUnloadDriver
  <2> QED BY <1>3, <2>2, <2>3
<1>4. ASSUME NEW c \in SpCallers, SpOpen(c) PROVE RefInv'
  <2>1. SpFiles' = SpFiles \cup {c} /\ c \notin SpFiles /\ SpOpened' = SpOpened
    BY <1>4 DEF SpOpen, SpFiles, SpOpened, Opening, SpInv, BusInv
  <2>2. IsFiniteSet(SpFiles') /\ Cardinality(SpFiles') = n + 1
    BY <1>1, <2>1, FS_AddElement
  <2>3. spRefs' = (n + 1) + m
    BY <1>1, <1>4 DEF SpOpen
  <2> HIDE DEF n, SpFiles, SpOpened
  <2> QED BY <1>4, <2>1, <2>2, <2>3 DEF RefInv, SpOpen, spModule
<1>5. ASSUME NEW c \in SpCallers, SpReset(c) PROVE RefInv'
  <2>1. SpFiles' = SpFiles /\ SpOpened' = SpOpened
    BY <1>5 DEF SpReset, SpFiles, SpOpened, Opening, SpInv, BusInv
  <2> QED BY <1>5, <2>1, SameRefs DEF SpReset
<1>6. ASSUME NEW c \in SpCallers, SpReady(c) PROVE RefInv'
  <2>1. SpOpened' = SpOpened \cup {c} /\ c \notin SpOpened /\ SpFiles' = SpFiles
    BY <1>6 DEF SpReady, SpFiles, SpOpened, Opening, SpInv, BusInv
  <2>2. IsFiniteSet(SpOpened') /\ Cardinality(SpOpened') = m + 1
    BY <1>1, <2>1, FS_AddElement
  <2>3. spRefs' = n + (m + 1)
    BY <1>1, <1>6 DEF SpReady
  <2> HIDE DEF m, SpFiles, SpOpened
  <2> QED BY <1>6, <2>1, <2>2, <2>3 DEF RefInv, SpReady, spModule
<1>7. ASSUME NEW c \in SpCallers, SpClose(c) PROVE RefInv'
  <2>1. /\ SpFiles' = SpFiles \ {c} /\ c \in SpFiles
        /\ SpOpened' = SpOpened \ {c} /\ c \in SpOpened
    BY <1>7 DEF SpClose, SpFiles, SpOpened, Opening, SpInv, BusInv
  <2>2. /\ IsFiniteSet(SpFiles') /\ Cardinality(SpFiles') = n - 1
        /\ IsFiniteSet(SpOpened') /\ Cardinality(SpOpened') = m - 1
    BY <1>1, <2>1, FS_RemoveElement
  <2>3. spRefs' = (n - 1) + (m - 1)
    BY <1>1, <1>7 DEF SpClose
  <2> HIDE DEF n, m, SpFiles, SpOpened
  <2> QED BY <1>7, <2>1, <2>2, <2>3 DEF RefInv, SpClose, spModule
<1>8. ASSUME NEW c \in SpCallers, SpCall(c) \/ Send(c) PROVE RefInv'
  <2>1. spPc[c] \notin {"closed", "opening", "reset"} /\ spPc'[c] \notin {"closed", "opening", "reset"}
    BY <1>8 DEF SpInv, BusInv, SpCall, Send, SpStep, SendEnable, SendSelect, SendShift, SendData,
       SendPoll, SendAnswer, SendUnshift, SendDeselect, SendDisable
  <2>2. \A d \in SpCallers : d # c => spPc'[d] = spPc[d]
    BY <1>8 DEF SpInv, BusInv, SpCall, Send, SpStep, SendEnable, SendSelect, SendShift, SendData,
       SendPoll, SendAnswer, SendUnshift, SendDeselect, SendDisable
  <2>3. UNCHANGED <<spModule, spRefs>>
    BY <1>8 DEF SpCall, Send, SpStep, SendEnable, SendSelect, SendShift, SendData,
       SendPoll, SendAnswer, SendUnshift, SendDeselect, SendDisable
  <2>4. SpFiles' = SpFiles /\ SpOpened' = SpOpened
    BY <2>1, <2>2 DEF SpFiles, SpOpened, Opening
  <2> QED BY <2>3, <2>4, SameRefs
<1> QED BY <1>2, <1>3, <1>4, <1>5, <1>6, <1>7, <1>8 DEF SpNext

LEMMA SpInitInv == SpInit => SpInv /\ RefInv
<1> SUFFICES ASSUME SpInit PROVE SpInv /\ RefInv
  OBVIOUS
<1>1. SpFiles = {} /\ SpOpened = {}
  BY DEF SpInit, SpFiles, SpOpened
<1>2. SpInv
  BY DEF SpInit, SpInv, BusInv, AloneInv, SpLabels
<1>3. RefInv
  BY <1>1, FS_EmptySet DEF SpInit, RefInv
<1> QED BY <1>2, <1>3

LEMMA SpStepInv == SpInv /\ [SpNext]_spVars => SpInv'
<1>1. SpInv /\ UNCHANGED spVars => SpInv'
  BY DEF spVars, spBus, SpInv, BusInv, AloneInv, InSend, Opening
<1> QED BY <1>1, SpLoadStep, SpOpenStep, SpFileStep, SendEnableStep, SendStep DEF SpNext, Send

\* spix.c 28-84 and 100-176: however many callers interleave on the bus, and
\* whatever fails while loading, bus and registrations are left in order.
THEOREM BusInOrder == SpSpec => []SpixSound
<1>1. SpInv /\ RefInv => SpixSound
  <2> SUFFICES ASSUME SpInv, RefInv PROVE SpixSound
    OBVIOUS
  <2>1. BusReleased
    BY DEF SpInv, BusInv, BusReleased, InSend, Opening
  <2>2. AloneSelected
    BY DEF SpInv, AloneInv, AloneSelected, InSend
  <2>3. NothingRegistered
    <3> DEFINE n == Cardinality(SpFiles)
               m == Cardinality(SpOpened)
    <3>1. n \in Nat /\ m \in Nat /\ (n = 0 <=> SpFiles = {}) /\ (SpOpened = {} => m = 0) /\ spRefs = n + m
      BY FS_CardinalityType, FS_EmptySet DEF RefInv
    <3>5. SpFiles = {} => SpOpened = {}
      BY DEF SpFiles, SpOpened
    <3> HIDE DEF n, m
    <3>2. spRefs = 0 <=> SpFiles = {}
      BY <3>1, <3>5
    <3>3. (\A c \in SpCallers : spPc[c] = "closed") <=> SpFiles = {}
      BY DEF SpFiles
    <3>4. spRefs > 0 => SpFiles # {}
      BY <3>1, <3>5
    <3> HIDE DEF SpFiles, SpOpened
    <3> QED BY <3>2, <3>3, <3>4 DEF NothingRegistered, RefInv
  <2> QED BY <2>1, <2>2, <2>3 DEF SpixSound
<1> QED BY SpInitInv, SpStepInv, RefStep, <1>1, PTL DEF SpSpec

(***************************************************************************)
(* mutex.c: the turn is handed over, whichever thread starts first.        *)
(***************************************************************************)

SemLabels == {"none", "failed", "down", "lock", "print", "unlock", "up", "done"}

\* The thread is behind its down; it has printed.
SemPast(t) == semPc[t] \in {"lock", "print", "unlock", "up", "done"}
SemPrinted(t) == semPc[t] \in {"unlock", "up", "done"}

\* What the semaphores say about the threads: sem1 is one until test2 has
\* taken it and again when test1 is done, sem2 between test2's end and test1's
\* turn; test1 has its turn after test2 only; and the order of printing.
SemIInv ==
  /\ semPc \in [Threads -> SemLabels]
  /\ sem \in [Threads -> {0, 1}]
  /\ sem[1] = IF SemPast(2) /\ semPc[1] # "done" THEN 0 ELSE 1
  /\ sem[2] = IF semPc[2] = "done" /\ ~SemPast(1) THEN 1 ELSE 0
  /\ SemPast(1) => semPc[2] = "done"
  /\ printed = IF SemPrinted(1) THEN <<2, 1>> ELSE IF SemPrinted(2) THEN <<2>> ELSE <<>>

LEMMA SemInitInv == SemInit => SemIInv
  BY DEF SemInit, SemIInv, Threads, SemLabels, SemPast, SemPrinted

LEMMA SecondPrint == Append(<<2>>, 1) = <<2, 1>>
<1> DEFINE s == Append(<<2>>, 1)
           u == <<2, 1>>
<1>1. s \in Seq(Nat) /\ u \in Seq(Nat) /\ Len(s) = 2 /\ Len(u) = 2
  OBVIOUS
<1>2. s[1] = 2 /\ s[2] = 1 /\ u[1] = 2 /\ u[2] = 1
  OBVIOUS
<1> QED
  <2> HIDE DEF s, u
  <2>1. \A i \in 1..Len(s) : s[i] = u[i]
    BY <1>1, <1>2
  <2>2. s = u
    BY <1>1, <2>1, SeqEqual
  <2> QED BY <2>2 DEF s, u

\* Each step of a thread keeps the invariant.
LEMMA SemStepInv == SemIInv /\ [SemNext]_semVars => SemIInv'
<1> USE DEF Threads, SemLabels, SemGoto, Waited, Signalled
<1> SUFFICES ASSUME SemIInv, [SemNext]_semVars PROVE SemIInv'
  OBVIOUS
<1>1. CASE UNCHANGED semVars
  BY <1>1 DEF semVars, SemIInv, SemPast, SemPrinted
<1>2. ASSUME NEW t \in Threads, Create(t) PROVE SemIInv'
  BY <1>2 DEF SemIInv, SemPast, SemPrinted, Create
<1>3. ASSUME NEW t \in Threads, Down(t) PROVE SemIInv'
  BY <1>3 DEF SemIInv, SemPast, SemPrinted, Down
<1>4. ASSUME NEW t \in Threads, Lock(t) PROVE SemIInv'
  BY <1>4 DEF SemIInv, SemPast, SemPrinted, Lock
<1>5. ASSUME NEW t \in Threads, PrintOut(t) PROVE SemIInv'
  <2>1. CASE t = 1
    <3>1. semPc[2] = "done" /\ printed = <<2>>
      BY <1>5, <2>1 DEF SemIInv, SemPast, SemPrinted, PrintOut
    <3>2. printed' = <<2, 1>>
      BY <1>5, <2>1, <3>1, SecondPrint DEF PrintOut
    <3> QED BY <1>5, <2>1, <3>1, <3>2 DEF SemIInv, SemPast, SemPrinted, PrintOut
  <2>2. CASE t = 2
    <3>1. ~SemPast(1) /\ printed = <<>>
      BY <1>5, <2>2 DEF SemIInv, SemPast, SemPrinted, PrintOut
    <3>2. printed' = <<2>>
      BY <1>5, <2>2, <3>1 DEF PrintOut
    <3> QED BY <1>5, <2>2, <3>1, <3>2 DEF SemIInv, SemPast, SemPrinted, PrintOut
  <2> QED BY <2>1, <2>2
<1>6. ASSUME NEW t \in Threads, Unlock(t) PROVE SemIInv'
  BY <1>6 DEF SemIInv, SemPast, SemPrinted, Unlock
<1>7. ASSUME NEW t \in Threads, Up(t) PROVE SemIInv'
  BY <1>7 DEF SemIInv, SemPast, SemPrinted, Up
<1> QED BY <1>1, <1>2, <1>3, <1>4, <1>5, <1>6, <1>7 DEF SemNext, SemStep

\* mutex.c: in every behaviour of the two threads, with either of them
\* created or not, test2 prints before test1.
THEOREM TurnHandedOver == SemSpec => []HandedOver
<1>1. SemIInv => HandedOver
  BY DEF SemIInv, HandedOver, SemPrinted
<1> QED BY SemInitInv, SemStepInv, <1>1, PTL DEF SemSpec

(***************************************************************************)
(* xnetdev.c, loading.                                                     *)
(***************************************************************************)

LEMMA LdInitInv == LdInit => LdInv
  BY DEF LdInit, LdInv, LdTypeOK, LoadSound

LEMMA LdStep == LdInv /\ [LdNext]_ldVars => LdInv'
<1> SUFFICES ASSUME LdInv, [LdNext]_ldVars PROVE LdInv'
  OBVIOUS
<1> USE DEF LdInv, LdTypeOK, LoadSound
<1>1. CASE UNCHANGED ldVars
  BY <1>1 DEF ldVars
<1>2. CASE LdAlloc \/ LdRefused \/ LdRegistered
  BY <1>2 DEF LdAlloc, LdRefused, LdRegistered
<1>3. CASE LdProbe
  BY <1>3 DEF LdProbe
\* what needs the entry points or the data finds them, or another chip
<1>4. CASE LdXmit \/ LdInterrupt
  BY <1>4 DEF LdXmit, LdInterrupt, UsesPriv
\* the interface goes up and down with its handler, and down before the data go
<1>5. CASE LdUp
  BY <1>5 DEF LdUp
<1>6. CASE LdDown \/ LdUnregister
  BY <1>6 DEF LdDown, LdUnregister, LdStop
<1>7. CASE LdFree
  BY <1>7 DEF LdFree, UsesPriv
<1> QED BY <1>1, <1>2, <1>3, <1>4, <1>5, <1>6, <1>7 DEF LdNext

\* xnetdev.c 74-129 and 430-454: with a DM9000 in its place and enough memory no
\* sequence of loading, traffic and unloading makes the kernel fault, and the
\* handler never runs without the driver's data.
THEOREM LoadNeverFaults == LdSpec => []LoadSound
<1>1. LdInv => LoadSound
  BY DEF LdInv
<1> QED BY LdInitInv, LdStep, <1>1, PTL DEF LdSpec

(***************************************************************************)
(* mytimer.txt                                                             *)
(***************************************************************************)

LEMMA TmInitType == TmInit => TmTypeOK
<1> SUFFICES ASSUME TmInit PROVE TmTypeOK
  OBVIOUS
<1>1. tmSlept \in [TmReaders -> 0..TmDelay] /\ tmLeft \in 0..TmDelay
  BY TmDelayAssumption DEF TmInit
<1>2. tmPc \in [TmReaders -> {"idle", "wait", "clear", "delete", "return"}]
  BY DEF TmInit
<1>3. tmSignalled \in [TmReaders -> BOOLEAN] /\ tmStale \in [TmReaders -> BOOLEAN]
  BY DEF TmInit
<1> QED BY <1>1, <1>2, <1>3 DEF TmInit, TmTypeOK

LEMMA TmTypeStep == TmTypeOK /\ [TmNext]_tmVars => TmTypeOK'
<1> USE TmDelayAssumption DEF TmTypeOK
<1> SUFFICES ASSUME TmTypeOK, [TmNext]_tmVars PROVE TmTypeOK'
  OBVIOUS
<1>1. CASE UNCHANGED tmVars
  BY <1>1 DEF tmVars, tmHistory
<1>2. CASE TmLoad \/ TmUnload
  BY <1>2 DEF TmLoad, TmUnload, tmHistory
<1>3. CASE TmClock
  <2>1. tmSlept' \in [TmReaders -> 0..TmDelay]
    BY <1>3 DEF TmClock, TmTick, TmCallback, Slept
  <2> QED BY <1>3, <2>1 DEF TmClock, TmTick, TmCallback
<1>4. ASSUME NEW r \in TmReaders, TmArm(r) PROVE TmTypeOK'
  <2>1. tmPc' \in [TmReaders -> {"idle", "wait", "clear", "delete", "return"}]
    BY <1>4 DEF TmArm, TmGoto
  <2>2. tmSlept' \in [TmReaders -> 0..TmDelay]
    BY <1>4 DEF TmArm
  <2>3. tmLeft' \in 0..TmDelay
    BY <1>4 DEF TmArm
  <2>5. tmBroken' \in BOOLEAN
    BY <1>4 DEF TmArm
  <2>4. tmSignalled' \in [TmReaders -> BOOLEAN] /\ tmStale' \in [TmReaders -> BOOLEAN]
    BY <1>4, Zenon DEF TmArm
  <2> QED BY <1>4, <2>1, <2>2, <2>3, <2>4, <2>5 DEF TmArm
<1>5. ASSUME NEW r \in TmReaders, TmSignal(r) \/ TmWork(r) PROVE TmTypeOK'
  <2>1. tmPc' \in [TmReaders -> {"idle", "wait", "clear", "delete", "return"}]
    BY <1>5 DEF TmSignal, TmWork, TmWake, TmClear, TmDelete, TmReturn, TmGoto
  <2>2. UNCHANGED <<tmBroken, tmModule, tmSlept, tmStale>>
    BY <1>5 DEF TmSignal, TmWork, TmWake, TmClear, TmDelete, TmReturn, tmHistory
  <2>3. flag' \in {0, flag} /\ tmLeft' \in {0, tmLeft}
    BY <1>5 DEF TmSignal, TmWork, TmWake, TmClear, TmDelete, TmReturn
  <2>4. tmSignalled' = [tmSignalled EXCEPT ![r] = TRUE] \/ tmSignalled' = tmSignalled
    BY <1>5 DEF TmSignal, TmWork, TmWake, TmClear, TmDelete, TmReturn, tmHistory
  <2>5. tmSignalled' \in [TmReaders -> BOOLEAN]
    BY <2>4
  <2>6. flag' \in {0, 1} /\ tmLeft' \in 0..TmDelay
    BY <2>3
  <2>7. /\ tmBroken' \in BOOLEAN /\ tmModule' \in {"out", "in", "hollow"}
        /\ tmSlept' \in [TmReaders -> 0..TmDelay] /\ tmStale' \in [TmReaders -> BOOLEAN]
    BY <2>2
  <2> QED BY <2>1, <2>5, <2>6, <2>7
<1> QED BY <1>1, <1>2, <1>3, <1>4, <1>5 DEF TmNext

\* A wait of r that began with the flag down and that no signal has ended: while it
\* sleeps, whatever timer is pending, its own or a later one, goes off no sooner
\* than its delay is over, and the flag can be up only after that.
WaitInv(r) ==
  ~tmSignalled[r] /\ ~tmStale[r] =>
    /\ tmPc[r] = "wait" /\ ~tmBroken => /\ tmLeft > 0 => tmSlept[r] + tmLeft >= TmDelay
                                        /\ flag = 1 => tmSlept[r] = TmDelay
    /\ tmPc[r] \in {"clear", "delete", "return"} => tmSlept[r] = TmDelay

TmInv == TmTypeOK /\ \A r \in TmReaders : WaitInv(r)

LEMMA WaitStep ==
  ASSUME TmTypeOK, NEW r \in TmReaders, WaitInv(r), [TmNext]_tmVars
  PROVE  WaitInv(r)'
<1> USE TmDelayAssumption DEF TmTypeOK, WaitInv
<1>1. CASE UNCHANGED tmVars
  BY <1>1 DEF tmVars, tmHistory
<1>2. CASE TmLoad \/ TmUnload
  BY <1>2 DEF TmLoad, TmUnload, tmHistory
<1>3. CASE TmClock
  <2>1. tmSlept'[r] = IF tmSlept[r] < TmDelay THEN tmSlept[r] + 1 ELSE TmDelay
    BY <1>3 DEF TmClock, TmTick, TmCallback, Slept
  <2> QED BY <1>3, <2>1 DEF TmClock, TmTick, TmCallback
<1>4. ASSUME NEW s \in TmReaders, TmArm(s) PROVE WaitInv(r)'
  \* its own timer is new, and another's has the full delay before it
  <2>1. CASE s = r
    <3>1. tmPc'[r] = "wait" /\ tmSlept'[r] = 0 /\ flag' = flag
      BY <1>4, <2>1 DEF TmArm, TmGoto
    <3>3. ~tmStale'[r] => flag = 0
      BY <1>4, <2>1, Zenon DEF TmArm
    <3>2. tmBroken' \/ tmLeft' = TmDelay
      BY <1>4 DEF TmArm
    <3> QED BY <3>1, <3>2, <3>3
  <2>2. CASE s # r
    <3>1. /\ tmPc'[r] = tmPc[r] /\ tmSlept'[r] = tmSlept[r] /\ tmStale'[r] = tmStale[r]
          /\ tmSignalled'[r] = tmSignalled[r] /\ flag' = flag /\ ~tmBroken
      BY <1>4, <2>2 DEF TmArm, TmGoto
    <3>2. tmBroken' \/ tmLeft' = TmDelay
      BY <1>4 DEF TmArm
    <3>3. tmSlept[r] + TmDelay >= TmDelay
      OBVIOUS
    <3> QED BY <3>1, <3>2, <3>3
  <2> QED BY <2>1, <2>2
<1>5. ASSUME NEW s \in TmReaders, TmSignal(s) PROVE WaitInv(r)'
  BY <1>5 DEF TmSignal, TmGoto
<1>6. ASSUME NEW s \in TmReaders, TmWork(s) PROVE WaitInv(r)'
  BY <1>6 DEF TmWork, TmWake, TmClear, TmDelete, TmReturn, TmGoto, tmHistory
<1> QED BY <1>1, <1>2, <1>3, <1>4, <1>5, <1>6 DEF TmNext

\* "read does not read at once but after a time" (mytimer.txt): for any number of
\* readers and however their lines mix, a read that no signal has ended is early
\* only if the flag of an earlier callback was up when it set its timer.  Without
\* that exception it is not so: the run timer_early.
THEOREM EarlyReadIsStale == TmSpec => []EarlyOnlyIfStale
<1>1. TmInit => TmInv
  BY TmInitType DEF TmInit, TmInv, WaitInv
<1>2. TmInv /\ [TmNext]_tmVars => TmInv'
  BY TmTypeStep, WaitStep DEF TmInv
<1>3. TmInv => EarlyOnlyIfStale
  BY DEF TmInv, WaitInv, EarlyOnlyIfStale
<1> QED BY <1>1, <1>2, <1>3, PTL DEF TmSpec
============================================================================
