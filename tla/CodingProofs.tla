---------------------------- MODULE CodingProofs ----------------------------
(***************************************************************************)
(* The programs of static/coding together, as MCCoding runs them: each     *)
(* keeps its types, a behaviour of them all is a behaviour of each, and so *)
(* what DriverProofs, ProgramProofs and XKeyDevProofs prove of each one    *)
(* holds in what TLC runs.                                                 *)
(***************************************************************************)
EXTENDS MCCoding, DriverProofs, ProgramProofs, XKeyDevProofs

(***************************************************************************)
(* A behaviour of all the programs is one of each.                         *)
(***************************************************************************)
LEMMA EachInit ==
  Init => /\ KeyInit /\ SemInit /\ LetInit /\ TmInit /\ CatInit /\ RssInit
          /\ DaeInit /\ SpInit /\ AdInit /\ LedInit /\ BmpInit /\ LdInit
BY DEF Init

\* A step is one of the program that moves; the others stutter.
LEMMA EachStep ==
  ASSUME [Next]_vars
  PROVE  /\ [KeyNext]_keyVars /\ [SemNext]_semVars /\ [LetNext]_letVars /\ [TmNext]_tmVars
         /\ [CatNext]_catVars /\ [RssNext]_rssVars /\ [DaeNext]_daeVars /\ [SpNext]_spVars
         /\ [AdNext]_adVars /\ [LedNext]_ledVars /\ [BmpNext]_bmpVars /\ [LdNext]_ldVars
<1>1. CASE UNCHANGED vars
  BY <1>1 DEF vars
<1>2. CASE (KeyNext /\ only_key) \/ (SemNext /\ only_sem) \/ (LetNext /\ only_let)
  BY <1>2 DEF only_key, only_sem, only_let
<1>3. CASE (TmNext /\ only_timer) \/ (CatNext /\ only_cat) \/ (RssNext /\ only_rss)
  BY <1>3 DEF only_timer, only_cat, only_rss
<1>4. CASE (DaeNext /\ only_daemon) \/ (SpNext /\ only_spix) \/ (AdNext /\ only_ad)
  BY <1>4 DEF only_daemon, only_spix, only_ad
<1>5. CASE (LedNext /\ only_led) \/ (BmpNext /\ only_bmp) \/ (LdNext /\ only_load)
  BY <1>5 DEF only_led, only_bmp, only_load
<1>6. QED
  BY <1>1, <1>2, <1>3, <1>4, <1>5 DEF Next

\* The programs share no state: a behaviour of MCCoding is one of every program,
\* whatever the others do.
LEMMA ProgramsApart ==
  Spec => /\ KeySpec /\ SemSpec /\ LetSpec /\ TmSpec /\ CatSpec /\ RssSpec
          /\ DaeSpec /\ SpSpec /\ AdSpec /\ LedSpec /\ BmpSpec /\ LdSpec
BY EachInit, EachStep, PTL
   DEF Spec, KeySpec, SemSpec, LetSpec, TmSpec, CatSpec, RssSpec,
       DaeSpec, SpSpec, AdSpec, LedSpec, BmpSpec, LdSpec

(***************************************************************************)
(* Types: the programs of which no other proof has needed them all.        *)
(***************************************************************************)
LEMMA KeyTypes == KeySpec => []KeyTypeOK
BY TypeInit, TypeStep, PTL DEF KeySpec

LEMMA SemTypes == SemSpec => []SemTypeOK
<1> DEFINE Inv == SemIInv /\ mut1 \in {0} \cup Threads
<1>1. SemInit => Inv
  BY SemInitInv DEF SemInit
<1>2. Inv /\ [SemNext]_semVars => Inv'
  <2> SUFFICES ASSUME Inv, [SemNext]_semVars PROVE mut1' \in {0} \cup Threads
    BY SemStepInv DEF Threads
  <2>1. CASE UNCHANGED semVars
    BY <2>1 DEF semVars
  <2>2. ASSUME NEW t \in Threads, SemStep(t) PROVE mut1' \in {0, mut1, t}
    BY <2>2 DEF SemStep, Create, Down, Lock, PrintOut, Unlock, Up
  <2> QED BY <2>1, <2>2 DEF SemNext
<1>3. Inv => SemTypeOK
  BY DEF SemIInv, SemLabels, SemTypeOK
<1> QED BY <1>1, <1>2, <1>3, PTL DEF SemSpec

LEMMA LetTypes == LetSpec => []LetTypeOK
<1> DEFINE Kinds == /\ letPhase \in {"out", "loading", "up", "killing", "killed"}
                    /\ letSched \in {"no", "queued", "held"}
                    /\ mycount \in 0..10
           Flags == letIrq \in BOOLEAN /\ letRunning \in BOOLEAN /\ letLate \in BOOLEAN
<1>1. LetInit => Kinds /\ Flags
  <2>1. LetInit => Kinds
    BY DEF LetInit
  <2>2. LetInit => Flags
    BY DEF LetInit
  <2> QED BY <2>1, <2>2
<1>2. Kinds /\ [LetNext]_letVars => Kinds'
  <2> SUFFICES ASSUME Kinds, [LetNext]_letVars PROVE Kinds'
    OBVIOUS
  <2>1. CASE UNCHANGED letVars
    BY <2>1 DEF letVars
  <2>2. CASE LetLoad \/ LetRequest \/ LetFreeIrq \/ MyInterrupt \/ MyletBegin \/ LetKill \/ LetKilled
    BY <2>2 DEF LetLoad, LetRequest, LetFreeIrq, MyInterrupt, MyletBegin, LetKill, LetKilled
  <2>3. CASE MyletEnd
    BY <2>3 DEF MyletEnd
  <2> QED BY <2>1, <2>2, <2>3 DEF LetNext
<1>3. Flags /\ [LetNext]_letVars => Flags'
  <2> SUFFICES ASSUME Flags, [LetNext]_letVars PROVE Flags'
    OBVIOUS
  <2>1. CASE UNCHANGED letVars
    BY <2>1 DEF letVars
  <2>2. CASE LetLoad \/ LetRequest \/ LetFreeIrq
    BY <2>2 DEF LetLoad, LetRequest, LetFreeIrq
  <2>3. CASE MyInterrupt
    BY <2>3 DEF MyInterrupt
  <2>4. CASE MyletBegin \/ MyletEnd
    BY <2>4 DEF MyletBegin, MyletEnd
  <2>5. CASE LetKill \/ LetKilled
    BY <2>5 DEF LetKill, LetKilled
  <2> QED BY <2>1, <2>2, <2>3, <2>4, <2>5 DEF LetNext
<1>4. Kinds /\ Flags => LetTypeOK
  BY DEF LetTypeOK
<1> QED BY <1>1, <1>2, <1>3, <1>4, PTL DEF LetSpec

LEMMA TmTypes == TmSpec => []TmTypeOK
BY TmInitType, TmTypeStep, PTL DEF TmSpec

\* counts and what a caller has read of it stay behind the calls, of which the
\* bound allows no more.
LEMMA CatTypes == CatSpec => []CatTypeOK
<1> DEFINE Bounded == /\ catOops \in BOOLEAN /\ catOld \in {"none", "sys"}
                      /\ catCalls <= CatMaxCalls
                      /\ catTmp \in [CatCallers -> 0..CatMaxCalls]
           Inv == CatInv /\ Bounded
<1>1. CatInv => counts \in Nat /\ catCalls \in Nat /\ counts <= catCalls
  <2> SUFFICES ASSUME CatInv PROVE counts <= catCalls
    BY DEF CatInv, CountInv
  <2>1. Cardinality(Pending) \in Nat
    BY FS_CardinalityType DEF CatInv, CountInv
  <2> HIDE DEF Pending
  <2> QED BY <2>1 DEF CatInv, CountInv
<1>2. CatInit => Inv
  <2> SUFFICES ASSUME CatInit PROVE Inv
    OBVIOUS
  <2>1. catOops \in BOOLEAN /\ catOld \in {"none", "sys"}
    BY DEF CatInit
  <2>2. catCalls <= CatMaxCalls /\ catTmp \in [CatCallers -> 0..CatMaxCalls]
    BY CatAssumption DEF CatInit
  <2> QED BY <2>1, <2>2, CatInitInv
<1>3. Inv /\ [CatNext]_catVars => Bounded'
  <2> SUFFICES ASSUME CatInv, Bounded, [CatNext]_catVars PROVE Bounded'
    OBVIOUS
  <2>1. CASE UNCHANGED catVars
    BY <2>1 DEF catVars
  <2>2. CASE CatLoad
    BY <2>2, CatAssumption DEF CatLoad, CatInv, TableInv
  <2>3. CASE CatUnload
    BY <2>3 DEF CatUnload
  <2>4. ASSUME NEW c \in CatCallers, CatCall(c) PROVE Bounded'
    BY <2>4, <1>1, CatAssumption DEF CatCall, CatGoto, catModule
  <2>5. ASSUME NEW c \in CatCallers, CountRead(c) PROVE Bounded'
    <3>1. counts \in 0..CatMaxCalls
      BY <1>1, CatAssumption
    <3>2. catTmp' \in [CatCallers -> 0..CatMaxCalls]
      BY <2>5, <3>1 DEF CountRead
    <3> QED BY <2>5, <3>2 DEF CountRead, catModule
  <2>6. ASSUME NEW c \in CatCallers, CountWrite(c) \/ CallOld(c) \/ CatReturn(c) PROVE Bounded'
    BY <2>6 DEF CountWrite, CallOld, CatReturn, catModule
  <2> QED BY <2>1, <2>2, <2>3, <2>4, <2>5, <2>6 DEF CatNext
<1>4. Inv => CatTypeOK
  <2> SUFFICES ASSUME CatInv, Bounded PROVE CatTypeOK
    OBVIOUS
  <2>1. counts \in 0..CatMaxCalls /\ catCalls \in 0..CatMaxCalls
    BY <1>1, CatAssumption
  <2>2. catEntry \in {"sys", "audit"}
    BY DEF CatInv, TableInv
  <2> QED BY <2>1, <2>2 DEF CatInv, TableInv, CatLabels, CatTypeOK
<1> QED BY <1>2, <1>3, <1>4, CatStep, PTL DEF CatSpec

LEMMA RssTypes == RssSpec => []RssTypeOK
<1> DEFINE Rest == /\ rssDir \in {"there", "absent", "denied", "empty"}
                   /\ rssRuns \in 0..RssMaxRuns /\ rssCut \subseteq Files
<1>1. RssInit => Rest
  BY RssFilesAssumption DEF RssInit
<1>2. RssInv /\ Rest /\ [RssNext]_rssVars => Rest'
  <2> SUFFICES ASSUME RssInv, Rest, [RssNext]_rssVars PROVE Rest'
    OBVIOUS
  <2>1. CASE UNCHANGED rssVars
    BY <2>1 DEF rssVars, Files
  <2>2. CASE RssStart
    BY <2>2, RssFilesAssumption DEF RssStart, Files
  <2>3. ASSUME NEW p \in Procs, RssWork(p) PROVE Rest'
    BY <2>3 DEF RssWork, Opendir, Fork, ForkFails, RssEnd, ReadUrl, Fetch, Rewrite, WriteUrl,
                WriteItems, Files
  <2>4. ASSUME NEW p \in Procs, Dies(p) PROVE Rest'
    <3>1. rssPc[p] = "write" => rssAt[p] \in Files
      BY DEF RssInv, RssAtInv, Procs
    <3> QED BY <2>4, <3>1 DEF Dies, Files
  <2>5. ASSUME NEW p \in Procs, Receive(p) PROVE Rest'
    BY <2>5 DEF Receive, Files
  <2> QED BY <2>1, <2>2, <2>3, <2>4, <2>5 DEF RssNext
<1>3. RssInv /\ Rest => RssTypeOK
  BY DEF RssInv, RssTypeInv, RssLabels, RssTypeOK
<1> QED BY <1>1, <1>2, <1>3, RssInitInv, RssStepInv, PTL DEF RssSpec

LEMMA DaeTypes == DaeSpec => []DaeTypeOK
<1>1. DaeInv => DaeTypeOK
  BY DEF DaeInv, DaeLabels, DaeTypeOK
<1> QED BY DaeInitInv, DaeStep, <1>1, PTL DEF DaeSpec

\* tim runs from 6 to 0 and is not decremented any further.
LEMMA SpTypes == SpSpec => []SpTypeOK
<1> DEFINE Polls == /\ spTim \in [SpCallers -> 0..6]
                    /\ \A c \in SpCallers :
                         spPc[c] \in {"select", "shift", "data", "poll"} => spTim[c] > 0
           Flags == /\ spDev \in BOOLEAN /\ spDrv \in BOOLEAN /\ spMisc \in BOOLEAN
                    /\ spWrite \in BOOLEAN /\ spSel \in BOOLEAN
                    /\ spShift \in BOOLEAN /\ spBusy \in BOOLEAN
<1>1. SpInit => Polls /\ Flags
  <2>1. SpInit => Polls
    BY DEF SpInit
  <2>2. SpInit => Flags
    BY DEF SpInit
  <2> QED BY <2>1, <2>2
<1>2. SpInv /\ Polls /\ [SpNext]_spVars => Polls'
  <2> SUFFICES ASSUME SpInv, Polls, [SpNext]_spVars PROVE Polls'
    OBVIOUS
  <2>1. CASE UNCHANGED spVars \/ SpLoad \/ SpDriver \/ SpUnloadDriver \/ SpUnloadDevice \/ SpChip
    BY <2>1 DEF spVars, SpLoad, SpDriver, SpUnloadDriver, SpUnloadDevice, SpChip
  <2>2. ASSUME NEW c \in SpCallers, SpOpen(c) \/ SpReset(c) \/ SpReady(c) \/ SpClose(c) \/ SpCall(c)
        PROVE  Polls'
    BY <2>2 DEF SpInv, BusInv, SpOpen, SpReset, SpReady, SpClose, SpCall
  <2>3. ASSUME NEW c \in SpCallers, SendEnable(c) PROVE Polls'
    BY <2>3 DEF SpInv, BusInv, SendEnable, SpStep
  <2>4. ASSUME NEW c \in SpCallers, SendPoll(c) PROVE Polls'
    <3>1. spPc[c] = "poll" /\ spTim[c] \in 1..6
      BY <2>4 DEF SendPoll, SpStep
    <3>2. /\ spTim' = [spTim EXCEPT ![c] = spTim[c] - 1]
          /\ \/ spPc' = [spPc EXCEPT ![c] = "poll"] /\ spTim[c] > 1
             \/ spPc' = [spPc EXCEPT ![c] = "answer"]
      BY <2>4 DEF SendPoll, SpStep
    <3> QED BY <3>1, <3>2 DEF SpInv, BusInv
  <2>5. ASSUME NEW c \in SpCallers,
               SendSelect(c) \/ SendShift(c) \/ SendData(c) \/ SendAnswer(c)
                 \/ SendUnshift(c) \/ SendDeselect(c) \/ SendDisable(c)
        PROVE  Polls'
    <3>1. spTim' = spTim
      BY <2>5 DEF SendSelect, SendShift, SendData, SendAnswer, SendUnshift, SendDeselect, SendDisable
    <3>2. \A d \in SpCallers : spPc'[d] \in {"select", "shift", "data", "poll"} =>
                               spPc[d] \in {"select", "shift", "data", "poll"}
      BY <2>5 DEF SpInv, BusInv, SpStep, SendSelect, SendShift, SendData, SendAnswer, SendUnshift,
                  SendDeselect, SendDisable
    <3> QED BY <3>1, <3>2
  <2> QED BY <2>1, <2>2, <2>3, <2>4, <2>5 DEF SpNext, Send
<1>3. Flags /\ [SpNext]_spVars => Flags'
  <2> SUFFICES ASSUME Flags, [SpNext]_spVars PROVE Flags'
    OBVIOUS
  <2>1. CASE UNCHANGED spVars
    BY <2>1 DEF spVars, spModule, spBus
  <2>2. CASE SpLoad \/ SpDriver \/ SpUnloadDriver \/ SpUnloadDevice \/ SpChip
    BY <2>2 DEF SpLoad, SpDriver, SpUnloadDriver, SpUnloadDevice, SpChip, spBus, spModule
  <2>3. ASSUME NEW c \in SpCallers, SpOpen(c) \/ SpReset(c) \/ SpReady(c) \/ SpClose(c) \/ SpCall(c)
        PROVE  Flags'
    BY <2>3 DEF SpOpen, SpReset, SpReady, SpClose, SpCall, spBus, spModule
  <2>4. ASSUME NEW c \in SpCallers, Send(c) PROVE Flags'
    BY <2>4 DEF Send, SendEnable, SendSelect, SendShift, SendData, SendPoll, SendAnswer, SendUnshift,
                SendDeselect, SendDisable, SpStep, spModule
  <2> QED BY <2>1, <2>2, <2>3, <2>4 DEF SpNext
<1>4. SpInv /\ RefInv /\ Polls /\ Flags => SpTypeOK
  <2> SUFFICES ASSUME SpInv, RefInv, Polls, Flags PROVE SpTypeOK
    OBVIOUS
  <2>1. spRefs \in Nat
    BY FS_CardinalityType DEF RefInv
  <2>2. \A c \in SpCallers : InSend(c) \/ Opening(c) \/ spPc[c] \in {"closed", "open", "bytes"}
    BY DEF SpInv, BusInv, SpLabels, InSend, Opening
  <2> QED BY <2>1, <2>2 DEF SpInv, BusInv, RefInv, SpTypeOK
<1> QED BY <1>1, <1>2, <1>3, <1>4, SpInitInv, SpStepInv, RefStep, PTL DEF SpSpec

LEMMA AdTypes == AdSpec => []AdTypeOK
BY AdInitInv, AdStep, PTL DEF AdSpec, AdInv

LEMMA LedTypes == LedSpec => []LedTypeOK
<1> DEFINE Shown == /\ ledPort \in 0..255 /\ ledLast \in {-1} \cup LedChars
                    /\ ledStat \in {"port", "user"}
           Touched == ledTouched \in BOOLEAN
<1>1. LedInit => Shown
  BY DEF LedInit
<1>2. LedUseInv /\ Shown /\ [LedNext]_ledVars => Shown'
  <2> SUFFICES ASSUME LedUseInv, Shown, [LedNext]_ledVars PROVE Shown'
    OBVIOUS
  <2>1. CASE UNCHANGED ledVars
    BY <2>1 DEF ledVars, ledLamps
  <2>2. CASE LedModule
    BY <2>2 DEF LedModule, LedIo, LedMakeDir, LedMakeFile, LedSetData, LedSetOps, LedRemove, LedIoExit,
                LedFree, ledLamps
  <2>3. ASSUME NEW p \in LedUsers,
               \/ LedOpen(p) \/ LedClose(p) \/ LedReadPort(p) \/ LedReadStat(p) \/ LedFaults(p)
               \/ \E ch \in LedChars : LedCopy(p, ch)
        PROVE  Shown'
    BY <2>3 DEF LedOpen, LedClose, LedReadPort, LedReadStat, LedFaults, LedCopy, ledLamps
  <2>4. ASSUME NEW p \in LedUsers, LedWrite(p) PROVE Shown'
    <3>1. ledCh[p] \in LedChars
      BY <2>4 DEF LedUseInv, LedWrite, LedAt
    <3>2. LedCode(ledCh[p]) \in Nat
      BY <3>1, LedCharsAssumption DEF LedCode
    <3>3. (LedCode(ledCh[p]) * 16) % 256 \in 0..255
      BY <3>2
    <3> QED BY <2>4, <3>1, <3>3 DEF LedWrite
  <2> QED BY <2>1, <2>2, <2>3, <2>4 DEF LedNext
<1>3. LedInit => Touched
  BY DEF LedInit
<1>4. Touched /\ [LedNext]_ledVars => Touched'
  <2> SUFFICES ASSUME Touched, [LedNext]_ledVars PROVE Touched'
    OBVIOUS
  <2>1. CASE ledTouched' = ledTouched
    BY <2>1
  <2>2. CASE LedIo
    BY <2>2 DEF LedIo
  <2>3. ASSUME NEW p \in LedUsers, LedWrite(p) PROVE Touched'
    BY <2>3, Zenon DEF LedWrite
  <2>4. UNCHANGED ledTouched \/ LedIo \/ \E p \in LedUsers : LedWrite(p)
    BY DEF ledVars, ledLamps, LedNext, LedModule, LedMakeDir, LedMakeFile, LedSetData, LedSetOps, LedRemove,
           LedIoExit, LedFree, LedOpen, LedClose, LedReadPort, LedReadStat, LedFaults, LedCopy
  <2> QED BY <2>1, <2>2, <2>3, <2>4
<1>5. LedInv /\ LedUseInv /\ Shown /\ Touched => LedTypeOK
  <2> SUFFICES ASSUME LedInv, LedUseInv, Shown, Touched PROVE LedTypeOK
    OBVIOUS
  <2>5. {0} \cup LedChars \subseteq 0..255
    BY LedCharsAssumption
  <2>6. ledCh \in [LedUsers -> {0} \cup LedChars] /\ ledHeld \subseteq LedUsers
    BY DEF LedUseInv
  <2>1. ledCh \in [LedUsers -> 0..255] /\ ledHeld \subseteq LedUsers
    BY <2>5, <2>6
  <2>2. {ledDir, ledFile, ledHasData, ledHasOps} \subseteq BOOLEAN
    BY DEF LedInv
  <2>4. {ledDir, ledFile, ledHasData, ledHasOps, ledTouched} \subseteq BOOLEAN
    BY <2>2, Zenon
  <2>3. ledPc \in [LedUsers -> {"closed", "open", "copied", "reading", "dangling", "fault"}]
    BY DEF LedUseInv
  <2> QED BY <2>1, <2>3, <2>4 DEF LedInv, LedTypeOK
<1> QED BY <1>1, <1>2, <1>3, <1>4, <1>5, LedInitInv, LedStep, PTL DEF LedSpec

LEMMA BmpTypes == BmpSpec => []BmpTypeOK
<1> DEFINE Sizes == /\ ImgWidth \in 0..BmpMaxWidth /\ ImgHeight \in 0..BmpMaxHeight
                    /\ bmpPc \in {"malloc", "row", "end"} /\ bmpOut \in Nat
<1>1. BmpInit => Sizes
  BY DEF BmpInit
<1>2. Sizes /\ [BmpNext]_bmpVars => Sizes'
  BY DEF BmpNext, BmpMalloc, BmpPixel, BmpRowEnd, BmpEnd, bmpVars
<1>3. BmpInv /\ Sizes => BmpTypeOK
  BY DEF BmpInv, BmpTypeOK
<1> QED BY <1>1, <1>2, <1>3, BmpInitInv, BmpStep, PTL DEF BmpSpec

LEMMA LdTypes == LdSpec => []LdTypeOK
<1>1. LdInv => LdTypeOK
  BY DEF LdInv
<1> QED BY LdInitInv, LdStep, <1>1, PTL DEF LdSpec

\* Types, however long the programs run and for any number of callers: use counts
\* are not negative, SPI's polls do not run below zero, what the lamps' port gets
\* is a byte, and the wrapper's counter stays within the calls made.
THEOREM TypesKept == Spec => []CodingTypeOK
BY ProgramsApart, KeyTypes, SemTypes, LetTypes, TmTypes, CatTypes, RssTypes, DaeTypes, SpTypes,
   AdTypes, LedTypes, BmpTypes, LdTypes, PTL DEF CodingTypeOK

\* In the behaviours that TLC explores, where each program may be the one to move,
\* every program keeps what is proved of it alone.
THEOREM ProgramsSafe ==
  Spec => [](/\ HandedOver /\ EarlyOnlyIfStale /\ KeyAccounted /\ OpenHears /\ GoneIsQuiet
             /\ WrapperSound /\ RssSound /\ DaemonSound /\ SpixSound /\ AdSound /\ LedSound /\ BmpSound /\ LoadSound)
BY ProgramsApart, TurnHandedOver, EarlyReadIsStale, KeysAccounted, FilesHear, TaskletGone, WrapperTransparent,
   FeedsSound, OneDaemonOnly, BusInOrder, AdValuesFresh, LedsShow, PixelsInPlace, LoadNeverFaults, PTL
============================================================================
