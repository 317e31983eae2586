--------------------------- MODULE XKeyDevProofs ---------------------------
(* XKeyDev for any number of lines and files: what becomes of a key that   *)
(* is pressed while reads are under way, and that files hear every line    *)
(* until another's close or failed open disables it.                       *)
EXTENDS XKeyDev, FiniteSetTheorems, TLAPS

LEMMA TypeInit == KeyInit => KeyTypeOK
<1> SUFFICES ASSUME KeyInit PROVE KeyTypeOK
  OBVIOUS
<1>1. keyActions \in [KeyLines -> Nat] /\ keyOff \in [KeyLines -> BOOLEAN]
  BY DEF KeyInit
<1>2. keyPc \in [KeyFiles -> {"idle", "wait", "clear", "copy", "zero"}]
  BY DEF KeyInit
<1> QED BY <1>1, <1>2 DEF KeyInit, KeyTypeOK

\* Handlers per line stay natural numbers.
LEMMA RequestedType ==
  ASSUME KeyTypeOK, NEW lines
  PROVE  /\ Requested(lines).acts \in [KeyLines -> Nat]
         /\ Requested(lines).off \in [KeyLines -> BOOLEAN]
  BY DEF KeyTypeOK, Requested

LEMMA FreedType ==
  ASSUME NEW acts \in [KeyLines -> Nat], DisableAndFree(acts)
  PROVE  keyActions' \in [KeyLines -> Nat] /\ keyOff' \in [KeyLines -> BOOLEAN]
  BY DEF DisableAndFree

LEMMA TypeStep == KeyTypeOK /\ [KeyNext]_keyVars => KeyTypeOK'
<1> SUFFICES ASSUME KeyTypeOK, [KeyNext]_keyVars PROVE KeyTypeOK'
  OBVIOUS
<1>1. CASE UNCHANGED keyVars
  BY <1>1 DEF keyVars, KeyTypeOK
<1>2. CASE KeyLoad \/ KeyUnload
  BY <1>2 DEF KeyTypeOK, KeyLoad, KeyUnload
<1>3. ASSUME NEW i \in KeyLines, KeyInterrupt(i) PROVE KeyTypeOK'
  BY <1>3 DEF KeyTypeOK, KeyInterrupt, keyIrqVars
<1>4. ASSUME NEW f \in KeyFiles, KeyOpened(f) PROVE KeyTypeOK'
  BY <1>4, RequestedType DEF KeyTypeOK, KeyOpened
<1>5. ASSUME NEW f \in KeyFiles, KeyOpenFails(f) PROVE KeyTypeOK'
  BY <1>5, RequestedType, FreedType DEF KeyTypeOK, KeyOpenFails
<1>6. ASSUME NEW f \in KeyFiles, KeyClose(f) PROVE KeyTypeOK'
  BY <1>6, FreedType DEF KeyTypeOK, KeyClose
<1>7. ASSUME NEW f \in KeyFiles, ReadEnter(f) \/ ReadSignal(f) \/ ReadWake(f) PROVE KeyTypeOK'
  BY <1>7 DEF KeyTypeOK, ReadEnter, ReadSignal, ReadWake, KeyGoto, keyIrqVars
<1>8. ASSUME NEW f \in KeyFiles, ReadClear(f) \/ ReadCopy(f) \/ ReadZero(f) PROVE KeyTypeOK'
  BY <1>8 DEF KeyTypeOK, ReadClear, ReadCopy, ReadZero, KeyGoto, keyIrqVars
<1> QED BY <1>1, <1>2, <1>3, <1>4, <1>5, <1>6, <1>7, <1>8 DEF KeyNext, ReadStep

(***************************************************************************)
(* read against the interrupt and against other readers.                   *)
(***************************************************************************)
ReadInv == KeyTypeOK /\ KeyAccounted

\* A step that leaves the key and the readers alone.
LEMMA QuietStep ==
  ASSUME ReadInv, UNCHANGED <<press_key, key_value, keyPc, keySeen>>
  PROVE  KeyAccounted'
  BY DEF ReadInv, KeyAccounted

LEMMA ReadInvStep == ReadInv /\ [KeyNext]_keyVars => ReadInv'
<1> SUFFICES ASSUME ReadInv, [KeyNext]_keyVars PROVE KeyAccounted'
  BY TypeStep DEF ReadInv
<1>1. CASE UNCHANGED keyVars \/ KeyUnload
  BY <1>1, QuietStep DEF keyVars, KeyUnload
<1>2. CASE KeyLoad
  BY <1>2 DEF KeyLoad, KeyAccounted
<1>3. ASSUME NEW f \in KeyFiles, KeyOpened(f) \/ KeyOpenFails(f) \/ KeyClose(f)
      PROVE  KeyAccounted'
  BY <1>3, QuietStep DEF KeyOpened, KeyOpenFails, KeyClose
<1>4. ASSUME NEW i \in KeyLines, KeyInterrupt(i) PROVE KeyAccounted'
  BY <1>4 DEF KeyInterrupt, KeyAccounted
<1>5. ASSUME NEW f \in KeyFiles, ReadEnter(f) \/ ReadSignal(f) \/ ReadWake(f)
      PROVE  KeyAccounted'
  <2>1. \A g \in KeyFiles : keyPc[g] \in {"copy", "zero"} \/ keyPc'[g] \in {"copy", "zero"}
                              => keyPc'[g] = keyPc[g]
    BY <1>5 DEF ReadInv, KeyTypeOK, ReadEnter, ReadSignal, ReadWake, KeyGoto
  <2>2. UNCHANGED <<press_key, key_value, keySeen>>
    BY <1>5 DEF ReadEnter, ReadSignal, ReadWake
  <2> QED BY <2>1, <2>2 DEF ReadInv, KeyAccounted
<1>6. ASSUME NEW f \in KeyFiles, ReadClear(f) PROVE KeyAccounted'
  <2>1. /\ keyPc'[f] = "copy" /\ keyPc[f] = "clear"
        /\ \A g \in KeyFiles : g # f => keyPc'[g] = keyPc[g]
    BY <1>6 DEF ReadInv, KeyTypeOK, ReadClear, KeyGoto
  <2> QED BY <1>6, <2>1 DEF ReadInv, ReadClear, KeyAccounted
<1>7. ASSUME NEW f \in KeyFiles, ReadCopy(f) PROVE KeyAccounted'
  <2>1. keyPc'[f] = "zero" /\ keySeen' = "taken"
    BY <1>7 DEF ReadInv, KeyTypeOK, ReadCopy, KeyGoto
  <2> QED BY <2>1 DEF KeyAccounted
<1>8. ASSUME NEW f \in KeyFiles, ReadZero(f) PROVE KeyAccounted'
  BY <1>8 DEF ReadZero, KeyAccounted
<1> QED BY <1>1, <1>2, <1>3, <1>4, <1>5, <1>6, <1>7, <1>8 DEF KeyNext, ReadStep

\* xkey_read 106-112 against xkey_interrupt, for any number of readers and lines:
\* a press is announced until a read copies it, unless it fell between a read's
\* copy and its zeroing; one that was copied, or fell there, is wiped.
THEOREM KeysAccounted == KeySpec => []KeyAccounted
<1>1. KeyInit => ReadInv
  BY TypeInit DEF KeyInit, ReadInv, KeyAccounted
<1>2. ReadInv => KeyAccounted
  BY DEF ReadInv
<1> QED BY <1>1, <1>2, ReadInvStep, PTL DEF KeySpec

(***************************************************************************)
(* open and close.  That no handler is left when the last file is closed   *)
(* is what makes the next open hear: it finds every line without one.      *)
(***************************************************************************)
LineInv == KeyTypeOK /\ IsFiniteSet(keyOpen) /\ NoHandlerLeft /\ OpenHears

\* Lines requested by one more file, in part or all.
LEMMA RequestedCount ==
  ASSUME KeyTypeOK, NEW lines, NEW i \in KeyLines
  PROVE  /\ Requested(lines).acts[i] \in Nat
         /\ Requested(lines).acts[i] <= keyActions[i] + 1
         /\ i \in lines => Requested(lines).acts[i] = keyActions[i] + 1
  BY DEF KeyTypeOK, Requested

\* A step that leaves the lines and the files alone.
LEMMA SameLines ==
  ASSUME LineInv, UNCHANGED <<keyOpen, keyActions, keyOff, keySpoilt>>
  PROVE  IsFiniteSet(keyOpen)' /\ NoHandlerLeft' /\ OpenHears'
  BY DEF LineInv, NoHandlerLeft, OpenHears

LEMMA OpenStep ==
  ASSUME LineInv, NEW f \in KeyFiles, KeyOpened(f)
  PROVE  IsFiniteSet(keyOpen)' /\ NoHandlerLeft' /\ OpenHears'
<1> DEFINE n == Cardinality(keyOpen)
<1>1. n \in Nat /\ IsFiniteSet(keyOpen') /\ Cardinality(keyOpen') = n + 1
  BY FS_AddElement, FS_CardinalityType DEF LineInv, KeyOpened
<1>2. \A i \in KeyLines : keyActions'[i] = keyActions[i] + 1 /\ keyActions[i] \in Nat /\ keyActions[i] <= n
  BY RequestedCount DEF LineInv, KeyOpened, NoHandlerLeft, KeyTypeOK
<1>3. ASSUME keyOpen = {}, NEW i \in KeyLines PROVE ~keyOff'[i]
  <2>1. keyActions[i] = 0
    BY <1>2, <1>3, FS_EmptySet
  <2> QED BY <2>1 DEF KeyOpened, Requested, LineInv, KeyTypeOK
<1>4. NoHandlerLeft'
  BY <1>1, <1>2 DEF NoHandlerLeft
<1>5. OpenHears'
  <2> HIDE DEF n
  <2>1. \A i \in KeyLines : keyActions'[i] > 0
    BY <1>2
  <2>2. CASE keyOpen = {}
    BY <1>3, <2>1, <2>2 DEF OpenHears
  <2>3. CASE keyOpen # {}
    <3>1. ~keySpoilt' => ~keySpoilt
      BY <2>3 DEF KeyOpened
    <3>2. \A i \in KeyLines : ~keyOff[i] => ~keyOff'[i]
      BY DEF KeyOpened, Requested, LineInv, KeyTypeOK
    <3> QED BY <2>1, <2>3, <3>1, <3>2 DEF LineInv, OpenHears
  <2> QED BY <2>2, <2>3
<1> QED BY <1>1, <1>4, <1>5

\* free_irq on every line takes away what the last request added.
LEMMA OpenFailsStep ==
  ASSUME LineInv, NEW f \in KeyFiles, KeyOpenFails(f)
  PROVE  IsFiniteSet(keyOpen)' /\ NoHandlerLeft' /\ OpenHears'
<1> DEFINE n == Cardinality(keyOpen)
<1>1. n \in Nat
  BY FS_CardinalityType DEF LineInv
<1>2. PICK m \in KeyLines : DisableAndFree(Requested({i \in KeyLines : i < m}).acts)
  BY DEF KeyOpenFails
<1> DEFINE r == Requested({i \in KeyLines : i < m}).acts
<1>3. ASSUME NEW i \in KeyLines PROVE keyActions'[i] <= n
  <2>1. r[i] \in Nat /\ r[i] <= keyActions[i] + 1 /\ keyActions[i] \in Nat /\ keyActions[i] <= n
    BY RequestedCount DEF LineInv, KeyTypeOK, NoHandlerLeft
  <2>2. keyActions'[i] = IF r[i] > 0 THEN r[i] - 1 ELSE 0
    BY <1>2 DEF DisableAndFree
  <2> HIDE DEF r, n
  <2> QED BY <1>1, <2>1, <2>2
<1>4. keyOpen' = keyOpen /\ (~keySpoilt' => keyOpen' = {})
  BY DEF KeyOpenFails
<1> QED BY <1>3, <1>4 DEF LineInv, NoHandlerLeft, OpenHears

LEMMA CloseStep ==
  ASSUME LineInv, NEW f \in KeyFiles, KeyClose(f)
  PROVE  IsFiniteSet(keyOpen)' /\ NoHandlerLeft' /\ OpenHears'
<1> DEFINE n == Cardinality(keyOpen)
<1>1. n \in Nat /\ IsFiniteSet(keyOpen') /\ Cardinality(keyOpen') = n - 1 /\ n > 0
  BY FS_RemoveElement, FS_CardinalityType, FS_EmptySet DEF LineInv, KeyClose
<1>2. ASSUME NEW i \in KeyLines PROVE keyActions'[i] <= n - 1
  <2>1. keyActions[i] \in Nat /\ keyActions[i] <= n
    BY DEF LineInv, KeyTypeOK, NoHandlerLeft
  <2>2. keyActions'[i] = IF keyActions[i] > 0 THEN keyActions[i] - 1 ELSE 0
    BY DEF KeyClose, DisableAndFree
  <2> HIDE DEF n
  <2> QED BY <1>1, <2>1, <2>2
<1>3. ~keySpoilt' => keyOpen' = {}
  BY DEF KeyClose
<1> QED BY <1>1, <1>2, <1>3 DEF NoHandlerLeft, OpenHears

LEMMA LineInvStep == LineInv /\ [KeyNext]_keyVars => LineInv'
<1> SUFFICES ASSUME LineInv, [KeyNext]_keyVars
             PROVE  IsFiniteSet(keyOpen)' /\ NoHandlerLeft' /\ OpenHears'
  BY TypeStep DEF LineInv
<1>1. CASE UNCHANGED keyVars \/ KeyLoad \/ KeyUnload
  BY <1>1, SameLines DEF keyVars, KeyLoad, KeyUnload
<1>2. ASSUME NEW i \in KeyLines, KeyInterrupt(i)
      PROVE  IsFiniteSet(keyOpen)' /\ NoHandlerLeft' /\ OpenHears'
  BY <1>2, SameLines DEF KeyInterrupt, keyIrqVars
<1>3. ASSUME NEW f \in KeyFiles, ReadEnter(f) \/ ReadSignal(f) \/ ReadStep(f)
      PROVE  IsFiniteSet(keyOpen)' /\ NoHandlerLeft' /\ OpenHears'
  BY <1>3, SameLines DEF ReadEnter, ReadSignal, ReadStep, ReadWake, ReadClear, ReadCopy, ReadZero, keyIrqVars
<1> QED BY <1>1, <1>2, <1>3, OpenStep, OpenFailsStep, CloseStep DEF KeyNext

LEMMA LineInvariance == KeySpec => []LineInv
<1>1. KeyInit => LineInv
  <2> SUFFICES ASSUME KeyInit PROVE LineInv
    OBVIOUS
  <2>1. IsFiniteSet(keyOpen) /\ Cardinality(keyOpen) = 0
    BY FS_EmptySet DEF KeyInit
  <2> QED BY <2>1, TypeInit DEF KeyInit, LineInv, NoHandlerLeft, OpenHears
<1> QED BY <1>1, LineInvStep, PTL DEF KeySpec

\* xkey_open 64-84 and xkey_close 86-96, failed opens included, for any number of
\* lines and files: every file hears every line until a neighbour's close or failed
\* open, and when all are closed the damage is over.
THEOREM FilesHear == KeySpec => []OpenHears
  BY LineInvariance, PTL DEF LineInv

\* The same: when the last file is closed no line has a handler left, so the
\* module can go.
THEOREM HandlersFreed == KeySpec => []NoHandlerLeft
  BY LineInvariance, PTL DEF LineInv
=============================================================================
