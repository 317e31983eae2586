------------------------------ MODULE XKeyDev ------------------------------
(***************************************************************************)
(* static/coding/xkeydev.c: keys on shared interrupt lines.  The handler   *)
(* stores the key and raises press_key; read waits for press_key, lowers   *)
(* it, copies the key and zeroes it, with no lock.  open and close run one *)
(* at a time (the kernel's big lock) and request, disable and free the     *)
(* lines, always with the line's own dev_id.                               *)
(***************************************************************************)
EXTENDS Integers, FiniteSets

\* Definitions named <Action>_<Bug> are not part of the program: each is the
\* definition that follows it with a plausible slip, and a check must catch it.

CONSTANTS
  KeyFiles,   \* open files, each with one reader
  KeyLines    \* the interrupt lines; a key's value is its line's

ASSUME KeyLinesAssumption == KeyLines \subseteq Nat \ {0} /\ IsFiniteSet(KeyFiles)

VARIABLES
  keyLoaded, keyOpen,     \* module loaded; files open
  keyActions, keyOff,     \* per line: handlers registered; disabled
  press_key, key_value,
  keyPc,                  \* per reader: label
  keySeen,                \* history: key_value is "new", or came "late", when a read
                          \* had its copy and had still to zero, or was "taken" by a copy
  keySpoilt               \* history: since no file was open, a close or a failed open
                          \* has disabled the lines of files that stay open

keyVars == <<keyLoaded, keyOpen, keyActions, keyOff, press_key, key_value,
             keyPc, keySeen, keySpoilt>>
keyIrqVars == <<keyLoaded, keyOpen, keyActions, keyOff, keySpoilt>>

KeyInit ==
  /\ keyLoaded = FALSE /\ keyOpen = {} /\ keySpoilt = FALSE
  /\ keyActions = [i \in KeyLines |-> 0] /\ keyOff = [i \in KeyLines |-> FALSE]
  /\ press_key = 0 /\ key_value = 0
  /\ keyPc = [f \in KeyFiles |-> "idle"] /\ keySeen = "new"

\* insmod: the static variables start from zero.
KeyLoad ==
  /\ ~keyLoaded
  /\ keyLoaded' = TRUE
  /\ press_key' = 0 /\ key_value' = 0 /\ keySeen' = "new"
  /\ UNCHANGED <<keyOpen, keyActions, keyOff, keyPc, keySpoilt>>

\* rmmod: refused while a file is open (.owner).
KeyUnload ==
  /\ keyLoaded /\ keyOpen = {}
  /\ keyLoaded' = FALSE
  /\ UNCHANGED <<keyOpen, keyActions, keyOff, press_key, key_value, keyPc, keySeen, keySpoilt>>

\* request_irq on some lines: the first handler on a line enables it.
Requested(lines) ==
  [acts |-> [i \in KeyLines |-> IF i \in lines THEN keyActions[i] + 1 ELSE keyActions[i]],
   off  |-> [i \in KeyLines |-> keyOff[i] /\ ~(i \in lines /\ keyActions[i] = 0)]]

\* disable_irq and free_irq on every line.
DisableAndFree(acts) ==
  /\ keyActions' = [i \in KeyLines |-> IF acts[i] > 0 THEN acts[i] - 1 ELSE 0]
  /\ keyOff' = [i \in KeyLines |-> TRUE]

KeyOpened(f) ==
  /\ keyLoaded /\ f \notin keyOpen
  /\ keyOpen' = keyOpen \cup {f}
  /\ keySpoilt' = (keySpoilt /\ keyOpen # {})
  /\ keyActions' = Requested(KeyLines).acts /\ keyOff' = Requested(KeyLines).off
  /\ UNCHANGED <<keyLoaded, press_key, key_value, keyPc, keySeen>>

\* A request fails after those for some lines; every line is disabled and freed.
KeyOpenFails(f) ==
  /\ keyLoaded /\ f \notin keyOpen
  /\ \E n \in KeyLines : DisableAndFree(Requested({i \in KeyLines : i < n}).acts)
  /\ keySpoilt' = (keyOpen # {})
  /\ UNCHANGED <<keyLoaded, keyOpen, press_key, key_value, keyPc, keySeen>>

KeyClose_KeepsHandlers(f) ==
  /\ f \in keyOpen /\ keyPc[f] = "idle"
  /\ keyOpen' = keyOpen \ {f}
  /\ keyOff' = [i \in KeyLines |-> TRUE]
  /\ keySpoilt' = (keyOpen # {f})
  /\ UNCHANGED <<keyLoaded, keyActions, press_key, key_value, keyPc, keySeen>>

KeyClose(f) ==
  /\ f \in keyOpen /\ keyPc[f] = "idle"
  /\ keyOpen' = keyOpen \ {f}
  /\ DisableAndFree(keyActions)
  /\ keySpoilt' = (keyOpen # {f})
  /\ UNCHANGED <<keyLoaded, press_key, key_value, keyPc, keySeen>>

\* xkey_interrupt: the key is down, or it was let go.  Every handler of a
\* line runs; the second one stores the same key again.
KeyInterrupt(i) ==
  /\ keyActions[i] > 0 /\ ~keyOff[i]
  /\ key_value' \in {i, 0}
  /\ press_key' = 1
  /\ keySeen' = IF \E f \in KeyFiles : keyPc[f] = "zero" THEN "late" ELSE "new"
  /\ UNCHANGED <<keyIrqVars, keyPc>>

KeyGoto(f, from, to) == keyPc[f] = from /\ keyPc' = [keyPc EXCEPT ![f] = to]

\* xkey_read enters: with nothing to read it returns (O_NONBLOCK) or waits.
ReadEnter(f) ==
  /\ f \in keyOpen
  /\ IF press_key # 0
       THEN KeyGoto(f, "idle", "clear")
       ELSE KeyGoto(f, "idle", "idle") \/ KeyGoto(f, "idle", "wait")
  /\ UNCHANGED <<keyIrqVars, press_key, key_value, keySeen>>

\* wait_event_interruptible ends: for press_key, or for a signal, which read
\* does not tell apart.
ReadWake(f) ==
  /\ press_key # 0
  /\ KeyGoto(f, "wait", "clear")
  /\ UNCHANGED <<keyIrqVars, press_key, key_value, keySeen>>

ReadSignal(f) ==
  /\ KeyGoto(f, "wait", "clear")
  /\ UNCHANGED <<keyIrqVars, press_key, key_value, keySeen>>

ReadClear(f) ==
  /\ KeyGoto(f, "clear", "copy")
  /\ press_key' = 0
  /\ UNCHANGED <<keyIrqVars, key_value, keySeen>>

\* copy_to_user succeeds or faults; the key is zeroed all the same.
ReadCopy(f) ==
  /\ KeyGoto(f, "copy", "zero")
  /\ keySeen' = "taken"
  /\ UNCHANGED <<keyIrqVars, press_key, key_value>>

ReadZero_Forgotten(f) ==
  /\ KeyGoto(f, "zero", "idle")
  /\ UNCHANGED <<keyIrqVars, press_key, key_value, keySeen>>

ReadZero(f) ==
  /\ KeyGoto(f, "zero", "idle")
  /\ key_value' = 0
  /\ UNCHANGED <<keyIrqVars, press_key, keySeen>>

\* A read that is under way.
ReadStep(f) == ReadWake(f) \/ ReadClear(f) \/ ReadCopy(f) \/ ReadZero(f)

KeyNext ==
  \/ KeyLoad \/ KeyUnload
  \/ \E i \in KeyLines : KeyInterrupt(i)
  \/ \E f \in KeyFiles :
       KeyOpened(f) \/ KeyOpenFails(f) \/ KeyClose(f) \/ ReadEnter(f) \/ ReadSignal(f) \/ ReadStep(f)

KeySpec == KeyInit /\ [][KeyNext]_keyVars

KeyTypeOK ==
  /\ keyLoaded \in BOOLEAN /\ keySpoilt \in BOOLEAN /\ keySeen \in {"new", "late", "taken"}
  /\ keyOpen \subseteq KeyFiles
  /\ keyActions \in [KeyLines -> Nat] /\ keyOff \in [KeyLines -> BOOLEAN]
  /\ press_key \in {0, 1} /\ key_value \in KeyLines \cup {0}
  /\ keyPc \in [KeyFiles -> {"idle", "wait", "clear", "copy", "zero"}]

\* What becomes of the key that is stored, with no lock between an interrupt and
\* the lines 108, 109 and 111 of any number of reads.  A press that comes while no
\* read has copied (109) and still to zero (111) is announced by press_key, or a read
\* is about to copy it, and nothing wipes it before a copy.  A press that comes
\* between 109 and 111 of some read is wiped by that read, and one that a read has
\* copied, or failed to copy, is wiped before that read returns, so that no read
\* that starts later gets it again.
\* It is not promised that each press is handed out once: the late press is lost,
\* a release or the next press overwrites one that is not read yet, and two reads
\* that are under way at a time may copy the same.
KeyAccounted ==
  key_value # 0 =>
    IF keySeen = "new"
      THEN /\ \A f \in KeyFiles : keyPc[f] # "zero"
           /\ press_key = 1 \/ \E f \in KeyFiles : keyPc[f] = "copy"
      ELSE \E f \in KeyFiles : keyPc[f] = "zero"

\* Files hear every line, however many are open, until a close (91) or a failed open
\* (76-79) disables all lines, those of the files that stay open too; and that
\* damage ends when the last of these is closed: the next to open hears again.
OpenHears ==
  ~keySpoilt /\ keyOpen # {} => \A i \in KeyLines : keyActions[i] > 0 /\ ~keyOff[i]

\* A line never has more handlers than there are files open, so none is left
\* to run when the last is closed and the module may go.
NoHandlerLeft == \A i \in KeyLines : keyActions[i] <= Cardinality(keyOpen)

\* A press that is announced while a reader waits is taken: the wait queue
\* and the flag lose no wake-up.
KeyTaken ==
  (press_key = 1 /\ \E f \in KeyFiles : keyPc[f] = "wait") ~> (press_key = 0)
=============================================================================
