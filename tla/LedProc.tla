------------------------------ MODULE LedProc ------------------------------
(***************************************************************************)
(* static/coding/led_proc.c: a file in /proc shows a hexadecimal digit on  *)
(* four lamps, the upper half of an output port.                           *)
(***************************************************************************)
EXTENDS Integers

\* Definitions named <Action>_<Bug> are not part of the program: each is the
\* definition that follows it with a plausible slip, and a check must catch it.

CONSTANTS
  LedUsers,   \* processes that open the file
  LedChars    \* the characters written; the code takes every byte

ASSUME LedCharsAssumption == LedChars \subseteq 0..255

VARIABLES
  ledPhase,    \* the module: out, io, dir, file, data, up, going, gone; stale: up with
               \* led_dir freed; oops: its unloading was killed
  ledDir, ledFile,           \* the entries exist
  ledHasData, ledHasOps,     \* the file's data; its read and write functions and its owner
  ledStat,                   \* led_data.stat[0]: read from the "port", or given by a "user"
  ledPort,
  ledPc, ledCh,              \* per process: label; ch in proc_write_led
  ledHeld,                   \* processes whose open file counts as a use of the module
  ledLast,                   \* history: the character shown, -1 if none
  ledTouched                 \* history: the port was written after led_io_exit, by a
                             \* process whose file does not count

ledEntries == <<ledDir, ledFile, ledHasData, ledHasOps>>
ledLamps == <<ledPort, ledLast, ledTouched>>
ledFiles == <<ledPc, ledCh, ledHeld>>
ledVars == <<ledPhase, ledEntries, ledStat, ledFiles, ledLamps>>

LedInit ==
  /\ ledPhase = "out"
  /\ ledDir = FALSE /\ ledFile = FALSE /\ ledHasData = FALSE /\ ledHasOps = FALSE
  /\ ledStat = "port" /\ ledPort = 255 /\ ledLast = -1 /\ ledTouched = FALSE
  /\ ledPc = [p \in LedUsers |-> "closed"] /\ ledCh = [p \in LedUsers |-> 0] /\ ledHeld = {}

\* proc_write_led's conversion of a byte to a digit; what is no digit is 15.
LedCode(ch) ==
  IF ch \in 48..57 THEN ch - 48
  ELSE IF ch \in 65..70 THEN ch - 55
  ELSE IF ch \in 97..102 THEN ch - 87
  ELSE 15

\* led_io_init: the port's pins are outputs, all low.
LedIo ==
  /\ ledPhase = "out" /\ ledPhase' = "io"
  /\ ledPort' = 0 /\ ledLast' = -1 /\ ledTouched' = FALSE
  /\ UNCHANGED <<ledEntries, ledStat, ledFiles>>

\* led_proc_init makes the directory, the file, and fills the file's fields
\* one after the other.  led_init does not look at its result: after a
\* failure the module is up without its file; when only the file could not be
\* made, led_dir keeps the address of the directory that was removed again.
LedMakeDir ==
  /\ ledPhase = "io"
  /\ \/ ledPhase' = "dir" /\ ledDir' = TRUE
     \/ ledPhase' = "up" /\ UNCHANGED ledDir
  /\ UNCHANGED <<ledFile, ledHasData, ledHasOps, ledStat, ledFiles, ledLamps>>

LedMakeFile ==
  /\ ledPhase = "dir"
  /\ \/ ledPhase' = "file" /\ ledFile' = TRUE /\ UNCHANGED ledDir
     \/ ledPhase' = "stale" /\ ledDir' = FALSE /\ UNCHANGED ledFile
  /\ UNCHANGED <<ledHasData, ledHasOps, ledStat, ledFiles, ledLamps>>

LedSetData_OpsFirst ==
  /\ ledPhase = "file" /\ ledPhase' = "data"
  /\ ledHasOps' = TRUE
  /\ UNCHANGED <<ledDir, ledFile, ledHasData, ledStat, ledFiles, ledLamps>>

LedSetData ==
  /\ ledPhase = "file" /\ ledPhase' = "data"
  /\ ledHasData' = TRUE
  /\ UNCHANGED <<ledDir, ledFile, ledHasOps, ledStat, ledFiles, ledLamps>>

\* An open between the functions and the owner is like one before both.
LedSetOps ==
  /\ ledPhase = "data" /\ ledPhase' = "up"
  /\ ledHasOps' = TRUE
  /\ UNCHANGED <<ledDir, ledFile, ledHasData, ledStat, ledFiles, ledLamps>>

LedAt(p, from, to) == ledPc[p] = from /\ ledPc' = [ledPc EXCEPT ![p] = to]

\* The kernel counts an open file as a use of its owner, if it has one by then.
LedOpen(p) ==
  /\ ledFile /\ LedAt(p, "closed", "open")
  /\ ledHeld' = IF ledHasOps THEN ledHeld \cup {p} ELSE ledHeld
  /\ UNCHANGED <<ledPhase, ledEntries, ledStat, ledCh, ledLamps>>

LedClose(p) ==
  /\ LedAt(p, "open", "closed") \/ LedAt(p, "dangling", "closed")
  /\ ledHeld' = ledHeld \ {p}
  /\ UNCHANGED <<ledPhase, ledEntries, ledStat, ledCh, ledLamps>>

\* proc_write_led copies what it is given to stat (when that fails, nothing has
\* happened) and takes its first byte from the caller's buffer ...
LedCopy(p, ch) ==
  /\ ledHasOps \/ ledPhase \in {"going", "gone"}
  /\ LedAt(p, "open", "copied")
  /\ ledStat' = "user"
  /\ ledCh' = [ledCh EXCEPT ![p] = ch]
  /\ UNCHANGED <<ledPhase, ledEntries, ledHeld, ledLamps>>

\* ... and shows it.
LedWrite(p) ==
  /\ LedAt(p, "copied", "open")
  /\ ledPort' = (LedCode(ledCh[p]) * 16) % 256 /\ ledLast' = ledCh[p]
  /\ ledCh' = [ledCh EXCEPT ![p] = 0]
  /\ ledTouched' = (ledTouched \/ (ledPhase = "gone" /\ p \notin ledHeld))
  /\ UNCHANGED <<ledPhase, ledEntries, ledStat, ledHeld>>

\* proc_read_led goes by stat too: a write that copies in between has its own byte
\* printed instead of the port's.
LedReadPort(p) ==
  /\ ledHasOps \/ ledPhase \in {"going", "gone"}
  /\ LedAt(p, "open", "reading")
  /\ ledStat' = "port"
  /\ UNCHANGED <<ledPhase, ledEntries, ledCh, ledHeld, ledLamps>>

LedReadStat(p) ==
  /\ LedAt(p, "reading", "open")
  /\ UNCHANGED <<ledPhase, ledEntries, ledStat, ledCh, ledHeld, ledLamps>>

\* led_exit, when no open file counts: led_proc_exit removes the entries that exist,
\* with led_dir as their parent; where that was freed (95) the kernel finds none
\* under it or kills the process that unloads.
LedRemove ==
  /\ ledHeld = {}
  /\ \/ ledPhase \in {"up", "stale"} /\ ledPhase' = "going"
     \/ ledPhase = "stale" /\ ledPhase' = "oops"
  /\ ledDir' = FALSE /\ ledFile' = FALSE /\ ledHasData' = FALSE /\ ledHasOps' = FALSE
  /\ UNCHANGED <<ledStat, ledFiles, ledLamps>>

\* ... then led_io_exit sets the port ...
LedIoExit ==
  /\ ledPhase = "going" /\ ledPhase' = "gone"
  /\ ledPort' = 255 /\ ledLast' = -1
  /\ UNCHANGED <<ledEntries, ledStat, ledFiles, ledTouched>>

\* ... and the module's code goes, from under whoever has the file open still.
LedFree ==
  /\ ledPhase = "gone" /\ ledPhase' = "out"
  /\ ledPc' = [p \in LedUsers |-> CASE ledPc[p] = "open" -> "dangling"
                                    [] ledPc[p] \in {"copied", "reading"} -> "fault"
                                    [] OTHER -> ledPc[p]]
  /\ UNCHANGED <<ledEntries, ledStat, ledCh, ledHeld, ledLamps>>

LedFaults(p) ==
  /\ LedAt(p, "dangling", "fault")
  /\ UNCHANGED <<ledPhase, ledEntries, ledStat, ledCh, ledHeld, ledLamps>>

LedModule == LedIo \/ LedMakeDir \/ LedMakeFile \/ LedSetData \/ LedSetOps \/ LedRemove \/ LedIoExit \/ LedFree
LedNext ==
  \/ LedModule
  \/ \E p \in LedUsers :
       \/ LedOpen(p) \/ LedClose(p) \/ LedWrite(p) \/ LedReadPort(p) \/ LedReadStat(p) \/ LedFaults(p)
       \/ \E ch \in LedChars : LedCopy(p, ch)
LedSpec == LedInit /\ [][LedNext]_ledVars

LedTypeOK ==
  /\ ledPhase \in {"out", "io", "dir", "file", "data", "up", "stale", "going", "gone", "oops"}
  /\ {ledDir, ledFile, ledHasData, ledHasOps, ledTouched} \subseteq BOOLEAN
  /\ ledStat \in {"port", "user"} /\ ledPort \in 0..255
  /\ ledPc \in [LedUsers -> {"closed", "open", "copied", "reading", "dangling", "fault"}]
  /\ ledCh \in [LedUsers -> 0..255] /\ ledHeld \subseteq LedUsers
  /\ ledLast \in {-1} \cup LedChars

\* Processes find the file as soon as it is made (78), long before init is
\* through: its functions are never there without the data they use (86-88).
OpsHaveData == ledHasOps => ledHasData

\* The module that has gone, also one whose entries could not all be made, leaves no
\* entry, and the lamps as led_io_exit set them, unless a process that had opened
\* the file before line 89 gave it an owner was still in its write: one that opened
\* it later, in whatever part of its write, keeps the module in.
LedsAreLeft == ledPhase = "out" => ~ledDir /\ ~ledFile /\ (ledPort = 255 \/ ledTouched)

\* However writes overlap, the lamps show the digit of the one that came to line 64
\* last: a digit's character, in both cases of its letter, gives its value, any
\* other character all lamps.
HexDigits == <<{48}, {49}, {50}, {51}, {52}, {53}, {54}, {55}, {56}, {57},
               {65, 97}, {66, 98}, {67, 99}, {68, 100}, {69, 101}, {70, 102}>>
LampsShowDigit ==
  ledLast # -1 =>
    \/ \E d \in 0..15 : ledLast \in HexDigits[d + 1] /\ ledPort = 16 * d
    \/ (\A d \in 1..16 : ledLast \notin HexDigits[d]) /\ ledPort = 240

\* The file is usable as soon as it can be found, shows what was written, and
\* goes with the module: the three properties above.
LedSound == OpsHaveData /\ LedsAreLeft /\ LampsShowDigit
=============================================================================
