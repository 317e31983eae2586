------------------------------ MODULE MyTimer ------------------------------
(***************************************************************************)
(* static/coding/mytimer.txt: read sleeps until a timer it has set has     *)
(* gone off.  One timer, one flag and one wait queue serve all readers,    *)
(* and the timer's interrupt may come between any two lines of read.  The  *)
(* operations have no owner, so the module may be unloaded at any moment.  *)
(***************************************************************************)
EXTENDS Integers

\* Definitions named <Action>_<Bug> are not part of the program: each is the
\* definition that follows it with a plausible slip, and a check must catch it.

CONSTANTS
  TmReaders,     \* processes reading the device
  TmDelay        \* the delay (HZ * 20) in ticks

ASSUME TmDelayAssumption == TmDelay \in Nat \ {0}

VARIABLES
  flag,
  tmLeft,        \* ticks until the timer goes off, 0 when it is not pending
  tmBroken,      \* the kernel's list of timers was corrupted, a null pointer
                 \* followed, or code that is to run has gone
  tmModule,      \* "out", "in", or "hollow": loaded without a device
  tmPc,          \* per reader: label
  \* history, of each reader's last wait: its ticks, whether a signal ended it,
  \* and whether flag was up already when its timer was set
  tmSlept, tmSignalled, tmStale

tmHistory == <<tmSlept, tmSignalled, tmStale>>
tmVars == <<flag, tmLeft, tmBroken, tmModule, tmPc, tmHistory>>

TmInit ==
  /\ flag = 0 /\ tmLeft = 0 /\ tmBroken = FALSE /\ tmModule = "out"
  /\ tmPc = [r \in TmReaders |-> "idle"] /\ tmSlept = [r \in TmReaders |-> 0]
  /\ tmSignalled = [r \in TmReaders |-> FALSE] /\ tmStale = [r \in TmReaders |-> FALSE]

TmGoto(r, from, to) == ~tmBroken /\ tmPc[r] = from /\ tmPc' = [tmPc EXCEPT ![r] = to]

\* chardev_init: it fails, or succeeds, or cdev_alloc fails and ret is still the 0
\* of the line before, so that the module is loaded all the same.
TmLoad ==
  /\ ~tmBroken /\ tmModule = "out"
  /\ tmModule' \in {"out", "in", "hollow"}
  /\ flag' = 0
  /\ UNCHANGED <<tmLeft, tmBroken, tmPc, tmHistory>>

\* chardev_exit deletes the device, which a hollow module has not got; what is left
\* of the timer or of a read would run where the module's code was.
TmUnload ==
  /\ ~tmBroken /\ tmModule # "out"
  /\ tmModule' = "out"
  /\ tmBroken' = (tmModule = "hollow" \/ tmLeft # 0 \/ \E r \in TmReaders : tmPc[r] # "idle")
  /\ UNCHANGED <<flag, tmLeft, tmPc, tmHistory>>

\* Ticks are counted up to the delay.
Slept == tmSlept' = [r \in TmReaders |-> IF tmSlept[r] < TmDelay THEN tmSlept[r] + 1 ELSE TmDelay]

TmArm_IfIdle(r) ==
  /\ tmModule = "in" /\ TmGoto(r, "idle", "wait")
  /\ tmLeft' = (IF tmLeft = 0 THEN TmDelay ELSE tmLeft)
  /\ tmSlept' = [tmSlept EXCEPT ![r] = 0]
  /\ tmSignalled' = [tmSignalled EXCEPT ![r] = FALSE]
  /\ tmStale' = [tmStale EXCEPT ![r] = flag # 0]
  /\ UNCHANGED <<flag, tmModule, tmBroken>>

\* init_timer and add_timer.  A timer that is pending already is linked twice,
\* and what the kernel does then is not modelled any further.
TmArm(r) ==
  /\ tmModule = "in" /\ TmGoto(r, "idle", "wait")
  /\ IF tmLeft = 0 THEN tmLeft' = TmDelay /\ UNCHANGED tmBroken
                   ELSE tmBroken' = TRUE /\ UNCHANGED tmLeft
  /\ tmSlept' = [tmSlept EXCEPT ![r] = 0]
  /\ tmSignalled' = [tmSignalled EXCEPT ![r] = FALSE]
  /\ tmStale' = [tmStale EXCEPT ![r] = flag # 0]
  /\ UNCHANGED <<flag, tmModule>>

\* Time passes: a tick, and with the last one timer_callback.
TmTick ==
  /\ ~tmBroken /\ tmLeft > 1 /\ tmLeft' = tmLeft - 1
  /\ Slept
  /\ UNCHANGED <<flag, tmBroken, tmModule, tmPc, tmSignalled, tmStale>>

TmCallback ==
  /\ ~tmBroken /\ tmLeft = 1 /\ tmLeft' = 0
  /\ flag' = 1
  /\ Slept
  /\ UNCHANGED <<tmBroken, tmModule, tmPc, tmSignalled, tmStale>>

\* wait_event_interruptible ends, for the flag or for a signal ...
TmWake(r) ==
  /\ flag # 0 /\ TmGoto(r, "wait", "clear")
  /\ UNCHANGED <<flag, tmLeft, tmBroken, tmModule, tmHistory>>

TmSignal(r) ==
  /\ TmGoto(r, "wait", "clear")
  /\ tmSignalled' = [tmSignalled EXCEPT ![r] = TRUE]
  /\ UNCHANGED <<flag, tmLeft, tmBroken, tmModule, tmSlept, tmStale>>

\* ... flag is cleared, then the timer deleted ...
TmClear(r) ==
  /\ TmGoto(r, "clear", "delete")
  /\ flag' = 0
  /\ UNCHANGED <<tmLeft, tmBroken, tmModule, tmHistory>>

TmDelete(r) ==
  /\ TmGoto(r, "delete", "return")
  /\ tmLeft' = 0
  /\ UNCHANGED <<flag, tmBroken, tmModule, tmHistory>>

\* ... and the text copied.  Line 68 returns the length of a name, res, that is
\* declared nowhere: the read is taken to return normally, as if it were sendbuf.
TmReturn(r) ==
  /\ TmGoto(r, "return", "idle")
  /\ UNCHANGED <<flag, tmLeft, tmBroken, tmModule, tmHistory>>

TmWork(r) == TmWake(r) \/ TmClear(r) \/ TmDelete(r) \/ TmReturn(r)
TmClock == TmTick \/ TmCallback
TmNext == TmLoad \/ TmUnload \/ TmClock \/ \E r \in TmReaders : TmArm(r) \/ TmSignal(r) \/ TmWork(r)
TmSpec == TmInit /\ [][TmNext]_tmVars

\* Time passes, and a reader that can go on, again and again if not all the time,
\* does; calls and signals need not come.
TmFairSpec == TmSpec /\ WF_tmVars(TmClock) /\ \A r \in TmReaders : SF_tmVars(TmWork(r))

TmTypeOK ==
  /\ flag \in {0, 1} /\ tmLeft \in 0..TmDelay /\ tmBroken \in BOOLEAN
  /\ tmModule \in {"out", "in", "hollow"}
  /\ tmPc \in [TmReaders -> {"idle", "wait", "clear", "delete", "return"}]
  /\ tmSlept \in [TmReaders -> 0..TmDelay]
  /\ tmSignalled \in [TmReaders -> BOOLEAN] /\ tmStale \in [TmReaders -> BOOLEAN]

\* "read does not read at once but after a time": no read returns earlier than its
\* delay, unless a signal has ended its own wait.
NotEarly == \A r \in TmReaders : tmPc[r] = "return" => tmSlept[r] = TmDelay \/ tmSignalled[r]

\* What is left of it: a read that no signal has ended returns early only when an
\* earlier callback's flag was still up at the moment it set its timer.  No timer
\* that another reader sets or deletes, and no flag raised later, ends it early.
EarlyOnlyIfStale == \A r \in TmReaders :
  tmPc[r] = "return" => tmSlept[r] = TmDelay \/ tmSignalled[r] \/ tmStale[r]

\* "this function makes the module sleep until flag != 0", "read after a time": a
\* reader that sleeps returns, unless the module is unloaded under it or the kernel's
\* list of timers is corrupted.
SleeperReturns == \A r \in TmReaders :
  tmPc[r] = "wait" ~> tmPc[r] = "return" \/ tmModule # "in" \/ tmBroken
=============================================================================
