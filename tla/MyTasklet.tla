----------------------------- MODULE MyTasklet -----------------------------
(***************************************************************************)
(* static/coding/mytasklet.c: an interrupt handler that only schedules a   *)
(* tasklet.  Interrupts come at any time, on another processor too, while  *)
(* the module is being loaded or unloaded.                                 *)
(***************************************************************************)
EXTENDS Integers

\* Definitions named <Action>_<Bug> are not part of the program: each is the
\* definition that follows it with a plausible slip, and a check must catch it.

VARIABLES
  letPhase,     \* the module: out, loading, up, killing, killed
  letIrq,       \* the irq is requested
  letSched,     \* the tasklet's SCHED bit: no, queued to run, held by tasklet_kill
  letRunning,   \* mylet runs
  mycount,      \* from 10 on mylet does the same: 10 stands for all of those
  letLate       \* history: an interrupt queued the tasklet after tasklet_kill

letVars == <<letPhase, letIrq, letSched, letRunning, mycount, letLate>>

LetInit ==
  /\ letPhase = "out" /\ letIrq = FALSE
  /\ letSched = "no" /\ letRunning = FALSE
  /\ mycount = 0 /\ letLate = FALSE

\* myirqtest_init: tasklet_init ...
LetLoad ==
  /\ letPhase = "out" /\ ~letLate
  /\ letPhase' = "loading" /\ mycount' = 0
  /\ UNCHANGED <<letIrq, letSched, letRunning, letLate>>

\* ... then request_irq; when that fails free_irq finds nothing to free.
LetRequest ==
  /\ letPhase = "loading"
  /\ \/ letPhase' = "up" /\ letIrq' = TRUE
     \/ letPhase' = "out" /\ UNCHANGED letIrq
  /\ UNCHANGED <<letSched, letRunning, mycount, letLate>>

\* myinterrupt: a tasklet whose SCHED bit is set is not queued again.
MyInterrupt ==
  /\ letIrq
  /\ letSched' = IF letSched = "no" THEN "queued" ELSE letSched
  /\ letLate' = (letLate \/ (letPhase = "killed" /\ letSched = "no"))
  /\ UNCHANGED <<letPhase, letIrq, letRunning, mycount>>

\* The kernel clears the bit and calls mylet, which counts.  Once the module
\* has gone there is no mylet to call: such a run is not modelled further.
MyletBegin ==
  /\ letSched = "queued" /\ ~letRunning /\ letPhase # "out"
  /\ letSched' = "no" /\ letRunning' = TRUE
  /\ UNCHANGED <<letPhase, letIrq, mycount, letLate>>

MyletEnd ==
  /\ letRunning /\ letPhase # "out"
  /\ letRunning' = FALSE
  /\ mycount' = IF mycount < 10 THEN mycount + 1 ELSE 10
  /\ UNCHANGED <<letPhase, letIrq, letSched, letLate>>

\* myirqtest_exit: tasklet_kill takes the bit once it is free ...
LetKill ==
  /\ letPhase = "up" /\ letSched = "no"
  /\ letPhase' = "killing" /\ letSched' = "held"
  /\ UNCHANGED <<letIrq, letRunning, mycount, letLate>>

LetKilled_DoesNotWait ==
  /\ letPhase = "killing"
  /\ letPhase' = "killed" /\ letSched' = "no"
  /\ UNCHANGED <<letIrq, letRunning, mycount, letLate>>

\* ... and waits for mylet; ...
LetKilled ==
  /\ letPhase = "killing" /\ ~letRunning
  /\ letPhase' = "killed" /\ letSched' = "no"
  /\ UNCHANGED <<letIrq, letRunning, mycount, letLate>>

\* ... only then is the irq freed, and the module goes.
LetFreeIrq ==
  /\ letPhase = "killed"
  /\ letPhase' = "out" /\ letIrq' = FALSE
  /\ UNCHANGED <<letSched, letRunning, mycount, letLate>>

LetNext ==
  LetLoad \/ LetRequest \/ MyInterrupt \/ MyletBegin \/ MyletEnd \/ LetKill \/ LetKilled \/ LetFreeIrq
LetSpec == LetInit /\ [][LetNext]_letVars

LetTypeOK ==
  /\ letPhase \in {"out", "loading", "up", "killing", "killed"}
  /\ letSched \in {"no", "queued", "held"}
  /\ {letIrq, letRunning, letLate} \subseteq BOOLEAN
  /\ mycount \in 0..10

\* When the module has gone its tasklet neither is queued nor runs: what
\* tasklet_kill (63) leaves open is exactly an interrupt that falls between
\* it and free_irq (64).
GoneIsQuiet == letPhase = "out" => (letSched = "no" /\ ~letRunning) \/ letLate
=============================================================================
