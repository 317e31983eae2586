------------------------------ MODULE SemPair ------------------------------
(***************************************************************************)
(* static/coding/mutex.c: a module starts two kernel threads.  test1 waits *)
(* for sem2 and signals sem1, test2 waits for sem1 and signals sem2; sem1  *)
(* starts at one and sem2 at zero, so test2 has the first turn.            *)
(***************************************************************************)
EXTENDS Integers, Sequences

\* Definitions named <Action>_<Bug> are not part of the program: each is the
\* definition that follows it with a plausible slip, and a check must catch it.

VARIABLES
  semPc,     \* label of test1 and of test2
  sem,       \* counts of sem1 and of sem2
  mut1,      \* the thread that holds the mutex, 0 if none
  printed    \* history: the threads in the order they printed

semVars == <<semPc, sem, mut1, printed>>

Threads == {1, 2}

\* test1 downs sem2 and ups sem1; test2 downs sem1 and ups sem2.
Waited(t) == 3 - t
Signalled(t) == t

SemInit ==
  /\ semPc = [t \in Threads |-> "none"]
  /\ sem = <<1, 0>>
  /\ mut1 = 0
  /\ printed = <<>>

SemGoto(t, from, to) == semPc[t] = from /\ semPc' = [semPc EXCEPT ![t] = to]

\* kernel_thread, first for test1; its result is not looked at.
Create(t) ==
  /\ t = 1 \/ semPc[1] # "none"
  /\ SemGoto(t, "none", "down") \/ SemGoto(t, "none", "failed")
  /\ UNCHANGED <<sem, mut1, printed>>

Down_OwnSemaphore(t) ==
  /\ SemGoto(t, "down", "lock")
  /\ sem[Signalled(t)] > 0
  /\ sem' = [sem EXCEPT ![Signalled(t)] = @ - 1]
  /\ UNCHANGED <<mut1, printed>>

Down(t) ==
  /\ SemGoto(t, "down", "lock")
  /\ sem[Waited(t)] > 0
  /\ sem' = [sem EXCEPT ![Waited(t)] = @ - 1]
  /\ UNCHANGED <<mut1, printed>>

Lock(t) == SemGoto(t, "lock", "print") /\ mut1 = 0 /\ mut1' = t /\ UNCHANGED <<sem, printed>>
PrintOut(t) == SemGoto(t, "print", "unlock") /\ printed' = Append(printed, t) /\ UNCHANGED <<sem, mut1>>
Unlock(t) == SemGoto(t, "unlock", "up") /\ mut1' = 0 /\ UNCHANGED <<sem, printed>>

Up_OwnSemaphore(t) ==
  /\ SemGoto(t, "up", "done")
  /\ sem' = [sem EXCEPT ![Waited(t)] = @ + 1]
  /\ UNCHANGED <<mut1, printed>>

Up(t) ==
  /\ SemGoto(t, "up", "done")
  /\ sem' = [sem EXCEPT ![Signalled(t)] = @ + 1]
  /\ UNCHANGED <<mut1, printed>>

SemStep(t) == Create(t) \/ Down(t) \/ Lock(t) \/ PrintOut(t) \/ Unlock(t) \/ Up(t)
SemNext == \E t \in Threads : SemStep(t)
SemSpec == SemInit /\ [][SemNext]_semVars

SemTypeOK ==
  /\ semPc \in [Threads -> {"none", "failed", "down", "lock", "print", "unlock", "up", "done"}]
  /\ sem \in [Threads -> {0, 1}]
  /\ mut1 \in {0} \cup Threads
  /\ printed \in {<<>>, <<2>>, <<2, 1>>, <<1>>, <<1, 2>>}

\* The two semaphores hand the turn over (mutex.c:13, 18, 24, 28, 35-36):
\* whichever thread starts first, test2 prints before test1, and test1 does
\* not print at all if test2 could not be created.
HandedOver == printed \in {<<>>, <<2>>, <<2, 1>>}

\* When both threads were created (mutex.c:39-40), both print and end.
BothEnd ==
  (\A t \in Threads : semPc[t] \notin {"none", "failed"})
    ~> (\A t \in Threads : semPc[t] = "done")
=============================================================================
