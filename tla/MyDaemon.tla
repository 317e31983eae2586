------------------------------ MODULE MyDaemon ------------------------------
(***************************************************************************)
(* static/coding/mydeamon.c: a process forks twice to become a daemon,     *)
(* then sleeps, logs and forks a child that logs once, for ever.           *)
(***************************************************************************)
EXTENDS Integers

\* Definitions named <Action>_<Bug> are not part of the program: each is the
\* definition that follows it with a plausible slip, and a check must catch it.

CONSTANT
  DaePids     \* bound: processes alive at a time; 1 is the first

ASSUME DaePidsAssumption == DaePids \in Nat \ {0}

VARIABLES
  daePc,       \* per process: label, "none" when there is none of that number
  daeSession,  \* per process: the session's leader, 0 for the terminal's session
  daeIgnore    \* SIGCLD is ignored

daeVars == <<daePc, daeSession, daeIgnore>>

Pids == 1..DaePids

DaeInit ==
  /\ daePc = [p \in Pids |-> IF p = 1 THEN "fork1" ELSE "none"]
  /\ daeSession = [p \in Pids |-> 0]
  /\ daeIgnore = FALSE

\* A number that neither a process nor a session has.
FreePid(c) == daePc[c] = "none" /\ \A p \in Pids : daePc[p] # "none" => daeSession[p] # c

\* fork: the child goes on at one label, the parent at another, or there is no child.
ForkAt(p, from, parent, child, failed) ==
  /\ daePc[p] = from
  /\ \/ \E c \in Pids :
          /\ FreePid(c)
          /\ daePc' = [daePc EXCEPT ![p] = parent, ![c] = child]
          /\ daeSession' = [daeSession EXCEPT ![c] = daeSession[p]]
     \/ daePc' = [daePc EXCEPT ![p] = failed] /\ UNCHANGED daeSession

\* init_daemon: the parent exits; so it does when fork fails, -1 being true.
FirstFork(p) == ForkAt(p, "fork1", "none", "setsid", "none") /\ UNCHANGED daeIgnore

Setsid(p) ==
  /\ daePc[p] = "setsid" /\ daePc' = [daePc EXCEPT ![p] = "fork2"]
  /\ daeSession' = [daeSession EXCEPT ![p] = p]
  /\ UNCHANGED daeIgnore

SecondFork(p) == ForkAt(p, "fork2", "none", "sleep", "none") /\ UNCHANGED daeIgnore

\* main's loop sleeps and logs.  fopen's null pointer passes the test (>= 0),
\* so the daemon dies of a log it cannot open.
Report(p) ==
  /\ daePc[p] = "sleep"
  /\ \E to \in {"signal", "none"} : daePc' = [daePc EXCEPT ![p] = to]
  /\ UNCHANGED <<daeSession, daeIgnore>>

IgnoreChildren(p) ==
  /\ daePc[p] = "signal" /\ daePc' = [daePc EXCEPT ![p] = "fork"]
  /\ daeIgnore' = TRUE
  /\ UNCHANGED daeSession

LoopFork_ChildStays(p) == ForkAt(p, "fork", "sleep", "sleep", "sleep") /\ UNCHANGED daeIgnore

\* The parent continues, with a child or without; the child leaves the loop.
LoopFork(p) == ForkAt(p, "fork", "sleep", "nap", "sleep") /\ UNCHANGED daeIgnore

\* The child sleeps, logs (or dies of the log) and exits; it stays as a
\* zombie unless SIGCLD is ignored.
ChildReport(p) ==
  /\ daePc[p] = "nap"
  /\ daePc' = [daePc EXCEPT ![p] = IF daeIgnore THEN "none" ELSE "zombie"]
  /\ UNCHANGED <<daeSession, daeIgnore>>

DaeNext == \E p \in Pids :
  FirstFork(p) \/ Setsid(p) \/ SecondFork(p) \/ Report(p) \/ IgnoreChildren(p) \/ LoopFork(p) \/ ChildReport(p)
DaeSpec == DaeInit /\ [][DaeNext]_daeVars

InLoop(p) == daePc[p] \in {"sleep", "signal", "fork"}

DaeTypeOK ==
  /\ daePc \in [Pids -> {"none", "fork1", "setsid", "fork2", "sleep", "signal", "fork", "nap", "zombie"}]
  /\ daeSession \in [Pids -> 0..DaePids] /\ daeIgnore \in BOOLEAN

\* There is one daemon: the children the loop forks (64-68) leave it, however
\* many live at a time, and whichever forks fail.
OneDaemon == \A p, q \in Pids : InLoop(p) /\ InLoop(q) => p = q

\* The daemon has left the terminal's session and leads none itself (27-34),
\* so it cannot get a terminal again.
Detached == \A p \in Pids : InLoop(p) => daeSession[p] \notin {0, p}

\* A child that ends leaves nothing behind (62): the children of a daemon
\* that never waits for them do not use the numbers up.
NoZombies == \A p \in Pids : daePc[p] # "zombie"

\* init_daemon and the loop together give one daemon without a terminal
\* whose children vanish: the three properties above.
DaemonSound == OneDaemon /\ Detached /\ NoZombies
=============================================================================
