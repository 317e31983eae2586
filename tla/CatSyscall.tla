----------------------------- MODULE CatSyscall -----------------------------
(***************************************************************************)
(* static/coding/cat_syscall.c: a module replaces one entry of the system  *)
(* call table by a wrapper that counts.  Line 69 reads "ld = ": the first  *)
(* letter of "old" is missing and is supplied here.                        *)
(***************************************************************************)
EXTENDS Integers, FiniteSets

\* Definitions named <Action>_<Bug> are not part of the program: each is the
\* definition that follows it with a plausible slip, and a check must catch it.

CONSTANTS
  CatCallers,    \* processes making the system call
  CatMaxCalls    \* bound: calls made through the wrapper

ASSUME CatAssumption == IsFiniteSet(CatCallers) /\ CatMaxCalls \in Nat

VARIABLES
  catLoaded, catFound,     \* module loaded; find_sys_call_table found the table
  catEntry, catOld,        \* sys_call_table[NRB] and old: sys or audit
  catOops,                 \* exit wrote through a NULL table and was killed
  counts, catPc, catTmp,   \* the counter; per caller: label, counter read
  catCalls                 \* history: calls through the wrapper since it was loaded

catVars == <<catLoaded, catFound, catEntry, catOld, catOops, counts, catPc, catTmp, catCalls>>
catModule == <<catLoaded, catFound, catEntry, catOld, catOops>>

CatInit ==
  /\ catLoaded = FALSE /\ catFound = FALSE /\ catOops = FALSE
  /\ catEntry = "sys" /\ catOld = "none"
  /\ counts = 0 /\ catCalls = 0
  /\ catPc = [c \in CatCallers |-> "idle"] /\ catTmp = [c \in CatCallers |-> 0]

\* The search for the call instruction in the kernel's code finds the table or not.
find_sys_call_table == {TRUE, FALSE}

\* mysys_init, when nobody is left in an earlier instance's wrapper: it
\* returns 0 in either case.
CatLoad ==
  /\ ~catLoaded /\ \A c \in CatCallers : catPc[c] = "idle"
  /\ catLoaded' = TRUE
  /\ catFound' \in find_sys_call_table
  /\ IF catFound' THEN catOld' = catEntry /\ catEntry' = "audit"
                  ELSE catOld' = "none" /\ UNCHANGED catEntry
  /\ counts' = 0 /\ catCalls' = 0
  /\ UNCHANGED <<catOops, catPc, catTmp>>

CatUnload_NotRestored ==
  /\ catLoaded /\ ~catOops
  /\ catLoaded' = FALSE
  /\ UNCHANGED <<catFound, catEntry, catOld, catOops, counts, catPc, catTmp, catCalls>>

\* mysys_exit: nothing keeps it from running while calls are in the wrapper.
CatUnload ==
  /\ catLoaded /\ ~catOops
  /\ IF catFound THEN catEntry' = catOld /\ catLoaded' = FALSE /\ UNCHANGED catOops
                 ELSE catOops' = TRUE /\ UNCHANGED <<catEntry, catLoaded>>
  /\ UNCHANGED <<catFound, catOld, counts, catPc, catTmp, catCalls>>

CatGoto(c, from, to) == catPc[c] = from /\ catPc' = [catPc EXCEPT ![c] = to]

\* A system call goes where the entry points.
CatCall(c) ==
  /\ IF catEntry = "audit"
       THEN catCalls < CatMaxCalls /\ CatGoto(c, "idle", "read") /\ catCalls' = catCalls + 1
       ELSE CatGoto(c, "idle", "kernel") /\ UNCHANGED catCalls
  /\ UNCHANGED <<catModule, counts, catTmp>>

\* counts++ of audit_sys_call is a read and a write.  The code is there only
\* while the module is.
CountRead(c) ==
  /\ catLoaded /\ CatGoto(c, "read", "write")
  /\ catTmp' = [catTmp EXCEPT ![c] = counts]
  /\ UNCHANGED <<catModule, counts, catCalls>>

CountWrite(c) ==
  /\ catLoaded /\ CatGoto(c, "write", "old")
  /\ counts' = catTmp[c] + 1
  /\ UNCHANGED <<catModule, catTmp, catCalls>>

\* old is called; were it the wrapper itself, the call would go astray.
CallOld(c) ==
  /\ catLoaded
  /\ CatGoto(c, "old", IF catOld = "sys" THEN "kernel for audit" ELSE "astray")
  /\ UNCHANGED <<catModule, counts, catTmp, catCalls>>

\* The kernel's routine returns to the wrapper, if that is still there, or to the caller.
CatReturn(c) ==
  /\ \/ CatGoto(c, "kernel", "idle")
     \/ catLoaded /\ CatGoto(c, "kernel for audit", "idle")
     \/ ~catLoaded /\ CatGoto(c, "kernel for audit", "astray")
  /\ UNCHANGED <<catModule, counts, catTmp, catCalls>>

CatNext ==
  \/ CatLoad \/ CatUnload
  \/ \E c \in CatCallers : CatCall(c) \/ CountRead(c) \/ CountWrite(c) \/ CallOld(c) \/ CatReturn(c)
CatSpec == CatInit /\ [][CatNext]_catVars

CatTypeOK ==
  /\ {catLoaded, catFound, catOops} \subseteq BOOLEAN
  /\ catEntry \in {"sys", "audit"} /\ catOld \in {"none", "sys"}
  /\ counts \in 0..CatMaxCalls /\ catCalls \in 0..CatMaxCalls
  /\ catTmp \in [CatCallers -> 0..CatMaxCalls]
  /\ catPc \in [CatCallers -> {"idle", "read", "write", "old", "kernel", "kernel for audit", "astray"}]

\* Once the module has gone, also after being loaded again and again, the
\* table holds the kernel's own routine: no later call enters the wrapper.
TableRestored == ~catLoaded => catEntry = "sys"

\* While the module stays loaded a call through the wrapper reaches the
\* kernel's routine and returns: only unloading under a call harms it.
OnlyUnloadHurts == (\E c \in CatCallers : catPc[c] = "astray") => ~catLoaded

\* Racing increments (59) may lose calls, but never count more than were
\* made, and never lose all of them.
CountsWithin ==
  /\ counts <= catCalls
  /\ catLoaded /\ catCalls > 0 /\ (\A c \in CatCallers : catPc[c] \notin {"read", "write"}) => counts > 0

\* The wrapper is transparent and its count plausible (56-80): the three
\* properties above.
WrapperSound == TableRestored /\ OnlyUnloadHurts /\ CountsWithin
=============================================================================
