-------------------------- MODULE SudoGameProofs --------------------------
(***************************************************************************)
(* The clock and the screen of Sudo.js (SudoGame), for every board, every  *)
(* set of digits and every order of events.                                *)
(***************************************************************************)
EXTENDS SudoGame, TLAPS

LEMMA InitInv == Init => IInv
<1> SUFFICES ASSUME Init PROVE IInv
  OBVIOUS
<1>1. layout \in Board
  BY DEF Init, Board
<1>2. TypeOK
  <2>1. solving \in Board /\ resetData \in Board /\ shown \in Board
    BY <1>1 DEF Init
  <2>2. usedTime \in 0..MaxTime
    BY MaxTimeAssumption DEF Init
  <2>3. QED
    BY <1>1, <2>1, <2>2 DEF Init, TypeOK
<1>3. QED
  BY <1>2 DEF Init, IInv, OneClock, PausedStands, ShownHasSource

\* One action at a time, the types are kept.
LEMMA TypeStep == ASSUME IInv, [Next]_vars PROVE TypeOK'
<1> USE MaxTimeAssumption DEF IInv, TypeOK, Board
<1>1. CASE Start
  <2>1. PICK b \in Boards, given \in SUBSET Cells :
          /\ layout' = b
          /\ solving' = [c \in Cells |-> IF c \in given THEN b[c] ELSE 0]
          /\ editable' = Cells \ given
    BY <1>1 DEF Start
  <2>2. b \in [Cells -> Digits]
    BY BoardsAssumption
  <2>3. layout' \in Board /\ solving' \in Board /\ shown' \in Board /\ resetData' \in Board
    <3>1. layout' \in [Cells -> Digits \cup {0}]
      BY <2>1, <2>2
    <3>2. solving' \in [Cells -> Digits \cup {0}]
      <4>1. \A c \in Cells : (IF c \in given THEN b[c] ELSE 0) \in Digits \cup {0}
        BY <2>2
      <4>2. QED
        BY <2>1, <4>1
    <3>3. shown' = solving' /\ resetData' = solving'
      BY <1>1 DEF Start
    <3>4. QED
      BY <3>1, <3>2, <3>3
  <2>4. /\ gameTimer' \in Timers /\ running' \subseteq Timers
        /\ usedTime' \in 0..MaxTime
    BY <1>1 DEF Start, RestartClock, NewInterval
  <2>5. editable' \subseteq Cells
    BY <2>1
  <2>6. panel' = panel /\ editIndex' = editIndex /\ gameState' = "start" /\ praised' = FALSE
    BY <1>1 DEF Start
  <2>7. QED
    BY <2>3, <2>4, <2>5, <2>6
<1>2. CASE Choose
  <2>1. PICK d \in Digits : /\ shown' = [shown EXCEPT ![editIndex] = d]
                            /\ solving' = [solving EXCEPT ![editIndex] = d]
    BY <1>2 DEF Choose, Judge
  <2>2. shown' \in Board /\ solving' \in Board
    BY <2>1
  <2>3. gameTimer' = gameTimer /\ running' \subseteq running /\ praised' \in BOOLEAN
    BY <1>2 DEF Choose, Judge, StopClock
  <2>4. QED
    BY <1>2, <2>2, <2>3 DEF Choose, Judge
<1>3. CASE Pause
  BY <1>3 DEF Pause, StopClock, boards, page
<1>4. CASE Continue
  BY <1>4 DEF Continue, NewInterval, boards, page
<1>5. CASE Reset
  BY <1>5 DEF Reset, RestartClock, NewInterval, boards
<1>6. CASE ShowAnswer
  BY <1>6 DEF ShowAnswer, StopClock, boards
<1>7. CASE ClickCell
  BY <1>7 DEF ClickCell, boards, clock
<1>8. CASE LeavePanel
  BY <1>8 DEF LeavePanel, boards, clock
<1>9. CASE Tick
  BY <1>9 DEF Tick, boards, page
<1>10. CASE UNCHANGED vars
  BY <1>10 DEF vars, boards, page, clock
<1>11. QED
  BY <1>1, <1>2, <1>3, <1>4, <1>5, <1>6, <1>7, <1>8, <1>9, <1>10 DEF Next

\* An interval is started only where the one before has been cleared.
LEMMA ClockStep == ASSUME IInv, [Next]_vars PROVE OneClock' /\ PausedStands'
<1> USE DEF IInv, OneClock, PausedStands
<1>1. CASE Start \/ Reset
  BY <1>1 DEF Start, Reset, RestartClock, NewInterval
<1>2. CASE Pause \/ ShowAnswer
  BY <1>2 DEF Pause, ShowAnswer, StopClock
<1>3. CASE Continue
  BY <1>3 DEF Continue, NewInterval
<1>4. CASE Choose
  <2>1. gameState' = gameState /\ gameTimer' = gameTimer /\ running' \subseteq running
    BY <1>4 DEF Choose, Judge, StopClock
  <2>2. QED
    BY <2>1
<1>5. CASE ClickCell \/ LeavePanel \/ Tick \/ UNCHANGED vars
  BY <1>5 DEF ClickCell, LeavePanel, Tick, vars, clock
<1>6. QED
  BY <1>1, <1>2, <1>3, <1>4, <1>5 DEF Next

\* A digit comes to the screen together with the entry it shows, or from the
\* puzzle, or from the answer.
LEMMA SourceStep == ASSUME IInv, [Next]_vars PROVE ShownHasSource'
<1> USE DEF IInv, ShownHasSource
<1>1. CASE Start
  BY <1>1 DEF Start
<1>2. CASE Choose
  <2>1. PICK d \in Digits : /\ shown' = [shown EXCEPT ![editIndex] = d]
                            /\ solving' = [solving EXCEPT ![editIndex] = d]
    BY <1>2 DEF Choose, Judge
  <2>2. shown \in Board /\ solving \in Board
    BY DEF TypeOK
  <2>3. layout' = layout /\ resetData' = resetData
    BY <1>2 DEF Choose, Judge
  <2>4. ASSUME NEW c \in Cells PROVE shown'[c] \in {resetData'[c], solving'[c], layout'[c]}
    BY <2>1, <2>2, <2>3 DEF Board
  <2>5. QED
    BY <2>4
<1>3. CASE Reset \/ ShowAnswer
  BY <1>3 DEF Reset, ShowAnswer, boards
<1>4. CASE Pause \/ Continue \/ ClickCell \/ LeavePanel \/ Tick \/ UNCHANGED vars
  BY <1>4 DEF Pause, Continue, ClickCell, LeavePanel, Tick, vars, boards, page
<1>5. QED
  BY <1>1, <1>2, <1>3, <1>4 DEF Next

LEMMA GameInvariance == Spec => []IInv
<1>1. IInv /\ [Next]_vars => IInv'
  BY TypeStep, ClockStep, SourceStep DEF IInv
<1>2. QED
  BY <1>1, InitInv, PTL DEF Spec

\* Whatever the order of the buttons, at most one interval runs, it is the one
\* the program can clear, and in a paused game there is none.
THEOREM ClockKept == Spec => []ClockSound
BY GameInvariance, PTL DEF IInv, ClockSound

\* Whatever the order of the buttons, every variable keeps its type, and an open
\* number panel has a cell to write to.
THEOREM GameTypeCorrect == Spec => []TypeOK
BY GameInvariance, PTL DEF IInv

\* No digit on the screen is left from an earlier game.
THEOREM ScreenSourced == Spec => []ShownHasSource
BY GameInvariance, PTL DEF IInv
============================================================================
