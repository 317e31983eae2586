----------------------------- MODULE SudoGame -----------------------------
(***************************************************************************)
(* static/tools/sudoku/js/Sudo.js, one page from its load on: the buttons, *)
(* the number panel, the clock, and the two copies of the board, the one   *)
(* on the screen and the one the player's answer is judged by.  The        *)
(* generator (SudoGenerate) hands over any finished board, and how hard a  *)
(* level is decides which of its cells stay: any of them may.              *)
(***************************************************************************)
EXTENDS Naturals, FiniteSets

CONSTANTS
  Cells, Digits,
  Boards,        \* the finished boards
  None,          \* no cell, no timer
  Timers,        \* handles of setInterval
  MaxTime        \* bound: seconds counted

ASSUME BoardsAssumption == Boards \subseteq [Cells -> Digits] /\ 0 \notin Digits
ASSUME MaxTimeAssumption == MaxTime \in Nat
ASSUME NoneAssumption == None \notin Cells \cup Timers

VARIABLES
  layout, solving, resetData,   \* the board, the player's, the puzzle; 0 is empty
  shown, editable,              \* the page: text of each cell (0 is ''), class 'editable'
  panel, editIndex,             \* the number panel is displayed; the cell it writes to
  gameState, gameTimer, usedTime,
  running,                      \* the browser's intervals
  praised                       \* history: "完全正确" has been shown for this game

boards == <<layout, solving, resetData>>
page   == <<shown, editable, panel, editIndex>>
clock  == <<gameTimer, usedTime, running>>
vars   == <<boards, page, gameState, clock, praised>>

\* init: the page before its first board.
Init ==
  /\ layout = [c \in Cells |-> 0] /\ solving = layout /\ resetData = layout
  /\ shown = layout /\ editable = {}
  /\ panel = FALSE /\ editIndex = None
  /\ gameState = "init" /\ gameTimer = None /\ usedTime = 0
  /\ running = {}
  /\ praised = FALSE

\* clearInterval(gameTimer); a handle no longer running does nothing.
StopClock == running' = running \ {gameTimer} /\ UNCHANGED gameTimer

\* gameTimer = setInterval(...), with the intervals of `rest` still running.
NewInterval(rest) ==
  \E t \in Timers \ (running \cup {gameTimer}) :
    gameTimer' = t /\ running' = rest \cup {t}

RestartClock_Leaks == NewInterval(running) /\ usedTime' = 0

\* clearInterval, then a new interval, from zero.
RestartClock == NewInterval(running \ {gameTimer}) /\ usedTime' = 0

(***************************************************************************)
(* The buttons.                                                            *)
(***************************************************************************)
\* Definitions named <Name>_<Bug> are the one they precede with a plausible
\* mistake; they show that a property notices.
Start_ForgetsCell ==
  /\ \E b \in Boards, given \in SUBSET Cells :
       /\ layout' = b
       /\ solving' = [c \in Cells |-> IF c \in given THEN b[c] ELSE 0]
       /\ editable' = Cells \ given
  /\ shown' = solving' /\ resetData' = solving'
  /\ gameState' = "start"
  /\ RestartClock
  /\ praised' = FALSE
  /\ editIndex' = None
  /\ UNCHANGED panel

\* initLayout: a new board, of which the cells `given` are kept; the panel
\* is refilled, but stays where and as it was, and so does editIndex.
Start ==
  /\ \E b \in Boards, given \in SUBSET Cells :
       /\ layout' = b
       /\ solving' = [c \in Cells |-> IF c \in given THEN b[c] ELSE 0]
       /\ editable' = Cells \ given
  /\ shown' = solving' /\ resetData' = solving'
  /\ gameState' = "start"
  /\ RestartClock
  /\ praised' = FALSE
  /\ UNCHANGED <<panel, editIndex>>

\* The other events are bound when the first board is there.
Playing == gameState # "init"

Pause ==
  /\ Playing /\ gameState # "pause"
  /\ gameState' = "pause"
  /\ StopClock
  /\ UNCHANGED <<boards, page, usedTime, praised>>

Continue ==
  /\ gameState = "pause"
  /\ gameState' = "continue"
  /\ NewInterval(running)
  /\ UNCHANGED <<boards, page, usedTime, praised>>

\* reset puts the puzzle back on the screen; `solving` keeps its digits.
Reset ==
  /\ Playing
  /\ shown' = resetData
  /\ gameState' = "start"
  /\ RestartClock
  /\ UNCHANGED <<boards, editable, panel, editIndex, praised>>

ShowAnswer ==
  /\ Playing
  /\ shown' = layout
  /\ gameState' = "start"
  /\ StopClock
  /\ UNCHANGED <<boards, editable, panel, editIndex, usedTime, praised>>

(***************************************************************************)
(* The board, the panel and the clock.                                     *)
(***************************************************************************)
ClickCell ==
  /\ Playing
  /\ \E c \in editable : editIndex' = c
  /\ panel' = TRUE
  /\ UNCHANGED <<boards, shown, editable, gameState, clock, praised>>

\* mouseleave hides the panel: only a pointer that has been over it leaves it.
LeavePanel ==
  /\ panel
  /\ panel' = FALSE
  /\ UNCHANGED <<boards, shown, editable, editIndex, gameState, clock, praised>>

Choose_NotStored ==
  /\ panel /\ \E d \in Digits : shown' = [shown EXCEPT ![editIndex] = d]
  /\ panel' = FALSE
  /\ UNCHANGED <<boards, editable, editIndex, gameState, clock, praised>>

\* checkAllAnswer, called once no cell is empty: is the player's board right?
Judge == IF solving' = layout THEN StopClock /\ praised' = TRUE
                              ELSE UNCHANGED <<gameTimer, running, praised>>

\* A digit of the panel goes into the cell, and the board is judged.
Choose ==
  /\ panel /\ \E d \in Digits :
       /\ shown' = [shown EXCEPT ![editIndex] = d]
       /\ solving' = [solving EXCEPT ![editIndex] = d]
  /\ panel' = FALSE
  /\ Judge
  /\ UNCHANGED <<layout, resetData, editable, editIndex, gameState, usedTime>>

\* showTime
Tick ==
  /\ usedTime < MaxTime
  /\ \E t \in running : usedTime' = usedTime + 1
  /\ UNCHANGED <<boards, page, gameState, gameTimer, running, praised>>

Next ==
  \/ Start \/ Pause \/ Continue \/ Reset \/ ShowAnswer
  \/ ClickCell \/ LeavePanel \/ Choose \/ Tick

Spec == Init /\ [][Next]_vars

(***************************************************************************)
(* Properties.                                                             *)
(***************************************************************************)
Board == [Cells -> Digits \cup {0}]

\* Every variable has its type; an open panel has a cell to write to.
TypeOK ==
  /\ layout \in Board /\ solving \in Board /\ resetData \in Board
  /\ shown \in Board /\ editable \subseteq Cells
  /\ panel \in BOOLEAN /\ editIndex \in Cells \cup {None}
  /\ panel => editIndex \in Cells
  /\ gameState \in {"init", "start", "pause", "continue"}
  /\ gameTimer \in Timers \cup {None} /\ running \subseteq Timers
  /\ usedTime \in 0..MaxTime
  /\ praised \in BOOLEAN

\* In whatever order the buttons are pressed, only the interval the program
\* can still clear is running: seconds are never counted twice.
OneClock == running \subseteq {gameTimer}

\* A paused game's clock stands.
PausedStands == gameState = "pause" => running = {}

\* Both: seconds are counted once while a game goes on, and not in a pause.
ClockSound == OneClock /\ PausedStands

\* Each digit on the screen is the puzzle's, the player's or the answer's of
\* this game, never one left from another.
ShownHasSource == \A c \in Cells : shown[c] \in {resetData[c], solving[c], layout[c]}

IInv == TypeOK /\ OneClock /\ PausedStands /\ ShownHasSource

\* A player is told "完全正确" when the board on the screen is right.
PraisedIsShown == [][praised' /\ ~praised => shown' = layout']_vars

\* A cell that cannot be edited is right, so every game can be completed.
Completable == \A c \in Cells \ editable : solving[c] = layout[c]
============================================================================
