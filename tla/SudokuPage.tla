---------------------------- MODULE SudokuPage ----------------------------
(***************************************************************************)
(* static/tools/sudoku/js/sudoku.js, the page from its load on: what the   *)
(* player enters, the three buttons, the level, the clock.  JavaScript     *)
(* runs a handler to its end, also over an alert or a question, so each is *)
(* one action.  The finished board is one of those that SudokuSearch       *)
(* returns, and `table`, the elements of the page, is what they show.      *)
(***************************************************************************)
EXTENDS SudokuBoard, FiniteSets

CONSTANTS
  Answers,     \* finished boards
  Holes,       \* bound: for each row, the columns createGame may empty
  Levels,      \* values of difficulty: 3, 5 and 7 on the page
  TimerIds,    \* what setTimeout returns
  MaxCount     \* bound: seconds counted

ASSUME AnswersAssumption ==
  Answers \subseteq {b \in [Squares -> Numbers] : NoClash(b)}
ASSUME HolesAssumption == Holes \subseteq [0..Width-1 -> SUBSET (0..Width-1)]
ASSUME LevelsAssumption == Levels \subseteq Nat \ {0}
ASSUME MaxCountAssumption == MaxCount \in Nat

VARIABLES
  answer,             \* the finished board
  table, inputs,      \* text of each square (0: none), those with an input field
  difficulty,
  countTime, count, timerId,
  timeouts,           \* the browser's timeouts that will call timer
  puzzle              \* history: the board as createGame left it

sheets == <<sudoku, answer, table, inputs, puzzle>>
watch  == <<countTime, count, timerId, timeouts>>
pgVars == <<sheets, difficulty, watch>>

(***************************************************************************)
(* The clock.                                                              *)
(***************************************************************************)
\* Definitions named <Name>_<Bug> are the one they precede with a plausible
\* mistake; they show that a property notices.
endTimer_LeavesTimeout ==
  /\ countTime' = FALSE
  /\ UNCHANGED <<count, timerId, timeouts>>

endTimer ==
  /\ countTime' = FALSE
  /\ timeouts' = timeouts \ {timerId}
  /\ UNCHANGED <<count, timerId>>

\* setTimeout while the timeouts of `rest` are waiting.
SetTimeout(rest) ==
  \E t \in TimerIds \ (rest \cup {timerId}) : timerId' = t /\ timeouts' = rest \cup {t}

\* endTimer, and later in the same handler startTimer.
restartTimer == countTime' = TRUE /\ count' = 0 /\ SetTimeout(timeouts \ {timerId})

\* timer: a second is over.
timer ==
  /\ count < MaxCount
  /\ \E t \in timeouts :
       IF countTime THEN SetTimeout(timeouts \ {t})
                    ELSE timeouts' = timeouts \ {t} /\ UNCHANGED timerId
  /\ count' = count + 1
  /\ UNCHANGED <<sheets, difficulty, countTime>>

(***************************************************************************)
(* A new game.                                                             *)
(***************************************************************************)
\* setTable: what is not empty is shown and fixed, the rest can be entered.
setTable(b) == table' = b /\ inputs' = {p \in Squares : b[p] = 0}

\* createGame's digging: in every row `difficulty` or one more draws of a
\* column, some perhaps the same.
Dug(b, holes) == [p \in Squares |-> IF p[2] \in holes[p[1]] THEN 0 ELSE b[p]]

createGame ==
  \E b \in Answers, holes \in Holes :
    /\ \A i \in 0..Width-1 : Cardinality(holes[i]) \in 1..difficulty+1
    /\ answer' = b
    /\ sudoku' = Dug(b, holes)
    /\ puzzle' = Dug(b, holes)

\* The button for another game, and the end of one that is won.
startGame ==
  /\ createGame
  /\ setTable(sudoku')
  /\ restartTimer
  /\ UNCHANGED difficulty

\* The page is loaded: its first game.
PgInit ==
  /\ difficulty \in Levels
  /\ \E b \in Answers, holes \in Holes :
       /\ \A i \in 0..Width-1 : Cardinality(holes[i]) \in 1..difficulty+1
       /\ answer = b /\ sudoku = Dug(b, holes)
  /\ puzzle = sudoku /\ table = sudoku /\ inputs = {p \in Squares : sudoku[p] = 0}
  /\ countTime = TRUE /\ count = 0
  /\ timerId \in TimerIds /\ timeouts = {timerId}

\* easy, hard and disgust: for the next game.
SetLevel ==
  /\ difficulty' \in Levels
  /\ UNCHANGED <<sheets, watch>>

(***************************************************************************)
(* The player's entries.                                                   *)
(***************************************************************************)
\* gameOver, when the board, as it now is, adds up: the clock stops, and the
\* player may go on to another game or stay.
Judged(b) == IF sudokuOK(b) THEN endTimer ELSE UNCHANGED watch

\* Something else than before has been entered: 0 stands for what is no number
\* of 1 to 9, which check refuses.
Entered(p, x) == p \in inputs /\ (x = 0 \/ x # table[p])

Accept(p, x) ==
  /\ Entered(p, x) /\ check(sudoku, p, x)
  /\ sudoku' = [sudoku EXCEPT ![p] = x]
  /\ table' = [table EXCEPT ![p] = x]
  /\ Judged(sudoku')
  /\ UNCHANGED <<answer, inputs, puzzle, difficulty>>

Refuse_StaysOnPage(p, x) ==
  /\ Entered(p, x) /\ ~check(sudoku, p, x)
  /\ table' = [table EXCEPT ![p] = x]
  /\ Judged(sudoku)
  /\ UNCHANGED <<sudoku, answer, inputs, puzzle, difficulty>>

\* The field is emptied; what was accepted there before stays in sudoku.
Refuse(p, x) ==
  /\ Entered(p, x) /\ ~check(sudoku, p, x)
  /\ table' = [table EXCEPT ![p] = 0]
  /\ Judged(sudoku)
  /\ UNCHANGED <<sudoku, answer, inputs, puzzle, difficulty>>

\* The same, when the player has won and answers that there shall be another game.
Again(p, x) ==
  /\ Entered(p, x)
  /\ sudokuOK(IF check(sudoku, p, x) THEN [sudoku EXCEPT ![p] = x] ELSE sudoku)
  /\ startGame

onInput == \E p \in Squares, x \in 0..Width : Accept(p, x) \/ Refuse(p, x) \/ Again(p, x)

(***************************************************************************)
(* The other two buttons.                                                  *)
(***************************************************************************)
\* The board as it is, with the player's numbers, is set: they are fixed now.
resetGame ==
  /\ setTable(sudoku)
  /\ restartTimer
  /\ UNCHANGED <<sudoku, answer, puzzle, difficulty>>

showAnswer ==
  /\ table' = answer /\ inputs' = {}
  /\ endTimer
  /\ UNCHANGED <<sudoku, answer, puzzle, difficulty>>

PgNext == startGame \/ SetLevel \/ onInput \/ resetGame \/ showAnswer \/ timer

PgSpec == PgInit /\ [][PgNext]_pgVars

(***************************************************************************)
(* Properties.                                                             *)
(***************************************************************************)
PgTypeOK ==
  /\ sudoku \in Sheets /\ answer \in [Squares -> Numbers] /\ puzzle \in Sheets
  /\ table \in Sheets /\ inputs \subseteq Squares
  /\ difficulty \in Levels
  /\ countTime \in BOOLEAN /\ count \in 0..MaxCount
  /\ timerId \in TimerIds /\ timeouts \subseteq TimerIds

\* Whatever is entered, the player's board obeys the rules and keeps the
\* puzzle's numbers, and an input field never stands over one of them.
BoardKept ==
  /\ PgTypeOK
  /\ NoClash(sudoku)
  /\ \A p \in Squares : puzzle[p] # 0 => sudoku[p] = puzzle[p] /\ p \notin inputs

\* sudokuOK only adds up, yet who is congratulated has a full board without a clash.
WonIsSolved == sudokuOK(sudoku) => Full(sudoku) /\ NoClash(sudoku)

\* The page shows what the board holds, except that a field may have been emptied
\* over a number that stays; only the answer is shown in place of the board.
PageShowsBoard ==
  \/ table = answer /\ inputs = {}
  \/ \A p \in Squares : /\ table[p] \in {sudoku[p]} \cup (IF p \in inputs THEN {0} ELSE {})
                        /\ sudoku[p] = 0 => p \in inputs

\* In whatever order the buttons are pressed, a game that is going on has one
\* timeout waiting, the one the page can clear, and one that is over has none.
OneTimeout == timeouts = IF countTime THEN {timerId} ELSE {}

\* What the page promises of a board: the inductive invariant.
PgInv == BoardKept /\ PageShowsBoard /\ OneTimeout
============================================================================
