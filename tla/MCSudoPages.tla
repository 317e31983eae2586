---------------------------- MODULE MCSudoPages ----------------------------
(***************************************************************************)
(* The two Sudoku pages for TLC: Sudo.js's (SudoGame) on a board of two    *)
(* cells and sudoku.js's (SudokuPage) on boards of four by four.  A        *)
(* behaviour moves one of them and leaves the other as it is.              *)
(***************************************************************************)
EXTENDS MCSudoGame, SudokuPage, FourByFour, TLC

VARIABLE at

\* From each row one square is taken, from one of them two, so that a wrong number
\* can go in, or, at the second level, three.
FourHoles ==
  {[i \in 0..3 |-> IF i = 0 THEN {2, 3} ELSE {3}],
   [i \in 0..3 |-> IF i = 3 THEN {1, 2, 3} ELSE {i}]}

pagesVars == <<at, vars, pgVars>>

\* one game of the other page will do while Sudo.js's moves
PageStands ==
  LET b == CHOOSE b \in Answers : TRUE
      d == CHOOSE d \in Levels : TRUE
  IN /\ answer = b /\ sudoku = b /\ puzzle = b /\ table = b /\ inputs = {}
     /\ difficulty = d
     /\ countTime = TRUE /\ count = 0 /\ timerId \in TimerIds /\ timeouts = {timerId}

PagesInit ==
  /\ Init
  /\ \/ at = "Sudo" /\ PageStands
     \/ at = "sudoku" /\ PgInit

PagesNext ==
  \/ Next /\ at = "Sudo" /\ UNCHANGED <<at, pgVars>>
  \/ PgNext /\ at = "sudoku" /\ UNCHANGED <<at, vars>>

PagesSpec == PagesInit /\ [][PagesNext]_pagesVars

TimerSymmetry == Permutations(TimerIds)
============================================================================
