--------------------------- MODULE MCSudoBoards ---------------------------
(***************************************************************************)
(* How the two Sudoku programs make a board, for TLC: Sudo.js's generator  *)
(* (SudoGenerate) and its puzzles (SudoPuzzle), and sudoku.js's search     *)
(* (SudokuSearch), on boards of four by four.  A behaviour moves one of    *)
(* them, chosen at the start, and leaves the others as they are.           *)
(***************************************************************************)
EXTENDS SudoGenerate, SudokuSearch, FourByFour

CONSTANTS
  PzBoards,    \* boards that are made into puzzles
  Blanks       \* bound: sets of cells that initLayout empties

\* A full board on which no two related cells hold the same digit.
FullBoard(b) ==
  /\ b \in [Cells -> Digits]
  /\ \A c, d \in Cells : Related(c, d) /\ c # d => b[c] # b[d]

\* initLayout starts from a board that generate has finished.
ASSUME PzBoardsAssumption == PzBoards # {} /\ \A b \in PzBoards : FullBoard(b)

VARIABLES at, pzLayout, pzSolving, pzTodo

Puzzle == INSTANCE SudoPuzzle WITH
  Boards <- PzBoards,
  layout <- pzLayout, solving <- pzSolving, todo <- pzTodo

pzVars == <<pzLayout, pzSolving, pzTodo>>
bdVars == <<at, vars, srVars, pzVars>>

\* where a program has many initial states, one will do while others move
SearchStands ==
  /\ sudoku = FilledBy([r \in 0..Box-1 |-> CHOOSE f \in Fills : TRUE])
  /\ a = CHOOSE o \in Orders : TRUE
  /\ srAt = 0 /\ srK = [n \in 0..Last-1 |-> 0]
  /\ srBack = FALSE /\ srResult = "none" /\ srGiven = sudoku

PuzzleStands ==
  pzLayout = (CHOOSE b \in PzBoards : TRUE) /\ pzSolving = pzLayout /\ pzTodo = {}

BdInit ==
  /\ Init
  /\ \/ at = "generate" /\ SearchStands /\ PuzzleStands
     \/ at = "search" /\ SrInit /\ PuzzleStands
     \/ at = "puzzle" /\ SearchStands /\ Puzzle!Init

only_generate == at = "generate" /\ UNCHANGED <<at, srVars, pzVars>>
only_search   == at = "search"   /\ UNCHANGED <<at, vars, pzVars>>
only_puzzle   == at = "puzzle"   /\ UNCHANGED <<at, vars, srVars>>

BdNext ==
  \/ Next /\ only_generate
  \/ SrNext /\ only_search
  \/ Puzzle!Next /\ only_puzzle

\* generate, and each call of createSudoku, run to their ends.
BdSpec ==
  /\ BdInit /\ [][BdNext]_bdVars
  /\ WF_bdVars(Next /\ only_generate)
  /\ WF_bdVars(SrStep /\ only_search)

\* A puzzle keeps to its board, and when it is handed out no empty rectangle of it
\* can be swapped.
PuzzleSound == Puzzle!TypeOK /\ Puzzle!NoSwap

\* The inductive invariant: no rectangle that regenerate has come to is empty.
PuzzleInv == Puzzle!TypeOK /\ Puzzle!SeenInv

\* Sudo.js's search ends with a full board; every search of sudoku.js ends.
SearchesEnd == (at = "generate" => Completes) /\ (at = "search" => SearchEnds)
============================================================================
