---------------------------- MODULE SudokuBoard ----------------------------
(***************************************************************************)
(* static/tools/sudoku/js/sudoku.js: the board and the tests both parts of *)
(* the page, the search (SudokuSearch) and the game (SudokuPage), put to   *)
(* it.  Rows and columns count from 0, as in the code.                     *)
(***************************************************************************)
EXTENDS Functions

CONSTANT Box   \* squares along the side of a block: 3 on the page

ASSUME BoxAssumption == Box \in Nat \ {0}

VARIABLE sudoku   \* the board the search fills, and then the player

Width   == Box * Box
Numbers == 1..Width
Squares == (0..Width-1) \X (0..Width-1)
Sheets  == [Squares -> 0..Width]   \* 0 is an empty square

SameBlock(p, q) == p[1] \div Box = q[1] \div Box /\ p[2] \div Box = q[2] \div Box

\* checkRow, checkColumn and checkBlock: no square of the line holds x.
checkRow(b, p, x)    == \A q \in Squares : q[1] = p[1] => b[q] # x
checkColumn(b, p, x) == \A q \in Squares : q[2] = p[2] => b[q] # x
checkBlock(b, p, x)  == \A q \in Squares : SameBlock(p, q) => b[q] # x

\* Definitions named <Name>_<Bug> are the one they precede with a plausible
\* mistake; they show that a property notices.
check_NoColumn(b, p, x) == x \in Numbers /\ checkRow(b, p, x) /\ checkBlock(b, p, x)

check(b, p, x) ==
  /\ x \in Numbers
  /\ checkRow(b, p, x) /\ checkColumn(b, p, x) /\ checkBlock(b, p, x)

Lines_ButLast == {{q \in Squares : q[1] = n} : n \in 0..Width-2}
   \cup {{q \in Squares : q[2] = n} : n \in 0..Width-2}
   \cup {{q \in Squares : SameBlock(p, q)} : p \in (0..Width-1) \X (0..Width-Box-1)}

\* The rows, the columns and the blocks.
Lines == {{q \in Squares : q[1] = n} : n \in 0..Width-1}
   \cup {{q \in Squares : q[2] = n} : n \in 0..Width-1}
   \cup {{q \in Squares : SameBlock(p, q)} : p \in Squares}

\* sudokuOK: every row, column and block adds up to 45, on a page of nine.
sudokuOK(b) == \A l \in Lines : 2 * SumFunctionOnSet(b, l) = Width * (Width + 1)

(***************************************************************************)
(* What a board should be, whatever the code tests.                        *)
(***************************************************************************)
InLine(p, q) == p # q /\ (p[1] = q[1] \/ p[2] = q[2] \/ SameBlock(p, q))

\* No two squares of a line hold the same number.
NoClash(b) == \A p, q \in Squares : InLine(p, q) /\ b[p] # 0 => b[p] # b[q]

Full(b) == \A p \in Squares : b[p] # 0
============================================================================
