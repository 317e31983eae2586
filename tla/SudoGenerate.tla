--------------------------- MODULE SudoGenerate ---------------------------
(***************************************************************************)
(* static/tools/sudoku/js/Sudo.js, generate: fills a Sudoku board cell by  *)
(* cell, in row order, and steps back from a cell whose candidates are     *)
(* used up.  A candidate list is computed when its cell is entered anew    *)
(* and kept while the search comes back to the cell from behind.           *)
(*                                                                         *)
(* In the code answer[cell] is a shuffled list and answerPosition[cell]    *)
(* how many of its entries have been tried.  Here answer[cell] is the set  *)
(* of the list's nonzero entries and used[cell] the tried ones: drawing    *)
(* the order beforehand or each next entry when it is wanted are the same. *)
(***************************************************************************)
EXTENDS Naturals

CONSTANTS
  Size,      \* rows, columns and digits; 9 on the page
  SubNum     \* rows of a box: Math.floor(Math.sqrt(size))

ASSUME SizeAssumption == SubNum \in Nat \ {0} /\ Size = SubNum * SubNum

VARIABLES
  layout,           \* digit of each cell, 0 when empty
  answer, used,     \* candidates of each cell, and those already tried
  curRow, curCol    \* the cell to be filled

vars == <<layout, answer, used, curRow, curCol>>

Digits == 1..Size
Cells  == (0..Size-1) \X (0..Size-1)
cur    == <<curRow, curCol>>

\* Same row, same column or same box.
Related(c, d) ==
  \/ c[1] = d[1]
  \/ c[2] = d[2]
  \/ c[1] \div SubNum = d[1] \div SubNum /\ c[2] \div SubNum = d[2] \div SubNum

\* Definitions named <Name>_<Bug> are the one they precede with a plausible
\* mistake; they show that a property notices.
Candidates_NoBox(c) ==
  Digits \ {layout[d] : d \in {e \in Cells : c[1] = e[1] \/ c[2] = e[2]}}

\* getAnswer: the digits no related cell holds.
Candidates(c) == Digits \ {layout[d] : d \in {e \in Cells : Related(c, e)}}

\* The cell's list: a new one unless the search has been here and comes back.
Answers == IF used[cur] = {} THEN Candidates(cur) ELSE answer[cur]
Untried == Answers \ used[cur]

Init ==
  /\ layout = [c \in Cells |-> 0]
  /\ answer = [c \in Cells |-> {}]
  /\ used   = [c \in Cells |-> {}]
  /\ curRow = 0 /\ curCol = 0

\* The loop goes on: there is a cell to fill, and not "全部回溯完毕" (every
\* candidate of the first cell has been tried).
Enter ==
  /\ curRow # Size /\ ~(Untried = {} /\ cur = <<0, 0>>)
  /\ answer' = [answer EXCEPT ![cur] = Answers]

\* The code goes back to column 8 and on from column 8, whatever the size,
\* which is Size - 1 on the page.
LastCol == Size - 1

StepBack ==
  IF curCol > 0 THEN curCol' = curCol - 1 /\ curRow' = curRow
                ELSE curCol' = LastCol    /\ curRow' = curRow - 1

StepOn_Late ==
  IF curCol > LastCol THEN curCol' = 0      /\ curRow' = curRow + 1
                      ELSE curCol' = curCol + 1 /\ curRow' = curRow

StepOn ==
  IF curCol = LastCol THEN curCol' = 0      /\ curRow' = curRow + 1
                      ELSE curCol' = curCol + 1 /\ curRow' = curRow

Back_KeepsPosition ==
  /\ Enter
  /\ Untried = {}
  /\ StepBack
  /\ layout' = [layout EXCEPT ![<<curRow', curCol'>>] = 0]
  /\ UNCHANGED used

\* No candidate, or none left: the cell is forgotten and the one before it
\* emptied.
Back ==
  /\ Enter
  /\ Untried = {}
  /\ used' = [used EXCEPT ![cur] = {}]
  /\ StepBack
  /\ layout' = [layout EXCEPT ![<<curRow', curCol'>>] = 0]

Place_NotCounted ==
  /\ Enter
  /\ \E v \in Untried : layout' = [layout EXCEPT ![cur] = v]
  /\ StepOn
  /\ UNCHANGED used

\* The next candidate is placed and the search goes on to the next cell.
Place ==
  /\ Enter
  /\ \E v \in Untried :
       /\ layout' = [layout EXCEPT ![cur] = v]
       /\ used' = [used EXCEPT ![cur] = @ \cup {v}]
  /\ StepOn

Next == Back \/ Place

Spec == Init /\ [][Next]_vars

(***************************************************************************)
(* Properties.                                                             *)
(***************************************************************************)
\* Every variable has its type, and the cursor is on the board or past it.
TypeOK ==
  /\ layout \in [Cells -> 0..Size]
  /\ answer \in [Cells -> SUBSET Digits]
  /\ used \in [Cells -> SUBSET Digits]
  /\ curRow \in 0..Size /\ curCol \in 0..Size-1
  /\ curRow = Size => curCol = 0

Before(c, d) == c[1] < d[1] \/ (c[1] = d[1] /\ c[2] < d[2])

\* The cells before the cursor, and no others, hold digits, and no two
\* related cells the same; so a finished board is a valid one.
ValidSoFar ==
  /\ \A c \in Cells : layout[c] # 0 <=> Before(c, cur)
  /\ \A c, d \in Cells : Related(c, d) /\ c # d /\ layout[c] # 0 => layout[c] # layout[d]

\* A list is kept across visits only as long as it is right: whenever some
\* of it has been tried, no related cell further ahead has changed.
Ahead(c) == {layout[d] : d \in {e \in Cells : Related(c, e) /\ Before(e, c)}}
ListsAreCurrent ==
  \A c \in Cells : used[c] # {} => answer[c] = Digits \ Ahead(c) /\ used[c] \subseteq answer[c]

\* The inductive invariant: a cell holds one of its tried candidates exactly
\* if it is before the cursor, and a cell behind the cursor has none.
SearchInv ==
  \A c \in Cells :
    /\ Before(c, cur) => layout[c] \in used[c]
    /\ ~Before(c, cur) => layout[c] = 0
    /\ Before(cur, c) => used[c] = {}

IInv == TypeOK /\ SearchInv /\ ListsAreCurrent

\* The search ends, and ends with a full board.
Completes == <>[](curRow = Size)
============================================================================
