------------------------- MODULE SudoBoardsProofs -------------------------
(***************************************************************************)
(* For a board of any size: what the generator of Sudo.js has placed is    *)
(* always a valid part of a board, and the candidate lists it keeps are    *)
(* right (SudoGenerate; the inductive invariant is IInv); and a puzzle     *)
(* that is handed out has no rectangle left whose digits can be swapped    *)
(* (SudoPuzzle, in MCSudoBoards; the inductive invariant is PuzzleInv).    *)
(***************************************************************************)
EXTENDS MCSudoBoards, FiniteSetTheorems, TLAPS

\* Size and SubNum are positive.
LEMMA SizeType == Size \in Nat /\ Size >= 1 /\ SubNum \in Nat /\ SubNum >= 1
<1>1. SubNum \in Nat /\ SubNum >= 1 /\ Size = SubNum * SubNum
  BY SizeAssumption
<1>2. \A n \in Nat : n >= 1 => n * n \in Nat /\ n * n >= 1
  OBVIOUS
<1>3. QED
  BY <1>1, <1>2

\* A cell is a pair of coordinates.
LEMMA CellType ==
  /\ \A c \in Cells : c[1] \in 0..Size-1 /\ c[2] \in 0..Size-1 /\ c = <<c[1], c[2]>>
  /\ \A i, j \in 0..Size-1 : <<i, j>> \in Cells
BY SizeType DEF Cells

\* Row order is a strict total order of the cells.
LEMMA Order ==
  ASSUME NEW c \in Cells, NEW d \in Cells
  PROVE  /\ ~(Before(c, d) /\ Before(d, c))
         /\ ~Before(c, c)
         /\ Before(c, d) \/ Before(d, c) \/ c = d
BY CellType, SizeType DEF Before

\* While there is a cell to fill, the cursor is a cell.
LEMMA CursorType ==
  ASSUME TypeOK, curRow # Size
  PROVE  cur \in Cells /\ cur[1] = curRow /\ cur[2] = curCol
BY CellType, SizeType DEF TypeOK, cur

\* A step on moves the cursor to the next cell, or past the last.
LEMMA StepOnOrder ==
  ASSUME TypeOK, curRow # Size, StepOn
  PROVE  /\ curRow' \in 0..Size /\ curCol' \in 0..Size-1 /\ (curRow' = Size => curCol' = 0)
         /\ \A c \in Cells : Before(c, cur') <=> Before(c, cur) \/ c = cur
         /\ \A c \in Cells : Before(cur', c) => Before(cur, c)
<1>1. curRow \in 0..Size-1 /\ curCol \in 0..Size-1
  BY SizeType DEF TypeOK
<1>2. CASE curCol = Size - 1
  <2>1. curCol' = 0 /\ curRow' = curRow + 1
    BY <1>2 DEF StepOn, LastCol
  <2>2. QED
    BY <1>1, <1>2, <2>1, CellType, SizeType DEF Before, cur
<1>3. CASE curCol # Size - 1
  <2>1. curCol' = curCol + 1 /\ curRow' = curRow
    BY <1>3 DEF StepOn, LastCol
  <2>2. QED
    BY <1>1, <1>3, <2>1, CellType, SizeType DEF Before, cur
<1>4. QED
  BY <1>2, <1>3

\* A step back from any cell but the first moves the cursor to the cell before.
LEMMA StepBackOrder ==
  ASSUME TypeOK, curRow # Size, cur # <<0, 0>>, StepBack
  PROVE  /\ cur' \in Cells /\ curRow' \in 0..Size-1 /\ curCol' \in 0..Size-1
         /\ \A c \in Cells : Before(c, cur) <=> Before(c, cur') \/ c = cur'
         /\ \A c \in Cells : Before(cur', c) => Before(cur, c) \/ c = cur
<1>1. curRow \in 0..Size-1 /\ curCol \in 0..Size-1 /\ (curRow # 0 \/ curCol # 0)
  BY SizeType DEF TypeOK, cur
<1>2. CASE curCol > 0
  <2>1. curCol' = curCol - 1 /\ curRow' = curRow
    BY <1>2 DEF StepBack
  <2>2. QED
    BY <1>1, <1>2, <2>1, CellType, SizeType DEF Before, cur
<1>3. CASE ~(curCol > 0)
  <2>1. curCol' = Size - 1 /\ curRow' = curRow - 1
    BY <1>3 DEF StepBack, LastCol
  <2>2. QED
    BY <1>1, <1>3, <2>1, CellType, SizeType DEF Before, cur
<1>4. QED
  BY <1>2, <1>3

\* The list a loop round works with is right: what a new list leaves out on
\* account of the cells behind the cursor is nothing, for they are empty.
LEMMA AnswersRight ==
  ASSUME IInv, curRow # Size
  PROVE  /\ Answers = Digits \ Ahead(cur)
         /\ used[cur] \subseteq Answers
         /\ Answers \subseteq Digits
<1>1. cur \in Cells
  BY CursorType DEF IInv
<1>2. CASE used[cur] # {}
  BY <1>1, <1>2 DEF IInv, ListsAreCurrent, Answers
<1>3. CASE used[cur] = {}
  <2>1. \A e \in Cells : layout[e] \in Digits <=> Before(e, cur)
    BY SizeType DEF IInv, SearchInv, TypeOK, Digits
  <2>2. Candidates(cur) = Digits \ Ahead(cur)
    BY <2>1, <1>1 DEF Candidates, Ahead
  <2>3. QED
    BY <1>3, <2>2 DEF Answers
<1>4. QED
  BY <1>2, <1>3

\* The cells ahead of c are those they were when no cell ahead of c changed.
LEMMA AheadKept ==
  ASSUME NEW c \in Cells, \A e \in Cells : Before(e, c) => layout'[e] = layout[e]
  PROVE  Ahead(c)' = Ahead(c)
BY DEF Ahead

LEMMA InitInv == Init => IInv
<1>1. SUFFICES ASSUME Init PROVE IInv
  OBVIOUS
<1>2. TypeOK
  BY <1>1, SizeType DEF Init, TypeOK
<1>3. \A c \in Cells : ~Before(c, cur)
  BY <1>1, CellType, SizeType DEF Init, Before, cur
<1>4. SearchInv /\ ListsAreCurrent
  BY <1>1, <1>3 DEF Init, SearchInv, ListsAreCurrent
<1>5. QED
  BY <1>2, <1>4 DEF IInv

\* Placing a digit keeps the invariant.
LEMMA PlaceStep == ASSUME IInv, Place PROVE IInv'
<1>1. curRow # Size /\ cur \in Cells
  BY CursorType DEF Place, Enter, IInv
<1>2. PICK v \in Untried : /\ layout' = [layout EXCEPT ![cur] = v]
                           /\ used' = [used EXCEPT ![cur] = @ \cup {v}]
  BY DEF Place
<1>3. answer' = [answer EXCEPT ![cur] = Answers]
  BY DEF Place, Enter
<1>4. /\ Answers = Digits \ Ahead(cur) /\ used[cur] \subseteq Answers
      /\ v \in Answers /\ v \in Digits
  BY <1>1, <1>2, AnswersRight DEF Untried
<1>5. /\ curRow' \in 0..Size /\ curCol' \in 0..Size-1 /\ (curRow' = Size => curCol' = 0)
      /\ \A c \in Cells : Before(c, cur') <=> Before(c, cur) \/ c = cur
      /\ \A c \in Cells : Before(cur', c) => Before(cur, c)
  BY <1>1, StepOnOrder DEF Place, IInv
<1>6. /\ layout \in [Cells -> 0..Size]
      /\ used \in [Cells -> SUBSET Digits] /\ answer \in [Cells -> SUBSET Digits]
  BY DEF IInv, TypeOK
<1>7. TypeOK'
  <2> v \in 0..Size
    BY <1>4, SizeType DEF Digits
  <2>1. layout' \in [Cells -> 0..Size]
    BY <1>2, <1>6
  <2>2. used' \in [Cells -> SUBSET Digits] /\ answer' \in [Cells -> SUBSET Digits]
    BY <1>2, <1>3, <1>4, <1>6
  <2>3. QED
    BY <1>5, <2>1, <2>2 DEF TypeOK, Cells, Digits
<1>8. SearchInv'
  <2> SUFFICES ASSUME NEW c \in Cells
               PROVE  /\ Before(c, cur') => layout'[c] \in used'[c]
                      /\ ~Before(c, cur') => layout'[c] = 0
                      /\ Before(cur', c) => used'[c] = {}
    BY DEF SearchInv, Before, Cells
  <2>1. CASE c = cur
    BY <2>1, <1>1, <1>2, <1>5, <1>6, Order
  <2>2. CASE c # cur
    <3>1. layout'[c] = layout[c] /\ used'[c] = used[c]
      BY <2>2, <1>2, <1>6
    <3>2. QED
      BY <2>2, <3>1, <1>5 DEF IInv, SearchInv
  <2>3. QED
    BY <2>1, <2>2
<1>9. ListsAreCurrent'
  <2> SUFFICES ASSUME NEW c \in Cells, used'[c] # {}
               PROVE  answer'[c] = Digits \ Ahead(c)' /\ used'[c] \subseteq answer'[c]
    BY DEF ListsAreCurrent, Cells, Digits
  <2>1. c = cur \/ Before(c, cur)
    BY <1>1, <1>2, <1>6, Order DEF IInv, SearchInv
  <2>2. \A e \in Cells : Before(e, c) => e # cur
    BY <2>1, <1>1, Order
  <2>3. Ahead(c)' = Ahead(c)
    BY <2>2, <1>2, <1>6, AheadKept
  <2>4. CASE c = cur
    BY <2>3, <2>4, <1>1, <1>2, <1>3, <1>4, <1>6
  <2>5. CASE c # cur
    <3>1. answer'[c] = answer[c] /\ used'[c] = used[c]
      BY <2>5, <1>2, <1>3, <1>6
    <3>2. QED
      BY <2>3, <3>1 DEF IInv, ListsAreCurrent
  <2>6. QED
    BY <2>4, <2>5
<1>10. QED
  BY <1>7, <1>8, <1>9 DEF IInv

\* Stepping back keeps it.
LEMMA BackStep == ASSUME IInv, Back PROVE IInv'
<1>1. curRow # Size /\ cur \in Cells /\ cur # <<0, 0>>
  BY CursorType DEF Back, Enter, IInv
<1>2. /\ layout' = [layout EXCEPT ![cur'] = 0]
      /\ used' = [used EXCEPT ![cur] = {}]
      /\ answer' = [answer EXCEPT ![cur] = Answers]
  BY DEF Back, Enter, cur
<1>3. Answers \subseteq Digits
  BY <1>1, AnswersRight
<1>4. /\ cur' \in Cells /\ curRow' \in 0..Size-1 /\ curCol' \in 0..Size-1
      /\ \A c \in Cells : Before(c, cur) <=> Before(c, cur') \/ c = cur'
      /\ \A c \in Cells : Before(cur', c) => Before(cur, c) \/ c = cur
  BY <1>1, StepBackOrder DEF Back, IInv
<1>5. /\ layout \in [Cells -> 0..Size]
      /\ used \in [Cells -> SUBSET Digits] /\ answer \in [Cells -> SUBSET Digits]
  BY DEF IInv, TypeOK
<1>6. TypeOK'
  <2> 0 \in 0..Size
    BY SizeType
  <2>1. layout' \in [Cells -> 0..Size]
    BY <1>2, <1>5
  <2>2. used' \in [Cells -> SUBSET Digits] /\ answer' \in [Cells -> SUBSET Digits]
    BY <1>2, <1>3, <1>5
  <2>3. QED
    BY <1>4, <2>1, <2>2, SizeType DEF TypeOK, Cells, Digits
<1>7. SearchInv'
  <2> SUFFICES ASSUME NEW c \in Cells
               PROVE  /\ Before(c, cur') => layout'[c] \in used'[c]
                      /\ ~Before(c, cur') => layout'[c] = 0
                      /\ Before(cur', c) => used'[c] = {}
    BY DEF SearchInv, Before, Cells
  <2>1. ASSUME Before(c, cur') PROVE layout'[c] \in used'[c]
    <3>1. c # cur' /\ c # cur /\ Before(c, cur)
      BY <2>1, <1>1, <1>4, Order
    <3>2. QED
      BY <3>1, <1>2, <1>5 DEF IInv, SearchInv
  <2>2. ASSUME ~Before(c, cur') PROVE layout'[c] = 0
    BY <2>2, <1>2, <1>4, <1>5 DEF IInv, SearchInv
  <2>3. ASSUME Before(cur', c) PROVE used'[c] = {}
    BY <2>3, <1>2, <1>4, <1>5 DEF IInv, SearchInv
  <2>4. QED
    BY <2>1, <2>2, <2>3
<1>8. ListsAreCurrent'
  <2> SUFFICES ASSUME NEW c \in Cells, used'[c] # {}
               PROVE  answer'[c] = Digits \ Ahead(c)' /\ used'[c] \subseteq answer'[c]
    BY DEF ListsAreCurrent, Cells, Digits
  <2>1. c # cur /\ answer'[c] = answer[c] /\ used'[c] = used[c]
    BY <1>1, <1>2, <1>5
  <2>2. c = cur' \/ Before(c, cur')
    BY <2>1, <1>1, <1>4, Order DEF IInv, SearchInv
  <2>3. \A e \in Cells : Before(e, c) => e # cur'
    BY <2>2, <1>4, Order
  <2>4. Ahead(c)' = Ahead(c)
    BY <2>3, <1>2, <1>5, AheadKept
  <2>5. QED
    BY <2>1, <2>4 DEF IInv, ListsAreCurrent
<1>9. QED
  BY <1>6, <1>7, <1>8 DEF IInv

\* The search never leaves its invariant.
THEOREM SearchInvariance == Spec => []IInv
<1>1. IInv /\ [Next]_vars => IInv'
  <2>1. ASSUME IInv, UNCHANGED vars PROVE IInv'
    BY <2>1 DEF vars, IInv, TypeOK, SearchInv, ListsAreCurrent, Ahead, Before, cur, Cells, Digits
  <2>2. QED
    BY <2>1, PlaceStep, BackStep DEF Next
<1>2. QED
  BY <1>1, InitInv, PTL DEF Spec

\* What is on the board is always a valid part of a board, and the cells
\* before the cursor are the filled ones: a finished board is a valid one
\* (generate in Sudo.js), whatever the size.
THEOREM BoardValid == Spec => []ValidSoFar
<1>1. ASSUME IInv PROVE ValidSoFar
  <2>1. ASSUME NEW c \in Cells PROVE layout[c] # 0 <=> Before(c, cur)
    BY <1>1 DEF IInv, SearchInv, TypeOK, Digits
  <2>2. ASSUME NEW c \in Cells, NEW d \in Cells, Related(c, d), Before(c, d), layout[d] # 0
        PROVE  layout[c] # layout[d]
    <3>1. Related(d, c)
      BY <2>2 DEF Related
    <3>2. layout[c] \in Ahead(d)
      BY <2>2, <3>1 DEF Ahead
    <3>3. layout[d] \in used[d]
      BY <1>1, <2>1, <2>2 DEF IInv, SearchInv
    <3>4. layout[d] \in Digits \ Ahead(d)
      BY <1>1, <3>3 DEF IInv, ListsAreCurrent
    <3>5. QED
      BY <3>2, <3>4
  <2>3. ASSUME NEW c \in Cells, NEW d \in Cells, Related(c, d), c # d, layout[c] # 0
        PROVE  layout[c] # layout[d]
    <3>1. CASE Before(c, d)
      BY <2>2, <2>3, <3>1
    <3>2. CASE Before(d, c)
      <4>1. Related(d, c)
        BY <2>3 DEF Related
      <4>2. QED
        BY <2>2, <2>3, <3>2, <4>1
    <3>3. QED
      BY <2>3, <3>1, <3>2, Order
  <2>4. QED
    BY <2>1, <2>3 DEF ValidSoFar
<1>2. QED
  BY <1>1, SearchInvariance, PTL

\* A candidate list that is kept is the one that would be computed anew from
\* the cells ahead of it.
THEOREM ListsKept == Spec => []ListsAreCurrent
BY SearchInvariance, PTL DEF IInv

\* Type correctness: the cursor never leaves the board but past its end.
THEOREM SudoTypeCorrect == Spec => []TypeOK
BY SearchInvariance, PTL DEF IInv
\* A finished board is full and no two related cells of it hold the same digit:
\* it is one that initLayout may start a puzzle from (PzBoardsAssumption).
THEOREM FinishedIsFull == Spec => [](curRow = Size => FullBoard(layout))
<1>1. ASSUME IInv, ValidSoFar, curRow = Size PROVE FullBoard(layout)
  <2>1. \A c \in Cells : Before(c, cur)
    BY <1>1, CellType, SizeType DEF Before, cur
  <2>2. \A c \in Cells : layout[c] # 0
    BY <1>1, <2>1 DEF ValidSoFar
  <2>3. layout \in [Cells -> 0..Size]
    BY <1>1 DEF IInv, TypeOK
  <2>4. \A c \in Cells : layout[c] \in Digits
    BY <2>2, <2>3, SizeType DEF Digits
  <2>5. layout \in [Cells -> Digits]
    BY <2>3, <2>4
  <2>6. QED
    BY <1>1, <2>2, <2>5 DEF ValidSoFar, FullBoard
<1>2. QED
  BY <1>1, SearchInvariance, BoardValid, PTL

(***************************************************************************)
(* SudoPuzzle.                                                             *)
(***************************************************************************)
\* It has the cells and the digits of the generator.
LEMMA SameBoard == Puzzle!Cells = Cells /\ Puzzle!Digits = Digits
BY DEF Puzzle!Cells, Cells, Puzzle!Digits, Digits

\* Size different digits in Size places are all of them.
LEMMA EveryDigit ==
  ASSUME NEW f \in [0..Size-1 -> Digits],
         \A i, j \in 0..Size-1 : i # j => f[i] # f[j],
         NEW v \in Digits
  PROVE  \E i \in 0..Size-1 : f[i] = v
<1>1. f \in Injection(0..Size-1, Digits)
  BY DEF Injection, IsInjective
<1>2. /\ IsFiniteSet(0..Size-1) /\ Cardinality(0..Size-1) = Size
      /\ IsFiniteSet(Digits) /\ Cardinality(Digits) = Size
  BY SizeType, FS_Interval DEF Digits
<1>3. f \in Surjection(0..Size-1, Digits)
  BY <1>1, <1>2, FS_Injection
<1>4. QED
  BY <1>3 DEF Surjection

\* Every column of a full board holds every digit.
LEMMA ColumnHolds ==
  ASSUME NEW b, FullBoard(b), NEW n \in 0..Size-1, NEW v \in Digits
  PROVE  \E i \in 0..Size-1 : b[<<i, n>>] = v
<1> DEFINE f == [i \in 0..Size-1 |-> b[<<i, n>>]]
<1>1. f \in [0..Size-1 -> Digits]
  BY CellType DEF FullBoard
<1>2. \A i, j \in 0..Size-1 : i # j => f[i] # f[j]
  BY CellType DEF FullBoard, Related
<1>3. \E i \in 0..Size-1 : f[i] = v
  <2> HIDE DEF f
  <2>1. QED
    BY <1>1, <1>2, EveryDigit
<1>4. QED
  BY <1>3

\* A rectangle's corners are four cells.
LEMMA RectangleType ==
  ASSUME NEW q \in Puzzle!Rectangles
  PROVE  /\ \A i \in 1..4 : q[i] \in 0..Size-1
         /\ q[1] # q[2] /\ q[3] # q[4]
         /\ Puzzle!Corners(q) = {<<q[1], q[3]>>, <<q[1], q[4]>>, <<q[2], q[3]>>, <<q[2], q[4]>>}
         /\ Puzzle!Corners(q) \subseteq Cells
<1>1. /\ q[1] \in 0..Size-1 /\ q[2] \in 0..Size-1 /\ q[3] \in 0..Size-1 /\ q[4] \in 0..Size-1
      /\ q[1] < q[2] /\ q[3] < q[4]
  BY DEF Puzzle!Rectangles
<1>2. \A i \in 1..4 : i = 1 \/ i = 2 \/ i = 3 \/ i = 4
  OBVIOUS
<1>3. Puzzle!Corners(q) = {<<q[1], q[3]>>, <<q[1], q[4]>>, <<q[2], q[3]>>, <<q[2], q[4]>>}
  BY DEF Puzzle!Corners
<1>4. QED
  BY <1>1, <1>2, <1>3, CellType, SizeType

\* A rectangle whose digits can be swapped is one that checkUnique lists: each
\* column keeps all its digits only if the two rows hold the same two crosswise.
LEMMA SwapsAreListed ==
  ASSUME NEW b, FullBoard(b), NEW q \in Puzzle!Rectangles,
         Puzzle!Latin(Puzzle!Swap(b, q))
  PROVE  q \in Puzzle!checkUnique(b)
<1> DEFINE s == Puzzle!Swap(b, q)
           r1 == q[1]  r2 == q[2]  c1 == q[3]  c2 == q[4]
<1>1. /\ r1 \in 0..Size-1 /\ r2 \in 0..Size-1 /\ c1 \in 0..Size-1 /\ c2 \in 0..Size-1
      /\ r1 # r2 /\ c1 # c2
      /\ Puzzle!Corners(q) = {<<r1, c1>>, <<r1, c2>>, <<r2, c1>>, <<r2, c2>>}
  BY RectangleType
<1>2. /\ <<r1, c1>> \in Cells /\ <<r1, c2>> \in Cells
      /\ <<r2, c1>> \in Cells /\ <<r2, c2>> \in Cells
  BY <1>1, CellType
<1>3. c1 \in Int /\ c2 \in Int /\ (c1 + c2) - c1 = c2 /\ (c1 + c2) - c2 = c1
  BY <1>1, SizeType
<1>4. /\ s[<<r1, c1>>] = b[<<r1, c2>>] /\ s[<<r1, c2>>] = b[<<r1, c1>>]
  <2>1. /\ s[<<r1, c1>>] = b[<<r1, (c1 + c2) - c1>>]
        /\ s[<<r1, c2>>] = b[<<r1, (c1 + c2) - c2>>]
    BY <1>1, <1>2, SameBoard DEF Puzzle!Swap
  <2>2. QED
    BY <1>3, <2>1
<1>5. \A i \in 0..Size-1, n \in 0..Size-1 :
        i # r1 /\ i # r2 => <<i, n>> \in Cells /\ s[<<i, n>>] = b[<<i, n>>]
  BY <1>1, CellType, SameBoard DEF Puzzle!Swap
<1>6. \A c, d \in Cells : c # d /\ c[2] = d[2] => s[c] # s[d]
  BY SameBoard DEF Puzzle!Latin
<1>7. b[<<r1, c1>>] # b[<<r1, c2>>]
  BY <1>1, <1>2 DEF FullBoard, Related
<1>8. b[<<r1, c1>>] \in Digits /\ b[<<r1, c2>>] \in Digits
  BY <1>2 DEF FullBoard
<1>9. b[<<r2, c1>>] = b[<<r1, c2>>]
  <2>1. PICK i \in 0..Size-1 : b[<<i, c1>>] = b[<<r1, c2>>]
    BY <1>1, <1>8, ColumnHolds
  <2>2. i # r1
    BY <2>1, <1>7
  <2>3. ASSUME i # r2 PROVE FALSE
    <3>1. s[<<i, c1>>] = s[<<r1, c1>>] /\ <<i, c1>> \in Cells
      BY <2>1, <2>2, <2>3, <1>1, <1>4, <1>5
    <3>2. <<i, c1>> # <<r1, c1>>
      BY <2>2
    <3>3. QED
      BY <3>1, <3>2, <1>2, <1>6
  <2>4. QED
    BY <2>1, <2>3
<1>10. b[<<r2, c2>>] = b[<<r1, c1>>]
  <2>1. PICK i \in 0..Size-1 : b[<<i, c2>>] = b[<<r1, c1>>]
    BY <1>1, <1>8, ColumnHolds
  <2>2. i # r1
    BY <2>1, <1>7
  <2>3. ASSUME i # r2 PROVE FALSE
    <3>1. s[<<i, c2>>] = s[<<r1, c2>>] /\ <<i, c2>> \in Cells
      BY <2>1, <2>2, <2>3, <1>1, <1>4, <1>5
    <3>2. <<i, c2>> # <<r1, c2>>
      BY <2>2
    <3>3. QED
      BY <3>1, <3>2, <1>2, <1>6
  <2>4. QED
    BY <2>1, <2>3
<1>11. QED
  BY <1>9, <1>10 DEF Puzzle!checkUnique

\* No cell of a full board is empty.
LEMMA FullHasNoZero ==
  \A b \in PzBoards :
    /\ FullBoard(b)
    /\ \A c \in Cells : b[c] # 0 /\ b[c] \in 0..Size /\ 0 \in 0..Size
BY PzBoardsAssumption, SizeType DEF FullBoard, Digits

LEMMA PuzzleInitInv == BdInit => PuzzleInv
<1>1. ASSUME PuzzleStands PROVE PuzzleInv
  <2>1. pzLayout \in PzBoards /\ pzSolving = pzLayout /\ pzTodo = {}
    BY <1>1, PzBoardsAssumption DEF PuzzleStands
  <2>2. pzLayout \in [Puzzle!Cells -> Puzzle!Digits]
    BY <2>1, FullHasNoZero, SameBoard DEF FullBoard
  <2>3. Puzzle!TypeOK
    BY <2>1, <2>2, FullHasNoZero, SameBoard DEF Puzzle!TypeOK
  <2>4. ASSUME NEW q \in Puzzle!Rectangles PROVE ~Puzzle!Empty(q)
    <3>1. <<q[1], q[3]>> \in Puzzle!Corners(q) /\ <<q[1], q[3]>> \in Cells
      BY RectangleType
    <3>2. QED
      BY <2>1, <3>1, FullHasNoZero DEF Puzzle!Empty
  <2>5. QED
    BY <2>3, <2>4 DEF PuzzleInv, Puzzle!SeenInv, Puzzle!checkUnique
<1>2. ASSUME Puzzle!Init PROVE PuzzleInv
  <2>1. pzLayout \in PzBoards /\ pzTodo = Puzzle!checkUnique(pzLayout)
    BY <1>2 DEF Puzzle!Init
  <2>2. pzLayout \in [Puzzle!Cells -> Puzzle!Digits]
    BY <2>1, FullHasNoZero, SameBoard DEF FullBoard
  <2>3. /\ pzSolving \in [Puzzle!Cells -> 0..Size]
        /\ \A c \in Puzzle!Cells : pzSolving[c] \in {0, pzLayout[c]}
    BY <1>2, <2>1, FullHasNoZero, SameBoard DEF Puzzle!Init
  <2>4. QED
    BY <2>1, <2>2, <2>3 DEF PuzzleInv, Puzzle!TypeOK, Puzzle!SeenInv
<1>3. QED
  BY <1>1, <1>2 DEF BdInit

LEMMA PuzzleNextInv == PuzzleInv /\ [BdNext]_bdVars => PuzzleInv'
<1> SUFFICES ASSUME PuzzleInv, [BdNext]_bdVars PROVE PuzzleInv'
  OBVIOUS
<1>1. CASE UNCHANGED pzVars
  BY <1>1 DEF pzVars, PuzzleInv, Puzzle!TypeOK, Puzzle!SeenInv, Puzzle!Empty
<1>2. ASSUME Puzzle!Give PROVE PuzzleInv'
  <2>1. PICK q \in pzTodo :
          /\ Puzzle!Empty(q)
          /\ \E c \in Puzzle!Corners(q) : pzSolving' = [pzSolving EXCEPT ![c] = pzLayout[c]]
          /\ pzTodo' = pzTodo \ {q}
          /\ pzLayout' = pzLayout
    BY <1>2 DEF Puzzle!Give
  <2>2. PICK c \in Puzzle!Corners(q) : pzSolving' = [pzSolving EXCEPT ![c] = pzLayout[c]]
    BY <2>1
  <2>3. q \in Puzzle!Rectangles
    BY <2>1 DEF PuzzleInv, Puzzle!TypeOK, Puzzle!checkUnique
  <2>4. c \in Puzzle!Cells
    BY <2>2, <2>3, RectangleType, SameBoard
  <2>5. pzLayout \in PzBoards
    BY DEF PuzzleInv, Puzzle!TypeOK
  <2>6. pzSolving \in [Cells -> 0..Size] /\ \A d \in Cells : pzSolving[d] \in {0, pzLayout[d]}
    BY SameBoard DEF PuzzleInv, Puzzle!TypeOK
  <2>7. pzLayout[c] # 0 /\ pzLayout[c] \in 0..Size
    BY <2>4, <2>5, FullHasNoZero, SameBoard
  <2>8. /\ pzSolving' \in [Cells -> 0..Size] /\ pzSolving'[c] = pzLayout[c]
        /\ \A d \in Cells : pzSolving'[d] \in {0, pzLayout[d]}
        /\ \A d \in Cells : pzSolving[d] # 0 => pzSolving'[d] # 0
    BY <2>2, <2>4, <2>6, <2>7, SameBoard
  <2>9. Puzzle!TypeOK'
    BY <2>1, <2>8, SameBoard DEF PuzzleInv, Puzzle!TypeOK
  <2>10. ASSUME NEW p \in Puzzle!checkUnique(pzLayout), p \notin pzTodo'
         PROVE  \E d \in Puzzle!Corners(p) : pzSolving'[d] # 0
    <3>1. CASE p = q
      BY <3>1, <2>2, <2>7, <2>8
    <3>2. CASE p # q
      <4>1. ~Puzzle!Empty(p)
        BY <2>1, <2>10, <3>2 DEF PuzzleInv, Puzzle!SeenInv
      <4>2. Puzzle!Corners(p) \subseteq Cells
        BY RectangleType DEF Puzzle!checkUnique
      <4>3. QED
        BY <4>1, <4>2, <2>8 DEF Puzzle!Empty
    <3>3. QED
      BY <3>1, <3>2
  <2>11. Puzzle!SeenInv'
    BY <2>1, <2>10 DEF Puzzle!SeenInv, Puzzle!Empty
  <2>12. QED
    BY <2>9, <2>11 DEF PuzzleInv
<1>3. ASSUME Puzzle!Skip PROVE PuzzleInv'
  <2>1. PICK q \in pzTodo : /\ ~Puzzle!Empty(q)
                            /\ pzTodo' = pzTodo \ {q}
                            /\ pzLayout' = pzLayout /\ pzSolving' = pzSolving
    BY <1>3 DEF Puzzle!Skip
  <2>2. Puzzle!TypeOK'
    BY <2>1 DEF PuzzleInv, Puzzle!TypeOK
  <2>3. Puzzle!SeenInv'
    BY <2>1 DEF PuzzleInv, Puzzle!SeenInv, Puzzle!Empty
  <2>4. QED
    BY <2>2, <2>3 DEF PuzzleInv
<1>4. QED
  BY <1>1, <1>2, <1>3 DEF BdNext, only_generate, only_search, Puzzle!Next, bdVars, pzVars

\* Making puzzles never leaves its invariant.
THEOREM PuzzleInvariance == BdSpec => []PuzzleInv
BY PuzzleInitInv, PuzzleNextInv, PTL DEF BdSpec

\* A puzzle that initLayout and regenerate of Sudo.js hand out holds digits of its
\* board only, and no rectangle of it is empty whose digits can be swapped into
\* another board of the same rows and columns: whatever the size of the board,
\* the board, and the cells that were emptied.
THEOREM NoSwapLeft == BdSpec => []PuzzleSound
<1>1. ASSUME PuzzleInv, pzTodo = {},
             NEW q \in Puzzle!Rectangles, Puzzle!Empty(q),
             Puzzle!Latin(Puzzle!Swap(pzLayout, q))
      PROVE  FALSE
  <2>1. FullBoard(pzLayout)
    BY <1>1, FullHasNoZero DEF PuzzleInv, Puzzle!TypeOK
  <2>2. q \in Puzzle!checkUnique(pzLayout)
    BY <1>1, <2>1, SwapsAreListed
  <2>3. QED
    BY <1>1, <2>2 DEF PuzzleInv, Puzzle!SeenInv
<1>2. ASSUME PuzzleInv PROVE PuzzleSound
  BY <1>1, <1>2 DEF PuzzleSound, PuzzleInv, Puzzle!NoSwap
<1>3. QED
  BY <1>2, PuzzleInvariance, PTL
============================================================================
