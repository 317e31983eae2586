--------------------------- MODULE SudokuProofs ---------------------------
(***************************************************************************)
(* For boards of any size: what sudoku.js's search (SudokuSearch) has      *)
(* placed obeys the rules at every moment, and so does what its page       *)
(* (SudokuPage) lets the player enter; the page shows the board, and one   *)
(* timeout at most is waiting.                                             *)
(***************************************************************************)
EXTENDS SudokuSearch, SudokuPage, FiniteSetTheorems, TLAPS

(***************************************************************************)
(* Squares, blocks and lines.                                              *)
(***************************************************************************)

LEMMA BoxType == Box \in Nat /\ Box >= 1 /\ Width \in Nat /\ Width >= 1
<1>1. \A n \in Nat : n >= 1 => n * n \in Nat /\ n * n >= 1
  OBVIOUS
<1> QED BY <1>1, BoxAssumption DEF Width

\* A number below B * B consists of a block and a place in it.
LEMMA BlockOf ==
  ASSUME NEW B \in Nat, B >= 1, NEW n \in 0..B*B-1
  PROVE  n \div B \in 0..B-1 /\ n % B \in 0..B-1 /\ n = B * (n \div B) + (n % B)
<1> DEFINE r == n \div B
           s == n % B
<1>1. r \in Int /\ s \in 0..B-1 /\ n = B * r + s
  OBVIOUS
<1> HIDE DEF r, s
<1>2. r >= 0
  <2> SUFFICES ASSUME r < 0 PROVE FALSE
    BY <1>1
  <2>1. B * r <= B * (-1)
    BY <1>1
  <2> QED BY <1>1, <2>1
<1>3. r <= B - 1
  <2> SUFFICES ASSUME r >= B PROVE FALSE
    BY <1>1
  <2>1. B * r >= B * B
    BY <1>1
  <2> QED BY <1>1, <2>1
<1>4. r \in 0..B-1 /\ s \in 0..B-1 /\ n = B * r + s
  BY <1>1, <1>2, <1>3
<1> QED BY <1>4 DEF r, s

\* The other way round.
LEMMA InBlock ==
  ASSUME NEW B \in Nat, B >= 1, NEW r \in 0..B-1, NEW s \in 0..B-1
  PROVE  /\ B * r + s \in 0..B*B-1
         /\ (B * r + s) \div B = r /\ (B * r + s) % B = s
<1>1. B * r \in Nat /\ B * r <= B * (B - 1)
  OBVIOUS
<1>2. B * r + s \in 0..B*B-1
  BY <1>1
<1>3. (r * B + s) \div B = r /\ (r * B + s) % B = s
  OBVIOUS
<1>4. B * r = r * B
  OBVIOUS
<1> QED BY <1>2, <1>3, <1>4

LEMMA SquareType ==
  /\ \A p \in Squares : p[1] \in 0..Width-1 /\ p[2] \in 0..Width-1 /\ p = <<p[1], p[2]>>
  /\ \A i, j \in 0..Width-1 : <<i, j>> \in Squares
BY BoxType DEF Squares

\* Every square has its own number in row order.
LEMMA SquareOrder ==
  /\ Last \in Nat /\ Last >= 1
  /\ \A n \in 0..Last-1 : SquareAt(n) \in Squares
  /\ \A m, n \in 0..Last-1 : SquareAt(m) = SquareAt(n) => m = n
  /\ \A p \in Squares : \E n \in 0..Last-1 : SquareAt(n) = p
<1>1. Last \in Nat /\ Last >= 1
  <2>1. \A n \in Nat : n >= 1 => n * n \in Nat /\ n * n >= 1
    OBVIOUS
  <2> QED BY <2>1, BoxType DEF Last
<1>2. \A n \in 0..Last-1 : /\ n \div Width \in 0..Width-1 /\ n % Width \in 0..Width-1
                           /\ n = Width * (n \div Width) + (n % Width)
  BY BlockOf, BoxType DEF Last
<1>3. \A n \in 0..Last-1 : SquareAt(n) \in Squares
  BY <1>2, SquareType DEF SquareAt
<1>4. \A m, n \in 0..Last-1 : SquareAt(m) = SquareAt(n) => m = n
  <2> SUFFICES ASSUME NEW m \in 0..Last-1, NEW n \in 0..Last-1, SquareAt(m) = SquareAt(n)
               PROVE  m = n
    OBVIOUS
  <2>1. m \div Width = n \div Width /\ m % Width = n % Width
    BY DEF SquareAt
  <2> QED BY <1>2, <2>1
<1>5. ASSUME NEW p \in Squares PROVE \E n \in 0..Last-1 : SquareAt(n) = p
  <2>1. /\ Width * p[1] + p[2] \in 0..Last-1
        /\ SquareAt(Width * p[1] + p[2]) = <<p[1], p[2]>>
    BY SquareType, InBlock, BoxType DEF Last, SquareAt
  <2> QED BY <2>1, SquareType
<1> QED BY <1>1, <1>3, <1>4, <1>5

\* A square that is emptied clashes with none.
LEMMA ClearKeeps ==
  ASSUME NEW b \in Sheets, NoClash(b), NEW p \in Squares
  PROVE  [b EXCEPT ![p] = 0] \in Sheets /\ NoClash([b EXCEPT ![p] = 0])
BY BoxType DEF Sheets, NoClash

\* Nor does a number that check has passed.
LEMMA CheckKeeps ==
  ASSUME NEW b \in Sheets, NoClash(b), NEW p \in Squares, NEW x, check(b, p, x)
  PROVE  [b EXCEPT ![p] = x] \in Sheets /\ NoClash([b EXCEPT ![p] = x])
<1>1. x \in Numbers /\ [b EXCEPT ![p] = x] \in Sheets
  BY BoxType DEF check, Numbers, Sheets
<1>2. \A q \in Squares : InLine(p, q) \/ InLine(q, p) => b[q] # x
  BY DEF check, checkRow, checkColumn, checkBlock, InLine, SameBlock
<1>3. \A q \in Squares : [b EXCEPT ![p] = x][q] = IF q = p THEN x ELSE b[q]
  BY DEF Sheets
<1>4. \A q \in Squares : ~InLine(q, q)
  BY DEF InLine
<1> QED BY <1>1, <1>2, <1>3, <1>4 DEF NoClash

(***************************************************************************)
(* The page.                                                               *)
(***************************************************************************)

\* A board createGame has dug holes into.
LEMMA DugSound ==
  ASSUME NEW b \in Answers, NEW holes \in Holes
  PROVE  b \in [Squares -> Numbers] /\ Dug(b, holes) \in Sheets /\ NoClash(Dug(b, holes))
<1>1. b \in [Squares -> Numbers] /\ NoClash(b)
  BY AnswersAssumption
<1>2. Numbers \subseteq 0..Width /\ 0 \in 0..Width /\ 0 \notin Numbers
  BY BoxType DEF Numbers
<1>3. Dug(b, holes) \in Sheets
  BY <1>1, <1>2 DEF Dug, Sheets
<1>4. \A p \in Squares : Dug(b, holes)[p] \in {0, b[p]}
  BY DEF Dug
<1>5. NoClash(Dug(b, holes))
  BY <1>1, <1>2, <1>4 DEF NoClash
<1> QED BY <1>1, <1>3, <1>5

LEMMA PgInitInv == PgInit => PgInv
<1> SUFFICES ASSUME PgInit PROVE PgInv
  OBVIOUS
<1>1. PICK b \in Answers, holes \in Holes : answer = b /\ sudoku = Dug(b, holes)
  BY DEF PgInit
<1>2. answer \in [Squares -> Numbers] /\ sudoku \in Sheets /\ NoClash(sudoku)
  BY <1>1, DugSound
<1>3. puzzle = sudoku /\ table = sudoku /\ inputs = {p \in Squares : sudoku[p] = 0}
  BY DEF PgInit
<1>4. PgTypeOK
  BY <1>2, <1>3, MaxCountAssumption DEF PgInit, PgTypeOK
<1>5. BoardKept /\ PageShowsBoard
  BY <1>2, <1>3, <1>4 DEF BoardKept, PageShowsBoard
<1>6. OneTimeout
  BY DEF PgInit, OneTimeout
<1> QED BY <1>5, <1>6 DEF PgInv

\* The clock's parts of a handler keep its invariant.
ClockInv ==
  /\ countTime \in BOOLEAN /\ count \in 0..MaxCount
  /\ timerId \in TimerIds /\ timeouts \subseteq TimerIds
  /\ OneTimeout

LEMMA RestartKeeps == ClockInv /\ restartTimer => ClockInv'
  BY MaxCountAssumption DEF ClockInv, restartTimer, SetTimeout, OneTimeout

LEMMA EndKeeps == ClockInv /\ endTimer => ClockInv'
  BY DEF ClockInv, endTimer, OneTimeout

LEMMA WatchKeeps == ClockInv /\ UNCHANGED watch => ClockInv'
<1> SUFFICES ASSUME ClockInv, UNCHANGED watch PROVE ClockInv'
  OBVIOUS
<1>1. countTime' = countTime /\ count' = count /\ timerId' = timerId /\ timeouts' = timeouts
  BY DEF watch
<1> QED BY <1>1 DEF ClockInv, OneTimeout

LEMMA TimerKeeps == ClockInv /\ timer => ClockInv'
<1> SUFFICES ASSUME ClockInv, timer PROVE ClockInv'
  OBVIOUS
<1>1. PICK t \in timeouts :
        IF countTime THEN SetTimeout(timeouts \ {t})
                     ELSE timeouts' = timeouts \ {t} /\ UNCHANGED timerId
  BY DEF timer
<1>2. countTime /\ timeouts = {timerId} /\ countTime' = countTime
  BY DEF ClockInv, OneTimeout, timer
<1>3. count' \in 0..MaxCount
  BY MaxCountAssumption DEF ClockInv, timer
<1>4. timeouts' = {timerId'} /\ timerId' \in TimerIds
  BY <1>1, <1>2 DEF SetTimeout
<1> QED BY <1>2, <1>3, <1>4 DEF ClockInv, OneTimeout

\* The board, what it was made of and what is shown of it.
SheetInv ==
  /\ sudoku \in Sheets /\ answer \in [Squares -> Numbers] /\ puzzle \in Sheets
  /\ table \in Sheets /\ inputs \subseteq Squares
  /\ NoClash(sudoku)
  /\ \A p \in Squares : puzzle[p] # 0 => sudoku[p] = puzzle[p] /\ p \notin inputs
  /\ PageShowsBoard

LEMMA PgInvParts == PgInv <=> SheetInv /\ ClockInv /\ difficulty \in Levels
  BY DEF PgInv, BoardKept, PgTypeOK, SheetInv, ClockInv

\* Another game: board and page are new.
LEMMA GameKeeps == SheetInv /\ createGame /\ setTable(sudoku') => SheetInv'
<1> SUFFICES ASSUME createGame, setTable(sudoku') PROVE SheetInv'
  OBVIOUS
<1>1. PICK b \in Answers, holes \in Holes :
        answer' = b /\ sudoku' = Dug(b, holes) /\ puzzle' = Dug(b, holes)
  BY DEF createGame
<1>2. answer' \in [Squares -> Numbers] /\ sudoku' \in Sheets /\ NoClash(sudoku')
  BY <1>1, DugSound
<1>3. table' = sudoku' /\ inputs' = {p \in Squares : sudoku'[p] = 0} /\ puzzle' = sudoku'
  BY <1>1 DEF setTable
<1>4. NoClash(sudoku)'
  BY <1>2 DEF NoClash
<1> QED BY <1>2, <1>3, <1>4 DEF SheetInv, PageShowsBoard, Sheets

\* A number that is let in stands in no line twice, and in a field.
LEMMA AcceptKeeps ==
  ASSUME SheetInv, NEW p \in Squares, NEW x \in 0..Width, Accept(p, x)
  PROVE  SheetInv'
<1>1. /\ p \in inputs /\ check(sudoku, p, x)
      /\ sudoku' = [sudoku EXCEPT ![p] = x] /\ table' = [table EXCEPT ![p] = x]
      /\ UNCHANGED <<answer, inputs, puzzle>>
  BY DEF Accept, Entered
<1>2. sudoku' \in Sheets /\ NoClash(sudoku')
  BY <1>1, CheckKeeps DEF SheetInv
<1>3. NoClash(sudoku)'
  BY <1>2 DEF NoClash
<1>4. /\ table' \in Sheets
      /\ \A q \in Squares : /\ sudoku'[q] = IF q = p THEN x ELSE sudoku[q]
                            /\ table'[q] = IF q = p THEN x ELSE table[q]
  BY <1>1 DEF SheetInv, Sheets
<1>5. \A q \in Squares : puzzle[q] # 0 => sudoku'[q] = puzzle[q] /\ q \notin inputs
  BY <1>1, <1>4 DEF SheetInv
<1>6. PageShowsBoard'
  BY <1>1, <1>4 DEF SheetInv, PageShowsBoard
<1> QED BY <1>1, <1>2, <1>3, <1>4, <1>5, <1>6 DEF SheetInv

\* A refused number leaves an empty field, whatever the board holds there.
LEMMA RefuseKeeps ==
  ASSUME SheetInv, NEW p \in Squares, NEW x \in 0..Width, Refuse(p, x)
  PROVE  SheetInv'
<1>1. /\ p \in inputs /\ table' = [table EXCEPT ![p] = 0]
      /\ UNCHANGED <<sudoku, answer, inputs, puzzle>>
  BY DEF Refuse, Entered
<1>2. /\ table' \in Sheets
      /\ \A q \in Squares : table'[q] = IF q = p THEN 0 ELSE table[q]
  BY <1>1, BoxType DEF SheetInv, Sheets
<1>3. PageShowsBoard'
  BY <1>1, <1>2 DEF SheetInv, PageShowsBoard
<1>4. NoClash(sudoku)'
  BY <1>1 DEF SheetInv, NoClash
<1> QED BY <1>1, <1>2, <1>3, <1>4 DEF SheetInv

LEMMA ResetKeeps == SheetInv /\ resetGame => SheetInv'
<1> SUFFICES ASSUME SheetInv, resetGame PROVE SheetInv'
  OBVIOUS
<1>1. /\ table' = sudoku /\ inputs' = {p \in Squares : sudoku[p] = 0}
      /\ UNCHANGED <<sudoku, answer, puzzle>>
  BY DEF resetGame, setTable
<1>2. NoClash(sudoku)'
  BY <1>1 DEF SheetInv, NoClash
<1> QED BY <1>1, <1>2 DEF SheetInv, PageShowsBoard, Sheets

LEMMA AnswerKeeps == SheetInv /\ showAnswer => SheetInv'
<1> SUFFICES ASSUME SheetInv, showAnswer PROVE SheetInv'
  OBVIOUS
<1>1. table' = answer /\ inputs' = {} /\ UNCHANGED <<sudoku, answer, puzzle>>
  BY DEF showAnswer
<1>2. NoClash(sudoku)'
  BY <1>1 DEF SheetInv, NoClash
<1>3. answer \in Sheets
  BY BoxType DEF SheetInv, Sheets, Numbers
<1> QED BY <1>1, <1>2, <1>3 DEF SheetInv, PageShowsBoard

LEMMA SheetsKeep == SheetInv /\ UNCHANGED sheets => SheetInv'
  BY DEF sheets, SheetInv, PageShowsBoard, NoClash

\* Every handler keeps the invariant.
LEMMA PgStep == PgInv /\ [PgNext]_pgVars => PgInv'
<1>0. PgInv' <=> SheetInv' /\ ClockInv' /\ difficulty' \in Levels
  BY DEF PgInv, BoardKept, PgTypeOK, SheetInv, ClockInv
<1> SUFFICES ASSUME SheetInv, ClockInv, difficulty \in Levels, [PgNext]_pgVars
             PROVE  SheetInv' /\ ClockInv' /\ difficulty' \in Levels
  BY <1>0, PgInvParts
<1>1. CASE UNCHANGED pgVars
  BY <1>1, SheetsKeep, WatchKeeps DEF pgVars
<1>2. ASSUME startGame PROVE SheetInv' /\ ClockInv' /\ difficulty' \in Levels
  BY <1>2, GameKeeps, RestartKeeps DEF startGame
<1>3. CASE SetLevel
  BY <1>3, SheetsKeep, WatchKeeps DEF SetLevel
<1>4. CASE onInput
  <2> SUFFICES ASSUME NEW p \in Squares, NEW x \in 0..Width,
                      Accept(p, x) \/ Refuse(p, x) \/ Again(p, x)
               PROVE  SheetInv' /\ ClockInv' /\ difficulty' \in Levels
    BY <1>4 DEF onInput
  <2>1. CASE Accept(p, x)
    BY <2>1, AcceptKeeps, EndKeeps, WatchKeeps DEF Accept, Judged
  <2>2. CASE Refuse(p, x)
    BY <2>2, RefuseKeeps, EndKeeps, WatchKeeps DEF Refuse, Judged
  <2>3. CASE Again(p, x)
    BY <2>3, <1>2 DEF Again
  <2> QED BY <2>1, <2>2, <2>3
<1>5. CASE resetGame
  BY <1>5, ResetKeeps, RestartKeeps DEF resetGame
<1>6. CASE showAnswer
  BY <1>6, AnswerKeeps, EndKeeps DEF showAnswer
<1>7. CASE timer
  BY <1>7, SheetsKeep, TimerKeeps DEF timer
<1> QED BY <1>1, <1>2, <1>3, <1>4, <1>5, <1>6, <1>7 DEF PgNext

LEMMA PgInvariance == PgSpec => []PgInv
  BY PgInitInv, PgStep, PTL DEF PgSpec

\* sudoku.js 309-321: whatever is entered on a board of any size, the player's
\* board obeys the rules and keeps the puzzle's numbers.
THEOREM EntriesSound == PgSpec => []BoardKept
<1>1. PgInv => BoardKept
  BY DEF PgInv
<1> QED BY PgInvariance, <1>1, PTL

\* sudoku.js 194-204, 309-321, 384-401: the page shows the board, or the answer.
THEOREM PageSound == PgSpec => []PageShowsBoard
<1>1. PgInv => PageShowsBoard
  BY DEF PgInv
<1> QED BY PgInvariance, <1>1, PTL

\* sudoku.js 336-388: one timeout waits while a game goes on, and none after it.
THEOREM OneClockOnPage == PgSpec => []OneTimeout
<1>1. PgInv => OneTimeout
  BY DEF PgInv
<1> QED BY PgInvariance, <1>1, PTL

(***************************************************************************)
(* The search.                                                             *)
(***************************************************************************)

\* The call for square n has come past it, or has just got FALSE.
Passed(n) == n < srAt \/ (n = srAt /\ srBack /\ srResult = "none")

\* Each random block holds every number, which is why no other fits there and
\* what was given is never overwritten; and the call for a square that was not
\* given, once past it, knows the round of the loop whose number to take away.
SrInv ==
  /\ SrTypeOK /\ GivenKept /\ FilledSoFar /\ NoClash(sudoku)
  /\ \A p \in Diagonal, x \in Numbers : \E q \in Diagonal : SameBlock(p, q) /\ sudoku[q] = x
  /\ \A n \in 0..Last-1 : Passed(n) => (srK[n] = 0 <=> SquareAt(n) \in Diagonal)
  /\ srResult = "true" => srAt = Last

LEMMA SearchSoundInv == SrInv => SearchSound
<1> SUFFICES ASSUME SrInv, srResult = "true" PROVE Full(sudoku)
  BY DEF SrInv, SearchSound
<1> SUFFICES ASSUME NEW p \in Squares, p \notin Diagonal PROVE sudoku[p] # 0
  BY DEF SrInv, GivenKept, Full
<1>1. PICK n \in 0..Last-1 : SquareAt(n) = p
  BY SquareOrder
<1>2. n < srAt
  BY SquareOrder DEF SrInv
<1> QED BY <1>1, <1>2 DEF SrInv, FilledSoFar

LEMMA DiagonalSquares == Diagonal \subseteq Squares
  BY DEF Diagonal

\* A square as its block and its place in the block.
LEMMA SquareParts ==
  ASSUME NEW p \in Squares
  PROVE  /\ p[1] \div Box \in 0..Box-1 /\ p[2] \div Box \in 0..Box-1
         /\ <<p[1] % Box, p[2] % Box>> \in Offsets
         /\ p[1] = Box * (p[1] \div Box) + (p[1] % Box)
         /\ p[2] = Box * (p[2] \div Box) + (p[2] % Box)
<1>1. p[1] \in 0..Box*Box-1 /\ p[2] \in 0..Box*Box-1
  BY SquareType DEF Width
<1> QED BY <1>1, BlockOf, BoxType DEF Offsets

\* The blocks as they are filled at random.
LEMMA FilledSound ==
  ASSUME NEW f \in [0..Box-1 -> Fills]
  PROVE  /\ FilledBy(f) \in Sheets /\ NoClash(FilledBy(f))
         /\ \A p \in Squares : FilledBy(f)[p] # 0 <=> p \in Diagonal
         /\ \A p \in Diagonal, x \in Numbers :
              \E q \in Diagonal : SameBlock(p, q) /\ FilledBy(f)[q] = x
<1>1. ASSUME NEW r \in 0..Box-1
      PROVE  /\ \A c \in Offsets : f[r][c] \in Numbers
             /\ \A c, d \in Offsets : f[r][c] = f[r][d] => c = d
             /\ \A x \in Numbers : \E c \in Offsets : f[r][c] = x
  <2>1. f[r] \in Bijection(Offsets, Numbers)
    BY FillsAssumption
  <2> QED BY <2>1 DEF Bijection, Injection, Surjection, IsInjective
<1>2. \A p \in Squares :
        FilledBy(f)[p] = IF p \in Diagonal
                         THEN f[p[1] \div Box][<<p[1] % Box, p[2] % Box>>] ELSE 0
  BY DEF FilledBy
<1>3. ASSUME NEW p \in Squares, p \in Diagonal PROVE FilledBy(f)[p] \in Numbers
  <2> DEFINE r == p[1] \div Box
             c == <<p[1] % Box, p[2] % Box>>
  <2>1. r \in 0..Box-1 /\ c \in Offsets
    BY SquareParts
  <2>2. FilledBy(f)[p] = f[r][c]
    BY <1>2, <1>3
  <2> HIDE DEF r, c
  <2> QED BY <1>1, <2>1, <2>2
<1>4. 0 \notin Numbers /\ Numbers \subseteq 0..Width /\ 0 \in 0..Width
  BY BoxType DEF Numbers
<1>5. FilledBy(f) \in Sheets
  <2>1. \A p \in Squares : FilledBy(f)[p] \in 0..Width
    BY <1>2, <1>3, <1>4
  <2> QED BY <2>1 DEF FilledBy, Sheets
<1>6. NoClash(FilledBy(f))
  <2> SUFFICES ASSUME NEW p \in Squares, NEW q \in Squares, InLine(p, q),
                      FilledBy(f)[p] # 0, FilledBy(f)[p] = FilledBy(f)[q]
               PROVE  FALSE
    BY DEF NoClash
  <2>1. p \in Diagonal /\ q \in Diagonal
    BY <1>2
  \* on the other diagonal a line meets one block only
  <2>2. p[1] \div Box = q[1] \div Box /\ p[2] \div Box = q[2] \div Box
    <3>1. /\ p[1] \div Box \in 0..Box-1 /\ p[2] \div Box \in 0..Box-1
          /\ q[1] \div Box \in 0..Box-1 /\ q[2] \div Box \in 0..Box-1
      BY SquareParts
    <3>2. /\ p[1] \div Box + p[2] \div Box = Box - 1
          /\ q[1] \div Box + q[2] \div Box = Box - 1
      BY <2>1 DEF Diagonal
    <3>3. p[1] \div Box = q[1] \div Box \/ p[2] \div Box = q[2] \div Box
      BY DEF InLine, SameBlock
    <3> QED BY <3>1, <3>2, <3>3, BoxType
  <2>3. p[1] % Box = q[1] % Box /\ p[2] % Box = q[2] % Box
    <3> DEFINE r == p[1] \div Box
               c == <<p[1] % Box, p[2] % Box>>
               d == <<q[1] % Box, q[2] % Box>>
    <3>1. r \in 0..Box-1 /\ c \in Offsets /\ d \in Offsets
      BY SquareParts
    <3>2. f[r][c] = f[r][d]
      BY <1>2, <2>1, <2>2
    <3>3. c = d
      BY <1>1, <3>1, <3>2
    <3> QED BY <3>3
  <2>4. p[1] = q[1] /\ p[2] = q[2]
    BY <2>2, <2>3, SquareParts
  <2> QED BY <2>4, SquareType DEF InLine
<1>7. ASSUME NEW p \in Diagonal, NEW x \in Numbers
      PROVE  \E q \in Diagonal : SameBlock(p, q) /\ FilledBy(f)[q] = x
  <2>1. p \in Squares /\ p[1] \div Box \in 0..Box-1 /\ p[2] \div Box \in 0..Box-1
    BY SquareParts DEF Diagonal
  <2>2. PICK c \in Offsets : f[p[1] \div Box][c] = x
    BY <1>1, <2>1
  <2> DEFINE u == Box * (p[1] \div Box) + c[1]
             v == Box * (p[2] \div Box) + c[2]
  <2>3. c[1] \in 0..Box-1 /\ c[2] \in 0..Box-1 /\ c = <<c[1], c[2]>>
    BY DEF Offsets
  <2>4. /\ u \in 0..Width-1 /\ u \div Box = p[1] \div Box /\ u % Box = c[1]
        /\ v \in 0..Width-1 /\ v \div Box = p[2] \div Box /\ v % Box = c[2]
    BY <2>1, <2>3, InBlock, BoxType DEF Width
  <2> HIDE DEF u, v
  <2>5. <<u, v>> \in Squares /\ <<u, v>> \in Diagonal /\ SameBlock(p, <<u, v>>)
    BY <2>4, SquareType DEF Diagonal, SameBlock
  <2>6. FilledBy(f)[<<u, v>>] = x
    BY <1>2, <2>2, <2>3, <2>4, <2>5
  <2> QED BY <2>5, <2>6
<1>8. \A p \in Squares : FilledBy(f)[p] # 0 <=> p \in Diagonal
  BY <1>2, <1>3, <1>4
<1> QED BY <1>5, <1>6, <1>7, <1>8

\* A search that begins.
Begun(f) ==
  /\ sudoku = FilledBy(f) /\ srGiven = sudoku /\ a \in Orders
  /\ srAt = 0 /\ srK = [n \in 0..Last-1 |-> 0] /\ srBack = FALSE /\ srResult = "none"

LEMMA BegunInv == ASSUME NEW f \in [0..Box-1 -> Fills], Begun(f) PROVE SrInv
<1>1. SrTypeOK
  <2>1. sudoku \in Sheets /\ srGiven \in Sheets
    BY FilledSound DEF Begun
  <2>2. srAt \in 0..Last /\ srK \in [0..Last-1 -> 0..Width]
    BY SquareOrder, BoxType DEF Begun
  <2> QED BY <2>1, <2>2 DEF Begun, SrTypeOK
<1>2. NoClash(sudoku) /\ GivenKept
  BY FilledSound, DiagonalSquares DEF Begun, GivenKept
<1>3. \A n \in 0..Last-1 : ~Passed(n)
  BY SquareOrder DEF Begun, Passed
<1>4. FilledSoFar
  BY <1>3, FilledSound, SquareOrder DEF Begun, FilledSoFar, Passed
<1>5. \A p \in Diagonal, x \in Numbers : \E q \in Diagonal : SameBlock(p, q) /\ sudoku[q] = x
  BY FilledSound DEF Begun
<1> QED BY <1>1, <1>2, <1>3, <1>4, <1>5 DEF SrInv, Begun

LEMMA SrInitInv == SrInit => SrInv
  BY BegunInv DEF SrInit, Begun

\* The square of the innermost call, and what has been taken away in it.
LEMMA HereType ==
  ASSUME SrInv, Trying
  PROVE  /\ srAt \in 0..Last-1 /\ here \in Squares
         /\ \A n \in 0..Last-1 : SquareAt(n) = here => n = srAt
  BY SquareOrder DEF SrInv, SrTypeOK, Trying, here

\* Where a search comes back to a given square no number fits: its block holds all.
LEMMA NothingFitsGiven ==
  ASSUME SrInv, Looping, here \in Diagonal
  PROVE  srBack /\ Cleared = sudoku /\ Fitting = {}
<1>1. Trying /\ here \in Squares /\ srAt \in 0..Last-1
  BY HereType DEF Looping
<1>2. srBack
  BY DEF Looping, SrInv, GivenKept
<1>3. srK[srAt] = 0
  BY <1>1, <1>2 DEF SrInv, Passed, Trying, here
<1>4. Cleared = sudoku
  BY <1>3 DEF Cleared
<1>5. ASSUME NEW k \in Numbers PROVE ~check(Cleared, here, a[k])
  BY <1>4, DiagonalSquares DEF SrInv, check, checkBlock
<1> QED BY <1>2, <1>4, <1>5 DEF Fitting

\* In a square that was not given, nothing is left of the number it had.
LEMMA ClearedSound ==
  ASSUME SrInv, Looping
  PROVE  /\ Cleared \in Sheets /\ NoClash(Cleared)
         /\ \A p \in Squares : p # here => Cleared[p] = sudoku[p]
         /\ here \notin Diagonal => Cleared[here] = 0
<1>1. Trying /\ here \in Squares /\ srAt \in 0..Last-1
  BY HereType DEF Looping
<1>2. CASE srBack /\ srK[srAt] # 0
  <2>1. Cleared = [sudoku EXCEPT ![here] = 0]
    BY <1>2 DEF Cleared
  <2>2. Cleared \in Sheets /\ NoClash(Cleared)
    BY <1>1, <2>1, ClearKeeps DEF SrInv, SrTypeOK
  <2> QED BY <1>1, <2>1, <2>2 DEF SrInv, SrTypeOK, Sheets
<1>3. CASE ~(srBack /\ srK[srAt] # 0)
  <2>1. Cleared = sudoku
    BY <1>3 DEF Cleared
  <2>2. here \notin Diagonal => ~srBack
    BY <1>1, <1>3 DEF SrInv, Passed, Trying, here
  <2>3. here \notin Diagonal => sudoku[here] = 0
    BY <2>2 DEF Looping
  <2> QED BY <2>1, <2>3 DEF SrInv, SrTypeOK
<1> QED BY <1>2, <1>3

\* What the search does where it is: the blocks are as they were when no given
\* square has changed.
LEMMA GivenStands ==
  ASSUME SrInv, srGiven' = srGiven, \A p \in Diagonal : sudoku'[p] = sudoku[p]
  PROVE  /\ GivenKept'
         /\ \A p \in Diagonal, x \in Numbers :
              \E q \in Diagonal : SameBlock(p, q) /\ sudoku'[q] = x
BY DEF SrInv, GivenKept

LEMMA TryGivenStep == ASSUME SrInv, TryGiven PROVE SrInv'
<1>1. /\ Trying /\ ~srBack /\ sudoku[here] # 0
      /\ srK' = [srK EXCEPT ![srAt] = 0] /\ srAt' = srAt + 1
      /\ UNCHANGED <<sudoku, a, srBack, srResult, srGiven>>
  BY DEF TryGiven
<1>2. srAt \in 0..Last-1 /\ here \in Squares /\ here = SquareAt(srAt)
  BY <1>1, HereType DEF here
<1>3. here \in Diagonal
  BY <1>1, <1>2 DEF SrInv, FilledSoFar
<1>4. SrTypeOK'
  <2>1. srAt' \in 0..Last /\ srK' \in [0..Last-1 -> 0..Width]
    BY <1>1, <1>2, SquareOrder, BoxType DEF SrInv, SrTypeOK
  <2> QED BY <1>1, <2>1 DEF SrInv, SrTypeOK
<1>5. \A n \in 0..Last-1 : Passed(n)' <=> Passed(n) \/ n = srAt
  BY <1>1, <1>2, SquareOrder DEF Passed
<1>6. FilledSoFar'
  BY <1>1, <1>2, <1>3, <1>5 DEF SrInv, FilledSoFar, Passed
<1>7. \A n \in 0..Last-1 : Passed(n)' => (srK'[n] = 0 <=> SquareAt(n) \in Diagonal)
  BY <1>1, <1>2, <1>3, <1>5 DEF SrInv, SrTypeOK
<1>8. NoClash(sudoku)' /\ GivenKept' /\ (srResult' = "true" => srAt' = Last)
  BY <1>1 DEF SrInv, NoClash, GivenKept, Trying
<1>9. \A p \in Diagonal, x \in Numbers : \E q \in Diagonal : SameBlock(p, q) /\ sudoku'[q] = x
  BY <1>1, GivenStands
<1> QED BY <1>4, <1>6, <1>7, <1>8, <1>9 DEF SrInv

LEMMA TryNumberStep == ASSUME SrInv, TryNumber PROVE SrInv'
<1>1. PICK k \in Fitting : /\ sudoku' = [Cleared EXCEPT ![here] = a[k]]
                           /\ srK' = [srK EXCEPT ![srAt] = k]
  BY DEF TryNumber
<1>2. /\ Looping /\ srAt' = srAt + 1 /\ srBack' = FALSE
      /\ UNCHANGED <<a, srResult, srGiven>>
  BY DEF TryNumber
<1>3. k \in Numbers /\ check(Cleared, here, a[k])
  BY <1>1 DEF Fitting
<1>4. srAt \in 0..Last-1 /\ here \in Squares /\ here = SquareAt(srAt)
  BY <1>2, HereType DEF Looping, here
<1>5. here \notin Diagonal
  BY <1>1, <1>2, NothingFitsGiven
<1>6. sudoku' \in Sheets /\ NoClash(sudoku')
  BY <1>1, <1>2, <1>3, <1>4, ClearedSound, CheckKeeps
<1>7. NoClash(sudoku)'
  BY <1>6 DEF NoClash
<1>8. \A p \in Squares : sudoku'[p] = IF p = here THEN a[k] ELSE sudoku[p]
  BY <1>1, <1>2, <1>4, ClearedSound DEF Sheets
<1>9. a[k] \in Numbers /\ a[k] # 0
  BY <1>3 DEF check, Numbers
<1>10. SrTypeOK'
  <2>1. srAt' \in 0..Last /\ srK' \in [0..Last-1 -> 0..Width]
    BY <1>1, <1>2, <1>3, <1>4, SquareOrder, BoxType DEF SrInv, SrTypeOK, Numbers
  <2> QED BY <1>2, <1>6, <2>1 DEF SrInv, SrTypeOK
<1>11. \A n \in 0..Last-1 : Passed(n)' <=> n < srAt \/ n = srAt
  BY <1>2, <1>4, SquareOrder DEF Passed
<1>12. FilledSoFar'
  BY <1>4, <1>8, <1>9, <1>11, SquareOrder DEF SrInv, FilledSoFar, Passed
<1>13. \A n \in 0..Last-1 : Passed(n)' => (srK'[n] = 0 <=> SquareAt(n) \in Diagonal)
  BY <1>1, <1>3, <1>4, <1>5, <1>11 DEF SrInv, SrTypeOK, Passed, Numbers
<1>14. /\ GivenKept'
       /\ \A p \in Diagonal, x \in Numbers :
            \E q \in Diagonal : SameBlock(p, q) /\ sudoku'[q] = x
  BY <1>2, <1>5, <1>8, DiagonalSquares, GivenStands
<1>15. srResult' # "true"
  BY <1>2 DEF Looping, Trying
<1> QED BY <1>7, <1>10, <1>12, <1>13, <1>14, <1>15 DEF SrInv

\* The search goes back, or is over, and leaves nothing where it was.
LEMMA GiveUpStep == ASSUME SrInv, GiveUp PROVE SrInv'
<1>1. Looping /\ sudoku' = Cleared /\ UNCHANGED <<a, srK, srGiven>>
  BY DEF GiveUp
<1>2. srAt \in 0..Last-1 /\ here \in Squares /\ here = SquareAt(srAt) /\ srResult = "none"
  BY <1>1, HereType DEF Looping, Trying, here
<1>3. sudoku' \in Sheets /\ NoClash(sudoku')
  BY <1>1, ClearedSound
<1>4. NoClash(sudoku)'
  BY <1>3 DEF NoClash
<1>5. /\ \A p \in Squares : p # here => sudoku'[p] = sudoku[p]
      /\ here \notin Diagonal => sudoku'[here] = 0
      /\ here \in Diagonal => sudoku' = sudoku
  BY <1>1, ClearedSound, NothingFitsGiven
<1>6. SrTypeOK' /\ srResult' # "true"
  <2>1. srAt' \in 0..Last /\ srBack' \in BOOLEAN /\ srResult' \in {"none", "false"}
    <3>1. CASE srAt = 0
      BY <1>2, <3>1 DEF GiveUp, SrInv, SrTypeOK
    <3>2. CASE srAt # 0
      BY <1>2, <3>2, SquareOrder DEF GiveUp, SrInv, SrTypeOK
    <3> QED BY <3>1, <3>2
  <2> QED BY <1>1, <1>3, <2>1 DEF SrInv, SrTypeOK
<1>7. \A n \in 0..Last-1 : Passed(n)' <=> n < srAt
  <2>1. CASE srAt = 0
    BY <1>2, <2>1 DEF GiveUp, Passed
  <2>2. CASE srAt # 0
    BY <1>2, <2>2, SquareOrder DEF GiveUp, Passed
  <2> QED BY <2>1, <2>2
<1>8. FilledSoFar'
  BY <1>2, <1>5, <1>7, SquareOrder DEF SrInv, FilledSoFar, Passed
<1>9. \A n \in 0..Last-1 : Passed(n)' => (srK'[n] = 0 <=> SquareAt(n) \in Diagonal)
  BY <1>1, <1>7 DEF SrInv, Passed
<1>10. /\ GivenKept'
       /\ \A p \in Diagonal, x \in Numbers :
            \E q \in Diagonal : SameBlock(p, q) /\ sudoku'[q] = x
  BY <1>1, <1>5, DiagonalSquares, GivenStands
<1> QED BY <1>4, <1>6, <1>8, <1>9, <1>10 DEF SrInv

LEMMA SucceedStep == ASSUME SrInv, Succeed PROVE SrInv'
<1>1. /\ srResult = "none" /\ srAt = Last /\ srResult' = "true"
      /\ UNCHANGED <<sudoku, a, srAt, srK, srBack, srGiven>>
  BY DEF Succeed
<1>2. \A n \in 0..Last-1 : Passed(n) /\ Passed(n)'
  BY <1>1, SquareOrder DEF Passed
<1>3. SrTypeOK' /\ NoClash(sudoku)' /\ GivenKept'
  BY <1>1 DEF SrInv, SrTypeOK, NoClash, GivenKept
<1>4. FilledSoFar'
  BY <1>1, SquareOrder DEF SrInv, FilledSoFar
<1> QED BY <1>1, <1>2, <1>3, <1>4 DEF SrInv

\* createGame calls createSudoku again, which begins as the first time.
LEMMA AgainStep == CreateAgain => SrInv'
<1>1. ASSUME NEW f \in [0..Box-1 -> Fills] PROVE Begun(f)' => SrInv'
  <2>1. Begun(f) => SrInv
    BY BegunInv
  <2> QED BY <2>1, PTL
<1>2. CreateAgain => \E f \in [0..Box-1 -> Fills] : Begun(f)'
  BY DEF CreateAgain, Begun
<1> QED BY <1>1, <1>2

LEMMA SrStands == SrInv /\ UNCHANGED srVars => SrInv'
  BY DEF srVars, SrInv, SrTypeOK, GivenKept, FilledSoFar, NoClash, Passed

(***************************************************************************)
(* The search passes no finished board over.                               *)
(***************************************************************************)
Valid == {b \in [Squares -> Numbers] : NoClash(b)}

Agrees(b, n) == \A m \in 0..n-1 : sudoku[SquareAt(m)] = b[SquareAt(m)]

\* Round k + 1 of the call for square n tries b's number, and it is to come.
ToCome(b, n) == /\ SquareAt(n) \notin Diagonal
                /\ \A k \in Numbers : a[k] = b[SquareAt(n)] => k > srK[n]

\* b comes after what has been tried, in the order of the search: it begins as
\* the board does, and where it first differs its number is still to be tried.
AheadAt(b, n) ==
  /\ n \in 0..srAt /\ Agrees(b, n)
  /\ \/ n = srAt /\ ~srBack
     \/ (n < srAt \/ srBack) /\ ToCome(b, n)
Ahead(b) == \E n \in 0..srAt : AheadAt(b, n)

AheadInv == \A b \in Valid : Continues(b) => srResult # "false" /\ Ahead(b)

LEMMA OrderType == ASSUME NEW o \in Orders
                   PROVE  /\ \A k \in Numbers : o[k] \in Numbers
                          /\ \A k, l \in Numbers : o[k] = o[l] => k = l
                          /\ \A x \in Numbers : \E k \in Numbers : o[k] = x
BY OrdersAssumption DEF Bijection, Injection, Surjection, IsInjective

\* Where a board agrees with all that is filled, its number fits.
LEMMA NextFits ==
  ASSUME SrInv, Looping, here \notin Diagonal,
         NEW b \in Valid, Continues(b), Agrees(b, srAt)
  PROVE  check(Cleared, here, b[here])
<1>1. srAt \in 0..Last-1 /\ here \in Squares /\ here = SquareAt(srAt)
  BY HereType DEF Looping, here
<1>2. ASSUME NEW q \in Squares, q # here PROVE Cleared[q] \in {0, b[q]}
  <2>1. PICK m \in 0..Last-1 : SquareAt(m) = q
    BY SquareOrder
  <2>2. Cleared[q] = sudoku[q] /\ m # srAt
    BY <1>1, <1>2, <2>1, ClearedSound
  <2>3. CASE q \in Diagonal
    BY <2>2, <2>3 DEF SrInv, GivenKept, Continues
  <2>4. CASE q \notin Diagonal /\ m < srAt
    BY <1>1, <2>1, <2>2, <2>4 DEF Agrees
  <2>5. CASE q \notin Diagonal /\ m > srAt
    BY <1>1, <2>1, <2>2, <2>5 DEF SrInv, FilledSoFar
  <2> QED BY <1>1, <2>2, <2>3, <2>4, <2>5
<1>3. b[here] \in Numbers /\ b[here] # 0 /\ NoClash(b)
  BY <1>1, BoxType DEF Valid, Numbers
<1>4. ASSUME NEW q \in Squares, q # here => InLine(here, q) PROVE Cleared[q] # b[here]
  <2>1. CASE q = here
    BY <1>3, <2>1, ClearedSound
  <2>2. CASE q # here
    BY <1>1, <1>2, <1>3, <1>4, <2>2 DEF NoClash
  <2> QED BY <2>1, <2>2
<1> QED BY <1>1, <1>3, <1>4
     DEF check, checkRow, checkColumn, checkBlock, InLine

\* So, when a board is ahead from the square of the innermost call on, the loop
\* has a round left for it.
LEMMA RoundLeft ==
  ASSUME SrInv, Looping, NEW b \in Valid, Continues(b), AheadAt(b, srAt)
  PROVE  here \notin Diagonal /\ \E k \in Fitting : a[k] = b[here]
<1>1. here \notin Diagonal
  BY NothingFitsGiven DEF AheadAt, ToCome, here
<1>2. check(Cleared, here, b[here]) /\ b[here] \in Numbers
  BY <1>1, NextFits DEF AheadAt, check
<1>3. PICK k \in Numbers : a[k] = b[here]
  BY <1>2, OrderType DEF SrInv, SrTypeOK
<1>4. srBack => k > srK[srAt]
  BY <1>3 DEF AheadAt, ToCome, here
<1> QED BY <1>1, <1>2, <1>3, <1>4 DEF Fitting

LEMMA BegunAhead == ASSUME NEW f \in [0..Box-1 -> Fills], Begun(f) PROVE AheadInv
<1>1. srAt = 0 /\ ~srBack /\ srResult = "none"
  BY DEF Begun
<1>2. ASSUME NEW b \in Valid PROVE AheadAt(b, 0)
  <2>1. 0..0-1 = {}
    OBVIOUS
  <2>2. Agrees(b, 0)
    BY <2>1 DEF Agrees
  <2> QED BY <1>1, <2>2 DEF AheadAt
<1> QED BY <1>1, <1>2 DEF AheadInv, Ahead

LEMMA TryGivenAhead ==
  ASSUME SrInv, TryGiven, NEW b \in Valid, Continues(b), Ahead(b)
  PROVE  Ahead(b)'
<1>1. /\ Trying /\ ~srBack /\ sudoku[here] # 0 /\ srAt' = srAt + 1
      /\ srK' = [srK EXCEPT ![srAt] = 0]
      /\ UNCHANGED <<sudoku, a, srBack, srResult, srGiven>>
  BY DEF TryGiven
<1>2. srAt \in 0..Last-1 /\ here \in Squares /\ here = SquareAt(srAt)
  BY <1>1, HereType DEF here
<1>3. sudoku[here] = b[here]
  BY <1>1, <1>2 DEF SrInv, FilledSoFar, GivenKept, Continues
<1>4. PICK n \in 0..srAt : AheadAt(b, n)
  BY DEF Ahead
<1>5. CASE n = srAt
  <2>1. PICK t \in 0..Last : t = srAt + 1
    BY <1>2, SquareOrder
  <2>2. \A m \in 0..t-1 : m = srAt \/ m \in 0..srAt-1
    BY <1>2, <2>1
  <2>3. Agrees(b, t)'
    BY <1>1, <1>2, <1>3, <1>4, <1>5, <2>2 DEF AheadAt, Agrees
  <2>4. AheadAt(b, t)'
    BY <1>1, <1>2, <2>1, <2>3 DEF AheadAt
  <2> QED BY <1>1, <1>2, <2>1, <2>4 DEF Ahead
<1>6. CASE n < srAt
  <2>1. srK'[n] = srK[n]
    BY <1>1, <1>2, <1>4, <1>6 DEF SrInv, SrTypeOK
  <2>2. AheadAt(b, n)'
    BY <1>1, <1>2, <1>4, <1>6, <2>1 DEF AheadAt, Agrees, ToCome
  <2> QED BY <1>1, <1>2, <1>4, <2>2 DEF Ahead
<1> QED BY <1>2, <1>5, <1>6

\* The number tried is b's, or comes before it.
LEMMA TryNumberAhead ==
  ASSUME SrInv, TryNumber, NEW b \in Valid, Continues(b), Ahead(b)
  PROVE  Ahead(b)'
<1>1. PICK k \in Fitting : /\ \A l \in Fitting : k <= l
                           /\ sudoku' = [Cleared EXCEPT ![here] = a[k]]
                           /\ srK' = [srK EXCEPT ![srAt] = k]
  BY DEF TryNumber
<1>2. Looping /\ srAt' = srAt + 1 /\ srBack' = FALSE /\ a' = a
  BY DEF TryNumber
<1>3. srAt \in 0..Last-1 /\ here \in Squares /\ here = SquareAt(srAt) /\ k \in Numbers
  BY <1>1, <1>2, HereType DEF Looping, here, Fitting
<1>4. \A p \in Squares : sudoku'[p] = IF p = here THEN a[k] ELSE sudoku[p]
  BY <1>1, <1>2, <1>3, ClearedSound DEF Sheets
<1>5. \A m \in 0..srAt-1 : sudoku'[SquareAt(m)] = sudoku[SquareAt(m)]
  BY <1>3, <1>4, SquareOrder
<1>6. \A m \in 0..Last-1 : srK'[m] = IF m = srAt THEN k ELSE srK[m]
  BY <1>1, <1>3 DEF SrInv, SrTypeOK
<1>7. PICK n \in 0..srAt : AheadAt(b, n)
  BY DEF Ahead
<1>8. Agrees(b, n)' /\ n \in 0..Last-1 /\ n < srAt'
  <2>1. \A m \in 0..n-1 : m \in 0..srAt-1
    BY <1>3, <1>7
  <2>2. Agrees(b, n)'
    BY <1>5, <1>7, <2>1 DEF AheadAt, Agrees
  <2> QED BY <1>2, <1>3, <1>7, <2>2, SquareOrder
<1>9. ToCome(b, n)' => Ahead(b)'
  <2>1. n \in (0..srAt)'
    BY <1>2, <1>3, <1>8
  <2> QED BY <1>8, <2>1 DEF Ahead, AheadAt
<1>10. CASE n < srAt
  <2>1. srK'[n] = srK[n] /\ ToCome(b, n)
    BY <1>3, <1>6, <1>7, <1>8, <1>10 DEF AheadAt
  <2> QED BY <1>2, <1>9, <2>1 DEF ToCome
<1>11. CASE n = srAt
  <2>1. here \notin Diagonal /\ \E r \in Fitting : a[r] = b[here]
    BY <1>2, <1>7, <1>11, RoundLeft
  <2>2. PICK r \in Numbers : a[r] = b[here] /\ k <= r
    BY <1>1, <2>1 DEF Fitting
  <2>3. CASE k = r
    <3>1. PICK t \in 0..Last : t = srAt + 1
      BY <1>3, SquareOrder
    <3>2. \A m \in 0..t-1 : m = srAt \/ m \in 0..srAt-1
      BY <1>3, <3>1
    <3>3. sudoku'[here] = b[here]
      BY <1>3, <1>4, <2>2, <2>3
    <3>4. \A m \in 0..t-1 : sudoku'[SquareAt(m)] = b[SquareAt(m)]
      BY <1>3, <1>5, <1>7, <1>11, <3>2, <3>3 DEF AheadAt, Agrees
    <3>5. AheadAt(b, t)'
      BY <1>2, <1>3, <3>1, <3>4 DEF AheadAt, Agrees
    <3> QED BY <1>2, <1>3, <3>1, <3>5 DEF Ahead
  <2>4. CASE k < r
    <3>1. \A l \in Numbers : a[l] = b[here] => l = r
      BY <2>2, OrderType DEF SrInv, SrTypeOK
    <3>2. srK'[n] = k /\ SquareAt(n) = here
      BY <1>3, <1>6, <1>11
    <3>3. ToCome(b, n)'
      BY <1>2, <2>1, <2>4, <3>1, <3>2 DEF ToCome
    <3> QED BY <1>9, <3>3
  <2> QED BY <1>3, <2>2, <2>3, <2>4 DEF Numbers
<1> QED BY <1>3, <1>7, <1>10, <1>11

\* No round is left: b is not ahead from here on, but from an earlier square.
LEMMA GiveUpAhead ==
  ASSUME SrInv, GiveUp, NEW b \in Valid, Continues(b), Ahead(b)
  PROVE  srResult' # "false" /\ Ahead(b)'
<1>1. Looping /\ Fitting = {} /\ sudoku' = Cleared /\ UNCHANGED <<a, srK>>
  BY DEF GiveUp
<1>2. srAt \in 0..Last-1 /\ here = SquareAt(srAt) /\ srResult = "none"
  BY <1>1, HereType DEF Looping, Trying, here
<1>3. PICK n \in 0..srAt : AheadAt(b, n)
  BY DEF Ahead
<1>4. n < srAt
  BY <1>1, <1>2, <1>3, RoundLeft
<1>5. srAt' = srAt - 1 /\ srBack' /\ srResult' = srResult
  BY <1>2, <1>3, <1>4 DEF GiveUp
<1>6. \A m \in 0..srAt-1 : sudoku'[SquareAt(m)] = sudoku[SquareAt(m)]
  BY <1>1, <1>2, ClearedSound, SquareOrder
<1>7. AheadAt(b, n)'
  BY <1>1, <1>2, <1>3, <1>4, <1>5, <1>6 DEF AheadAt, Agrees, ToCome
<1> QED BY <1>2, <1>3, <1>4, <1>5, <1>7 DEF Ahead

LEMMA AgainAhead == CreateAgain => AheadInv'
<1>1. ASSUME NEW f \in [0..Box-1 -> Fills] PROVE Begun(f)' => AheadInv'
  <2>1. Begun(f) => AheadInv
    BY BegunAhead
  <2> QED BY <2>1, PTL
<1>2. CreateAgain => \E f \in [0..Box-1 -> Fills] : Begun(f)'
  BY DEF CreateAgain, Begun
<1> QED BY <1>1, <1>2

LEMMA AheadStep == SrInv /\ AheadInv /\ [SrNext]_srVars => AheadInv'
<1> SUFFICES ASSUME SrInv, AheadInv, [SrNext]_srVars PROVE AheadInv'
  OBVIOUS
<1>1. CASE CreateAgain
  BY <1>1, AgainAhead
<1>2. CASE SrStep \/ UNCHANGED srVars
  <2>1. srGiven' = srGiven
    BY <1>2 DEF SrStep, TryGiven, TryNumber, GiveUp, Succeed, srVars
  <2> SUFFICES ASSUME NEW b \in Valid, Continues(b)
               PROVE  srResult' # "false" /\ Ahead(b)'
    BY <2>1 DEF AheadInv, Continues, Valid, NoClash
  <2>2. srResult # "false" /\ Ahead(b)
    BY DEF AheadInv
  <2>3. CASE TryGiven
    BY <2>2, <2>3, TryGivenAhead DEF TryGiven
  <2>4. CASE TryNumber
    BY <2>2, <2>4, TryNumberAhead DEF TryNumber
  <2>5. CASE GiveUp
    BY <2>2, <2>5, GiveUpAhead
  <2>6. CASE Succeed
    BY <2>2, <2>6 DEF Succeed, Ahead, AheadAt, Agrees, ToCome
  <2>7. CASE UNCHANGED srVars
    BY <2>2, <2>7 DEF srVars, Ahead, AheadAt, Agrees, ToCome
  <2> QED BY <1>2, <2>3, <2>4, <2>5, <2>6, <2>7 DEF SrStep
<1> QED BY <1>1, <1>2 DEF SrNext

LEMMA SearchInvariance == SrSpec => [](SrInv /\ AheadInv)
<1>1. SrInit => SrInv /\ AheadInv
  BY SrInitInv, BegunAhead DEF SrInit, Begun
<1>2. (SrInv /\ AheadInv) /\ [SrNext]_srVars => (SrInv /\ AheadInv)'
  BY TryGivenStep, TryNumberStep, GiveUpStep, SucceedStep, AgainStep, SrStands, AheadStep
     DEF SrNext, SrStep
<1> QED BY <1>1, <1>2, PTL DEF SrSpec

\* sudoku.js 133-176, for every size of the board, every way of filling the
\* blocks and every order of trying: the board obeys the rules all along, the
\* random blocks are never overwritten, nothing is left of what was given up,
\* and a board createSudoku reports is full.
THEOREM SearchStaysSound == SrSpec => []SearchSound
<1>1. SrInv /\ AheadInv => SearchSound
  BY SearchSoundInv
<1> QED BY SearchInvariance, <1>1, PTL

\* sudoku.js 206-217: so what createGame takes the finished board to be, and
\* what SudokuPage assumes of Answers, is what createSudoku returns.
THEOREM SearchAnswers ==
  SrSpec => [](srResult = "true" => sudoku \in [Squares -> Numbers] /\ NoClash(sudoku))
<1>1. SrInv /\ AheadInv /\ srResult = "true" => sudoku \in [Squares -> Numbers] /\ NoClash(sudoku)
  <2> SUFFICES ASSUME SrInv, srResult = "true"
               PROVE  sudoku \in [Squares -> Numbers] /\ NoClash(sudoku)
    OBVIOUS
  <2>1. sudoku \in [Squares -> 0..Width] /\ NoClash(sudoku) /\ Full(sudoku)
    BY SearchSoundInv DEF SearchSound, SrInv, SrTypeOK, Sheets
  <2>2. \A p \in Squares : sudoku[p] \in Numbers
    BY <2>1, BoxType DEF Full, Numbers
  <2> QED BY <2>1, <2>2
<1> QED BY SearchInvariance, <1>1, PTL

\* sudoku.js 133-176: createSudoku gives FALSE only where no board at all that
\* obeys the rules continues the random blocks, in whatever order it tries the
\* numbers.
THEOREM FailsOnlyIfNone ==
  SrSpec => [](srResult = "false" =>
                 ~\E b \in [Squares -> Numbers] : NoClash(b) /\ Continues(b))
<1>1. AheadInv /\ srResult = "false" =>
        ~\E b \in [Squares -> Numbers] : NoClash(b) /\ Continues(b)
  BY DEF AheadInv, Valid
<1> QED BY SearchInvariance, <1>1, PTL

\* In particular none of Finished does.
THEOREM FailureIsRight == SrSpec => []FailsRightly
<1>1. AheadInv => FailsRightly
  BY FinishedAssumption DEF AheadInv, FailsRightly, Valid
<1> QED BY SearchInvariance, <1>1, PTL

(***************************************************************************)
(* Sums over a set.  Folds defines them by recursion over its subsets;     *)
(* that the recursion has a solution, and one only, is shown first, by     *)
(* taking a smallest set for which it would fail.                          *)
(***************************************************************************)

\* Induction over the subsets of a finite set: what holds of a set when it holds of
\* every smaller one holds of all.
LEMMA SubsetInduction ==
  ASSUME NEW S, IsFiniteSet(S), NEW T \in SUBSET (SUBSET S),
         \A s \in SUBSET S : (\A t \in SUBSET s : t # s => t \in T) => s \in T
  PROVE  T = SUBSET S
<1> SUFFICES ASSUME (SUBSET S) \ T # {} PROVE FALSE
  OBVIOUS
<1> DEFINE M == (SUBSET S) \ T
           R == StrictSubsetOrdering(S)
<1>1. M \subseteq FiniteSubsetsOf(S) /\ M # {} /\ IsWellFoundedOn(R, FiniteSubsetsOf(S))
  <2>1. FiniteSubsetsOf(S) = SUBSET S
    BY FS_FiniteSubsetsOfFinite
  <2> QED BY <2>1, FS_StrictSubsetOrderingWellFounded
<1>2. \E s \in M : \A t \in M : ~(<<t, s>> \in R)
  <2> HIDE DEF M, R
  <2> QED BY <1>1, WFMin
<1>3. PICK s \in M : \A t \in M : ~(<<t, s>> \in R)
  BY <1>2
<1>4. \A t \in SUBSET s : t # s => t \in T
  BY <1>3 DEF StrictSubsetOrdering
<1>5. s \in SUBSET S /\ s \notin T
  BY <1>3
<1> HIDE DEF M
<1>6. s \in T
  BY <1>4, <1>5
<1> QED BY <1>5, <1>6

\* The same over the natural numbers.
LEMMA NumberInduction ==
  ASSUME NEW T \in SUBSET Nat, 0 \in T, \A n \in T : n + 1 \in T
  PROVE  T = Nat
<1> SUFFICES ASSUME Nat \ T # {} PROVE FALSE
  OBVIOUS
<1> DEFINE M == Nat \ T
           R == OpToRel(<, Nat)
<1>0. \E n \in M : \A m \in M : ~(<<m, n>> \in R)
  <2>1. M \subseteq Nat /\ M # {} /\ IsWellFoundedOn(R, Nat)
    BY NatLessThanWellFounded
  <2> HIDE DEF M, R
  <2> QED BY <2>1, WFMin
<1>1. PICK n \in M : \A m \in M : ~(<<m, n>> \in R)
  BY <1>0
<1>2. n # 0 /\ n - 1 \in Nat /\ n - 1 < n
  OBVIOUS
<1>3. n - 1 \in T
  <2>1. <<n - 1, n>> \in R
    BY <1>2 DEF OpToRel
  <2> QED BY <1>1, <1>2, <2>1
<1>4. n = (n - 1) + 1
  OBVIOUS
<1>5. (n - 1) + 1 \in T
  BY <1>3
<1> QED BY <1>4, <1>5

\* The choice and the step by which Folds adds up a set.
Pick(s) == CHOOSE x \in s : TRUE
Added(b, f, s) == IF s = {} THEN 0 ELSE b[Pick(s)] + f[s \ {Pick(s)}]
Tally(b, l, f) == f = [s \in SUBSET l |-> Added(b, f, s)]

\* SumFunctionOnSet is the value of a tally, if there is one.
LEMMA SumIsTally ==
  ASSUME NEW b, NEW l
  PROVE  SumFunctionOnSet(b, l) = (CHOOSE f : Tally(b, l, f))[l]
BY DEF SumFunctionOnSet, FoldFunctionOnSet, MapThenFoldSet, Tally, Added, Pick

LEMMA PickIn ==
  ASSUME NEW s, s # {}
  PROVE  Pick(s) \in s /\ s \ {Pick(s)} \in SUBSET s /\ s \ {Pick(s)} # s
BY DEF Pick

\* What a tally says of one set.
LEMMA TallyAt ==
  ASSUME NEW b, NEW l, NEW f, Tally(b, l, f), NEW s \in SUBSET l
  PROVE  f[s] = Added(b, f, s)
<1>1. f = [t \in SUBSET l |-> Added(b, f, t)]
  BY DEF Tally
<1> DEFINE A(t) == Added(b, f, t)
<1>2. f = [t \in SUBSET l |-> A(t)]
  BY <1>1
<1> HIDE DEF A
<1>3. f[s] = A(s)
  BY <1>2
<1> QED BY <1>3 DEF A

\* Two tallies agree on a set that both reach.
LEMMA TallyUnique ==
  ASSUME NEW l, IsFiniteSet(l), NEW b, NEW k, NEW m, NEW f, NEW g,
         l \subseteq k, l \subseteq m, Tally(b, k, f), Tally(b, m, g)
  PROVE  f[l] = g[l]
<1> DEFINE T == {s \in SUBSET l : f[s] = g[s]}
<1>1. ASSUME NEW s \in SUBSET l, \A t \in SUBSET s : t # s => t \in T
      PROVE  s \in T
  <2>1. f[s] = Added(b, f, s) /\ g[s] = Added(b, g, s)
    BY TallyAt
  <2>2. CASE s = {}
    BY <2>1, <2>2 DEF Added
  <2>3. CASE s # {}
    <3>1. s \ {Pick(s)} \in T
      BY <1>1, <2>3, PickIn
    <3> QED BY <2>1, <2>3, <3>1 DEF Added
  <2> QED BY <2>2, <2>3
<1>2. T = SUBSET l
  <2> HIDE DEF T
  <2>1. T \in SUBSET (SUBSET l)
    BY DEF T
  <2> QED BY <1>1, <2>1, SubsetInduction
<1> QED BY <1>2

\* Every finite set has a tally.
LEMMA TallyExists ==
  ASSUME NEW S, IsFiniteSet(S), NEW b
  PROVE  \E f : Tally(b, S, f)
<1> DEFINE T == {t \in SUBSET S : \E f : Tally(b, t, f)}
<1>1. ASSUME NEW t \in SUBSET S, \A u \in SUBSET t : u # t => u \in T
      PROVE  t \in T
  <2> DEFINE Tallied(u) == CHOOSE f : Tally(b, u, f)
             F(s) == IF s # t THEN Tallied(s)[s]
                     ELSE IF t = {} THEN 0 ELSE b[Pick(t)] + Tallied(t \ {Pick(t)})[t \ {Pick(t)}]
             f == [s \in SUBSET t |-> F(s)]
  <2>1. ASSUME NEW u \in SUBSET t, u # t PROVE Tally(b, u, Tallied(u)) /\ F(u) = Tallied(u)[u]
    <3>1. \E g : Tally(b, u, g)
      BY <1>1, <2>1
    <3> QED BY <3>1, <2>1
  <2>2. ASSUME NEW s \in SUBSET t PROVE F(s) = Added(b, f, s)
    <3>1. CASE s = {}
      <4>1. CASE s = t
        BY <3>1, <4>1 DEF Added
      <4>2. CASE s # t
        <5>1. F(s) = Added(b, Tallied(s), s)
          BY <2>1, <4>2, TallyAt
        <5> QED BY <3>1, <5>1 DEF Added
      <4> QED BY <4>1, <4>2
    <3>2. CASE s # {}
      <4> DEFINE v == s \ {Pick(s)}
      <4>1. v \in SUBSET t /\ v # t /\ v \in SUBSET s
        BY <3>2, PickIn
      <4>2. f[v] = Tallied(v)[v] /\ Tally(b, v, Tallied(v))
        BY <4>1, <2>1
      <4>3. F(s) = b[Pick(s)] + Tallied(v)[v]
        <5>1. CASE s = t
          BY <3>2, <5>1
        <5>2. CASE s # t
          <6>1. F(s) = Tallied(s)[s] /\ Tally(b, s, Tallied(s))
            BY <5>2, <2>1
          <6> HIDE DEF F, f, Tallied
          <6>2. F(s) = Added(b, Tallied(s), s)
            BY <6>1, TallyAt
          <6>3. IsFiniteSet(v)
            BY <4>1, FS_Subset
          <6>4. Tallied(s)[v] = Tallied(v)[v]
            BY <6>1, <6>3, <4>1, <4>2, TallyUnique
          <6> QED BY <6>2, <6>4, <3>2 DEF Added
        <5> QED BY <5>1, <5>2
      <4> HIDE DEF F, f, Tallied
      <4> QED BY <4>2, <4>3, <3>2 DEF Added
    <3> QED BY <3>1, <3>2
  <2>3. Tally(b, t, f)
    <3> DEFINE A(s) == Added(b, f, s)
    <3>1. \A s \in SUBSET t : F(s) = A(s)
      BY <2>2
    <3>2. f = [s \in SUBSET t |-> F(s)]
      OBVIOUS
    <3> HIDE DEF F, f, A
    <3>3. f = [s \in SUBSET t |-> A(s)]
      BY <3>1, <3>2
    <3> QED BY <3>3 DEF A, Tally
  <2> QED BY <2>3
<1>2. T = SUBSET S
  <2> HIDE DEF T
  <2>1. T \in SUBSET (SUBSET S)
    BY DEF T
  <2> QED BY <1>1, <2>1, SubsetInduction
<1> QED BY <1>2

\* How a sum over a finite set is computed.
LEMMA SumStep ==
  ASSUME NEW l, IsFiniteSet(l), NEW b
  PROVE  /\ l = {} => SumFunctionOnSet(b, l) = 0
         /\ l # {} => SumFunctionOnSet(b, l) = b[Pick(l)] + SumFunctionOnSet(b, l \ {Pick(l)})
<1> DEFINE f(s) == CHOOSE g : Tally(b, s, g)
           v == l \ {Pick(l)}
<1>1. Tally(b, l, f(l)) /\ SumFunctionOnSet(b, l) = f(l)[l]
  BY TallyExists, SumIsTally
<1>2. f(l)[l] = Added(b, f(l), l)
  BY <1>1, TallyAt
<1>3. ASSUME l # {} PROVE f(l)[v] = SumFunctionOnSet(b, v)
  <2>1. v \in SUBSET l /\ IsFiniteSet(v)
    BY <1>3, PickIn, FS_Subset
  <2>2. Tally(b, v, f(v)) /\ SumFunctionOnSet(b, v) = f(v)[v]
    BY <2>1, TallyExists, SumIsTally
  <2> HIDE DEF f, v
  <2> QED BY <1>1, <2>1, <2>2, TallyUnique
<1> QED BY <1>1, <1>2, <1>3 DEF Added

\* Of natural numbers the sum is one.
LEMMA SumType ==
  ASSUME NEW l, IsFiniteSet(l), NEW b, \A q \in l : b[q] \in Nat
  PROVE  SumFunctionOnSet(b, l) \in Nat
<1> DEFINE T == {s \in SUBSET l : SumFunctionOnSet(b, s) \in Nat}
<1>1. ASSUME NEW s \in SUBSET l, \A t \in SUBSET s : t # s => t \in T
      PROVE  s \in T
  <2>1. IsFiniteSet(s)
    BY FS_Subset
  <2>2. CASE s = {}
    <3>1. SumFunctionOnSet(b, s) = 0
      BY <2>1, <2>2, SumStep
    <3> QED BY <3>1
  <2>3. CASE s # {}
    <3>1. s \ {Pick(s)} \in T /\ b[Pick(s)] \in Nat
      BY <1>1, <2>3, PickIn
    <3>2. SumFunctionOnSet(b, s) = b[Pick(s)] + SumFunctionOnSet(b, s \ {Pick(s)})
      BY <2>1, <2>3, SumStep
    <3> QED BY <3>1, <3>2
  <2> QED BY <2>2, <2>3
<1>2. T = SUBSET l
  <2> HIDE DEF T
  <2>1. T \in SUBSET (SUBSET l)
    BY DEF T
  <2> QED BY <1>1, <2>1, SubsetInduction
<1> QED BY <1>2

\* A sum may be begun with any element.
LEMMA SumAnyOrder ==
  ASSUME NEW l, IsFiniteSet(l), NEW b, \A q \in l : b[q] \in Nat
  PROVE  \A q \in l : SumFunctionOnSet(b, l) = b[q] + SumFunctionOnSet(b, l \ {q})
<1> DEFINE Sum(s) == SumFunctionOnSet(b, s)
           T == {s \in SUBSET l : \A q \in s : Sum(s) = b[q] + Sum(s \ {q})}
<1>0. \A s \in SUBSET l : IsFiniteSet(s) /\ Sum(s) \in Nat
  BY FS_Subset, SumType
<1>1. ASSUME NEW s \in SUBSET l, \A t \in SUBSET s : t # s => t \in T
      PROVE  s \in T
  <2> SUFFICES ASSUME NEW q \in s PROVE Sum(s) = b[q] + Sum(s \ {q})
    OBVIOUS
  <2> DEFINE x == Pick(s)
             w == s \ {q, x}
  <2>1. x \in s /\ Sum(s) = b[x] + Sum(s \ {x})
    BY <1>0, SumStep, PickIn
  <2>2. CASE q = x
    BY <2>1, <2>2
  <2>3. CASE q # x
    <3> HIDE DEF x
    <3>1. s \ {x} \in T /\ s \ {q} \in T
      BY <1>1, <2>1
    <3>2. (s \ {x}) \ {q} = w /\ (s \ {q}) \ {x} = w
      OBVIOUS
    <3>3. Sum(s \ {x}) = b[q] + Sum(w) /\ Sum(s \ {q}) = b[x] + Sum(w)
      BY <2>1, <2>3, <3>1, <3>2
    <3>4. b[q] \in Nat /\ b[x] \in Nat /\ Sum(w) \in Nat
      BY <1>0, <2>1
    <3> HIDE DEF Sum, w
    <3> QED BY <2>1, <3>3, <3>4
  <2> QED BY <2>2, <2>3
<1>2. T = SUBSET l
  <2> HIDE DEF T
  <2>1. T \in SUBSET (SUBSET l)
    BY DEF T
  <2> QED BY <1>1, <2>1, SubsetInduction
<1> QED BY <1>2

\* Empty squares add nothing.
LEMMA SumOfZeros ==
  ASSUME NEW l, IsFiniteSet(l), NEW b, \A q \in l : b[q] = 0
  PROVE  SumFunctionOnSet(b, l) = 0
<1> DEFINE T == {s \in SUBSET l : SumFunctionOnSet(b, s) = 0}
<1>1. ASSUME NEW s \in SUBSET l, \A t \in SUBSET s : t # s => t \in T
      PROVE  s \in T
  <2>1. IsFiniteSet(s)
    BY FS_Subset
  <2>2. CASE s = {}
    BY <2>1, <2>2, SumStep
  <2>3. CASE s # {}
    <3>1. s \ {Pick(s)} \in T /\ b[Pick(s)] = 0
      BY <1>1, <2>3, PickIn
    <3> QED BY <2>1, <2>3, <3>1, SumStep
  <2> QED BY <2>2, <2>3
<1>2. T = SUBSET l
  <2> HIDE DEF T
  <2>1. T \in SUBSET (SUBSET l)
    BY DEF T
  <2> QED BY <1>1, <2>1, SubsetInduction
<1> QED BY <1>2

\* Numbers up to n, none of them twice, add up to no more than 1 to n do, and to as
\* much only if each of these is among them.
UpTo(b, l, n) ==
  /\ \A q \in l : b[q] \in 0..n
  /\ \A p, q \in l : p # q /\ b[p] # 0 => b[p] # b[q]
AtMost(b, l, n) ==
  /\ 2 * SumFunctionOnSet(b, l) <= n * (n + 1)
  /\ 2 * SumFunctionOnSet(b, l) = n * (n + 1) => \A v \in 1..n : \E q \in l : b[q] = v

LEMMA NextTriangle ==
  ASSUME NEW n \in Nat
  PROVE  (n + 1) * ((n + 1) + 1) = n * (n + 1) + 2 * (n + 1) /\ n * (n + 1) \in Nat
OBVIOUS

LEMMA SumOfNumbers ==
  ASSUME NEW S, IsFiniteSet(S), NEW b
  PROVE  \A n \in Nat : \A l \in SUBSET S : UpTo(b, l, n) => AtMost(b, l, n)
<1> DEFINE T == {n \in Nat : \A l \in SUBSET S : UpTo(b, l, n) => AtMost(b, l, n)}
<1>1. 0 \in T
  <2> SUFFICES ASSUME NEW l \in SUBSET S, UpTo(b, l, 0) PROVE AtMost(b, l, 0)
    OBVIOUS
  <2>1. IsFiniteSet(l) /\ \A q \in l : b[q] = 0
    BY FS_Subset DEF UpTo
  <2>2. SumFunctionOnSet(b, l) = 0
    BY <2>1, SumOfZeros
  <2> QED BY <2>2 DEF AtMost
<1>2. ASSUME NEW n \in T PROVE n + 1 \in T
  <2> SUFFICES ASSUME NEW l \in SUBSET S, UpTo(b, l, n + 1) PROVE AtMost(b, l, n + 1)
    OBVIOUS
  <2> DEFINE Sum(s) == SumFunctionOnSet(b, s)
  <2>1. n \in Nat /\ IsFiniteSet(l) /\ \A q \in l : b[q] \in Nat
    BY FS_Subset DEF UpTo
  <2>2. \A s \in SUBSET l : Sum(s) \in Nat
    BY <2>1, FS_Subset, SumType
  <2>3. CASE \E q \in l : b[q] = n + 1
    <3>1. PICK q \in l : b[q] = n + 1
      BY <2>3
    <3>2. Sum(l) = (n + 1) + Sum(l \ {q})
      BY <2>1, <3>1, SumAnyOrder
    <3>3. UpTo(b, l \ {q}, n)
      BY <2>1, <3>1 DEF UpTo
    <3>4. AtMost(b, l \ {q}, n)
      BY <3>3, <1>2
    <3>5. Sum(l \ {q}) \in Nat /\ Sum(l) \in Nat
      BY <2>2
    <3> DEFINE A == Sum(l \ {q})
               B == Sum(l)
               t == n * (n + 1)
               u == (n + 1) * ((n + 1) + 1)
    <3>6. u = t + 2 * (n + 1) /\ t \in Nat
      BY <2>1, NextTriangle
    <3>7. 2 * A <= t /\ (2 * A = t => \A v \in 1..n : \E r \in l \ {q} : b[r] = v)
      BY <3>4 DEF AtMost
    <3>8. 2 * B <= u /\ (2 * B = u => 2 * A = t)
      <4> HIDE DEF A, B, t, u
      <4>1. B = (n + 1) + A /\ A \in Nat /\ B \in Nat
        BY <3>2, <3>5 DEF A, B
      <4> QED BY <4>1, <3>6, <3>7, <2>1
    <3>9. ASSUME 2 * B = u, NEW v \in 1..(n+1) PROVE \E r \in l : b[r] = v
      <4>1. CASE v = n + 1
        BY <4>1, <3>1
      <4>2. CASE v \in 1..n
        BY <4>2, <3>9, <3>8, <3>7
      <4> QED BY <4>1, <4>2, <2>1
    <3> QED BY <3>8, <3>9 DEF AtMost
  <2>4. CASE \A q \in l : b[q] # n + 1
    <3>1. UpTo(b, l, n)
      BY <2>1, <2>4 DEF UpTo
    <3>2. AtMost(b, l, n)
      BY <3>1, <1>2
    <3> DEFINE B == Sum(l)
               t == n * (n + 1)
               u == (n + 1) * ((n + 1) + 1)
    <3>3. u = t + 2 * (n + 1) /\ t \in Nat /\ B \in Nat
      BY <2>1, <2>2, NextTriangle
    <3>4. 2 * B <= t
      BY <3>2 DEF AtMost
    <3>5. 2 * B <= u /\ 2 * B # u
      <4> HIDE DEF B, t, u
      <4> QED BY <3>3, <3>4, <2>1
    <3> QED BY <3>5 DEF AtMost
  <2> QED BY <2>3, <2>4
<1>3. T = Nat
  <2> HIDE DEF T
  <2>1. T \in SUBSET Nat
    BY DEF T
  <2> QED BY <1>1, <1>2, <2>1, NumberInduction
<1> QED BY <1>3

(***************************************************************************)
(* The test that only adds up.                                             *)
(***************************************************************************)

\* A column's places are Width many, so a map of all but one of them misses a number.
LEMMA OneTooFew ==
  ASSUME NEW c \in 0..Width-1, NEW D, D = (0..Width-1) \ {c}, NEW g \in [D -> Numbers]
  PROVE  \E v \in Numbers : \A d \in D : g[d] # v
<1> SUFFICES ASSUME \A v \in Numbers : \E d \in D : g[d] = v
             PROVE  FALSE
  OBVIOUS
<1>1. g \in Surjection(D, Numbers)
  BY DEF Surjection
<1>2. IsFiniteSet(0..Width-1) /\ Cardinality(0..Width-1) = Width
  BY BoxType, FS_Interval
<1>3. IsFiniteSet(D) /\ Cardinality(D) = Width - 1
  <2> DEFINE C == 0..Width-1
  <2>1. IsFiniteSet(C) /\ Cardinality(C) = Width /\ c \in C
    BY <1>2
  <2>2. D = C \ {c}
    OBVIOUS
  <2> HIDE DEF C
  <2>3. IsFiniteSet(C \ {c}) /\ Cardinality(C \ {c}) = Cardinality(C) - 1
    BY <2>1, FS_RemoveElement
  <2> QED BY <2>1, <2>2, <2>3
<1>4. Cardinality(Numbers) = Width
  BY BoxType, FS_Interval DEF Numbers
<1>5. Cardinality(Numbers) <= Cardinality(D)
  BY <1>1, <1>3, FS_Surjection
<1> QED BY <1>3, <1>4, <1>5, BoxType

\* A board without a clash whose rows add up has no empty square.
LEMMA AddedUpIsFull ==
  ASSUME NEW b \in Sheets, NoClash(b), sudokuOK(b) PROVE Full(b)
<1> SUFFICES ASSUME NEW p \in Squares, b[p] = 0 PROVE FALSE
  BY DEF Full
<1> DEFINE C == 0..Width-1
           l == {q \in Squares : q[1] = p[1]}
<1>0. Width \in Nat /\ Width >= 1 /\ p[1] \in C /\ p[2] \in C /\ p = <<p[1], p[2]>>
  BY BoxType DEF Squares
<1>1. l \in Lines
  BY <1>0 DEF Lines
<1>2. 2 * SumFunctionOnSet(b, l) = Width * (Width + 1)
  BY <1>1 DEF sudokuOK
<1>3. IsFiniteSet(l)
  <2>1. IsFiniteSet(C)
    <3>1. 0 \in Int /\ Width - 1 \in Int
      BY <1>0
    <3> QED BY <3>1, FS_Interval
  <2>2. IsFiniteSet(Squares)
    BY <2>1, FS_Product DEF Squares
  <2>3. l \in SUBSET Squares
    OBVIOUS
  <2> QED BY <2>2, <2>3, FS_Subset
<1>4. UpTo(b, l, Width)
  BY DEF UpTo, NoClash, InLine, Sheets
<1>5. \A v \in 1..Width : \E q \in l : b[q] = v
  <2>1. l \in SUBSET l
    OBVIOUS
  <2>2. AtMost(b, l, Width)
    BY <1>0, <1>3, <1>4, <2>1, SumOfNumbers
  <2> QED BY <2>2, <1>2 DEF AtMost
<1> DEFINE D == C \ {p[2]}
           g == [d \in D |-> IF b[<<p[1], d>>] = 0 THEN 1 ELSE b[<<p[1], d>>]]
<1>6. g \in [D -> Numbers]
  BY <1>0 DEF Sheets, Squares, Numbers
<1>7. PICK v \in Numbers : \A d \in D : g[d] # v
  <2>1. p[2] \in 0..Width-1 /\ D = (0..Width-1) \ {p[2]}
    BY <1>0
  <2> HIDE DEF g, D
  <2> QED BY <1>6, <2>1, OneTooFew
<1>8. PICK q \in l : b[q] = v
  BY <1>5 DEF Numbers
<1>9. v # 0 /\ q[2] \in D /\ q = <<p[1], q[2]>>
  BY <1>0, <1>8 DEF Squares, Numbers
<1> QED BY <1>7, <1>8, <1>9

\* sudoku.js 74-131, 323-326: onInput asks only whether every row, column and block adds
\* up; on a board of any size, who is congratulated has filled it without a clash.
THEOREM AddingUpIsEnough == PgSpec => []WonIsSolved
<1>1. PgInv => WonIsSolved
  BY AddedUpIsFull DEF PgInv, BoardKept, PgTypeOK, WonIsSolved
<1> QED BY PgInvariance, <1>1, PTL
===========================================================================
