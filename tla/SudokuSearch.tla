--------------------------- MODULE SudokuSearch ---------------------------
(***************************************************************************)
(* static/tools/sudoku/js/sudoku.js, createSudoku: three blocks that share *)
(* no line are filled at random, and tryit completes the board by a        *)
(* recursive search, square by square in row order.  createGame repeats    *)
(* it until it succeeds.                                                   *)
(*                                                                         *)
(* tryit(i, j) for a filled square first leaves it as it is (144-149); if  *)
(* the rest cannot be completed it falls through into the loop that tries  *)
(* every number there (151-160), as for an empty square.                   *)
(***************************************************************************)
EXTENDS SudokuBoard

Offsets == (0..Box-1) \X (0..Box-1)

CONSTANTS
  Fills,      \* ways setBlockRandomly may fill a block
  Orders,     \* orders of trying the numbers: the array a when tryit is called
  Finished    \* finished boards, of which createSudoku must find one where it can

ASSUME FillsAssumption  == Fills \subseteq Bijection(Offsets, Numbers)
ASSUME OrdersAssumption == Orders \subseteq Bijection(Numbers, Numbers)
ASSUME FinishedAssumption ==
  Finished \subseteq {b \in [Squares -> Numbers] : NoClash(b)}

VARIABLES
  a,          \* the order of trying
  srAt,       \* the square of the innermost call, counted in row order
  srK,        \* per call under way, k + 1 of its loop, 0 before the loop
  srBack,     \* the innermost call has just got FALSE from the next one
  srResult,   \* what createSudoku returned, "none" while it runs
  srGiven     \* history: the board as it was filled at random

srVars == <<sudoku, a, srAt, srK, srBack, srResult, srGiven>>

Last     == Width * Width
SquareAt(n) == <<n \div Width, n % Width>>
here     == SquareAt(srAt)

\* The blocks 3, 5 and 7: those on the other diagonal.
Diagonal == {p \in Squares : p[1] \div Box + p[2] \div Box = Box - 1}

\* clear, then setBlockRandomly for each of them.
FilledBy(f) ==
  [p \in Squares |-> IF p \in Diagonal
                     THEN f[p[1] \div Box][<<p[1] % Box, p[2] % Box>>] ELSE 0]

SrInit ==
  /\ \E f \in [0..Box-1 -> Fills] : sudoku = FilledBy(f)
  /\ a \in Orders
  /\ srAt = 0 /\ srK = [n \in 0..Last-1 |-> 0]
  /\ srBack = FALSE /\ srResult = "none"
  /\ srGiven = sudoku

\* createGame's loop: createSudoku has failed and is called again.
CreateAgain ==
  /\ srResult = "false"
  /\ \E f \in [0..Box-1 -> Fills] : sudoku' = FilledBy(f)
  /\ a' \in Orders
  /\ srAt' = 0 /\ srK' = [n \in 0..Last-1 |-> 0]
  /\ srBack' = FALSE /\ srResult' = "none"
  /\ srGiven' = sudoku'

Trying == srResult = "none" /\ srAt < Last

\* A filled square: what it holds is tried first.
TryGiven ==
  /\ Trying /\ ~srBack /\ sudoku[here] # 0
  /\ srK' = [srK EXCEPT ![srAt] = 0]
  /\ srAt' = srAt + 1
  /\ UNCHANGED <<sudoku, a, srBack, srResult, srGiven>>

\* Definitions named <Name>_<Bug> are the one they precede with a plausible
\* mistake; they show that a property notices.
Cleared_Always == IF srBack THEN [sudoku EXCEPT ![here] = 0] ELSE sudoku

\* Line 158: the number this call has placed is taken away again.
Cleared == IF srBack /\ srK[srAt] # 0 THEN [sudoku EXCEPT ![here] = 0] ELSE sudoku

Looping == Trying /\ (srBack \/ sudoku[here] = 0)

\* The rounds of the loop that are left and whose number fits.
Fitting_NotLast ==
  {k \in 1..Width-1 : (srBack => k > srK[srAt]) /\ check(Cleared, here, a[k])}

Fitting == {k \in Numbers : (srBack => k > srK[srAt]) /\ check(Cleared, here, a[k])}

\* The next round in which the number fits.
TryNumber ==
  /\ Looping
  /\ \E k \in Fitting :
       /\ \A l \in Fitting : k <= l
       /\ sudoku' = [Cleared EXCEPT ![here] = a[k]]
       /\ srK' = [srK EXCEPT ![srAt] = k]
  /\ srAt' = srAt + 1 /\ srBack' = FALSE
  /\ UNCHANGED <<a, srResult, srGiven>>

\* No round is left: FALSE, to the call for the square before, or to createSudoku.
GiveUp ==
  /\ Looping /\ Fitting = {}
  /\ sudoku' = Cleared
  /\ IF srAt = 0
     THEN srResult' = "false" /\ UNCHANGED <<srAt, srBack>>
     ELSE srAt' = srAt - 1 /\ srBack' = TRUE /\ UNCHANGED srResult
  /\ UNCHANGED <<a, srK, srGiven>>

\* Past the last square: TRUE, through all calls.
Succeed ==
  /\ srResult = "none" /\ srAt = Last
  /\ srResult' = "true"
  /\ UNCHANGED <<sudoku, a, srAt, srK, srBack, srGiven>>

SrStep == TryGiven \/ TryNumber \/ GiveUp \/ Succeed
SrNext == SrStep \/ CreateAgain

SrSpec == SrInit /\ [][SrNext]_srVars

(***************************************************************************)
(* Properties.                                                             *)
(***************************************************************************)
SrTypeOK ==
  /\ sudoku \in Sheets /\ srGiven \in Sheets /\ a \in Orders
  /\ srAt \in 0..Last /\ srK \in [0..Last-1 -> 0..Width]
  /\ srBack \in BOOLEAN /\ srResult \in {"none", "true", "false"}

\* The random blocks are never overwritten although the search tries other
\* numbers in their squares: each block is full.
GivenKept == \A p \in Diagonal : sudoku[p] = srGiven[p] /\ srGiven[p] # 0

\* Besides the random blocks, exactly the squares the search has come past
\* are filled, in the squares it has left again nothing stays.
FilledSoFar ==
  \A n \in 0..Last-1 : SquareAt(n) \notin Diagonal =>
    (sudoku[SquareAt(n)] # 0 <=> n < srAt \/ (n = srAt /\ srBack /\ srResult = "none"))

\* At every moment of the search the board obeys the rules, the random blocks
\* are as they were filled, and nothing is left of what was tried and given up;
\* so the board createGame gets is full and valid.
SearchSound ==
  /\ SrTypeOK /\ GivenKept /\ FilledSoFar
  /\ NoClash(sudoku)
  /\ srResult = "true" => Full(sudoku)

\* b has the numbers of the random blocks where they are.
Continues(b) == \A p \in Diagonal : b[p] = srGiven[p]

\* createSudoku fails only if the blocks it filled cannot be completed: none of
\* the finished boards continues them.
FailsRightly == srResult = "false" => ~\E b \in Finished : Continues(b)

\* Every search ends, one way or the other.
SearchEnds == srResult = "none" ~> srResult # "none"
============================================================================
