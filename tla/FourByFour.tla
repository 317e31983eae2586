---------------------------- MODULE FourByFour ----------------------------
(* Boards of four by four for TLC's runs of the two Sudoku programs.       *)
EXTENDS Integers

FourRows(r) == [c \in (0..3) \X (0..3) |-> r[c[1] + 1][c[2] + 1]]

\* every rectangle of two rows of a band can be swapped
Paired == FourRows(<<<<1, 2, 3, 4>>, <<3, 4, 1, 2>>, <<2, 1, 4, 3>>, <<4, 3, 2, 1>>>>)
\* few can; the second differs from the first in its two right columns
Twisted == FourRows(<<<<1, 2, 3, 4>>, <<3, 4, 1, 2>>, <<2, 3, 4, 1>>, <<4, 1, 2, 3>>>>)
Turned  == FourRows(<<<<1, 2, 4, 3>>, <<3, 4, 2, 1>>, <<2, 3, 1, 4>>, <<4, 1, 3, 2>>>>)

PairedAndTwisted == {Paired, Twisted}
TwistedAndTurned == {Twisted, Turned}

\* squares to be emptied, all or some of them
UpperLeft == (0..2) \X (0..2)
UpperBlanks == SUBSET UpperLeft
RightHalf == (0..3) \X {2, 3}

FourOrders == {s \in [1..4 -> 1..4] : \A i, j \in 1..4 : i # j => s[i] # s[j]}

\* Two rows of a band; from two bands every finished board that begins with
\* 1, 2, 3, 4; and, with its numbers renamed, every finished board.
FourBands == {b \in FourOrders \X FourOrders :
                \A i, j \in {1, 2} : b[1][i] # b[2][j] /\ b[1][i + 2] # b[2][j + 2]}
FourFirst == {FourRows(<<b[1][1], b[1][2], b[2][1], b[2][2]>>) :
                 b \in {d \in {e \in FourBands : e[1] = <<1, 2, 3, 4>>} \X FourBands :
                          \A i \in 1..4, r, s \in {1, 2} : d[1][r][i] # d[2][s][i]}}
FourBoards == {[c \in DOMAIN b |-> s[b[c]]] : b \in FourFirst, s \in FourOrders}

\* Some of the ways of filling a block, some of the orders of trying.
FourFills  == {[o \in (0..1) \X (0..1) |-> s[2 * o[1] + o[2] + 1]] :
                 s \in {r \in FourOrders : r[1] = 1}}
FourTrials == {s \in FourOrders : s[1] < s[2]}
============================================================================
