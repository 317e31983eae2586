---------------------------- MODULE SudoPuzzle ----------------------------
(***************************************************************************)
(* static/tools/sudoku/js/Sudo.js: how a finished board becomes a puzzle.  *)
(* initLayout empties cells at random; checkUnique lists the rectangles of *)
(* the board whose corners hold two digits crosswise, which could be       *)
(* swapped; regenerate fills a corner of each one that is wholly empty.    *)
(***************************************************************************)
EXTENDS Naturals

CONSTANTS
  Size, SubNum,   \* rows, and rows of a box
  Boards,         \* boards of Cells -> Digits the generator may have returned; with
                  \* fewer than all that obey the rules, UniqueSolution says less
  Blanks          \* bound: sets of Cells that initLayout empties

Digits == 1..Size
Cells  == (0..Size-1) \X (0..Size-1)

VARIABLES
  layout,    \* the finished board
  solving,   \* the puzzle, 0 where it is empty
  todo       \* the entries of isUnique that regenerate has not come to

vars == <<layout, solving, todo>>

\* An entry of isUnique is [r1, r2, c1, c2] with r1 < r2 and c1 < c2.
Rectangles == {q \in (0..Size-1) \X (0..Size-1) \X (0..Size-1) \X (0..Size-1) :
                 q[1] < q[2] /\ q[3] < q[4]}

\* Definitions named <Name>_<Bug> are the one they precede with a plausible
\* mistake; they show that a property notices.
checkUnique_SkipsNext(b) == {q \in Rectangles : /\ q[2] # q[1] + 1
                                                /\ b[q[1], q[3]] = b[q[2], q[4]]
                                                /\ b[q[1], q[4]] = b[q[2], q[3]]}

\* checkUnique's list, as a set.
checkUnique(b) == {q \in Rectangles : /\ b[q[1], q[3]] = b[q[2], q[4]]
                                      /\ b[q[1], q[4]] = b[q[2], q[3]]}

Corners(q) == {q[1], q[2]} \X {q[3], q[4]}
Empty(q) == \A c \in Corners(q) : solving[c] = 0

\* initLayout: any cell may be emptied at any level.
Init ==
  /\ layout \in Boards
  /\ \E blank \in Blanks :
       solving = [c \in Cells |-> IF c \in blank THEN 0 ELSE layout[c]]
  /\ todo = checkUnique(layout)

\* The order of checkUnique's four loops.
Precedes(p, q) == \E i \in 1..4 : p[i] < q[i] /\ \A j \in 1..i-1 : p[j] = q[j]
IsFirst(q) == q \in todo /\ \A p \in todo : p = q \/ Precedes(q, p)

\* One round of regenerate: one of the corners, at random, is given away.
Give ==
  \E q \in todo :
    /\ IsFirst(q) /\ Empty(q)
    /\ \E c \in Corners(q) : solving' = [solving EXCEPT ![c] = layout[c]]
    /\ todo' = todo \ {q}
    /\ UNCHANGED layout

Skip ==
  \E q \in todo :
    /\ IsFirst(q) /\ ~Empty(q)
    /\ todo' = todo \ {q}
    /\ UNCHANGED <<layout, solving>>

Next == Give \/ Skip

Spec == Init /\ [][Next]_vars

(***************************************************************************)
(* Properties.                                                             *)
(***************************************************************************)
\* Every variable has its type, and what a puzzle holds is its board's.
TypeOK ==
  /\ layout \in Boards /\ layout \in [Cells -> Digits]
  /\ solving \in [Cells -> 0..Size]
  /\ \A c \in Cells : solving[c] \in {0, layout[c]}
  /\ todo \subseteq checkUnique(layout)

\* A rectangle that regenerate has come to has a corner that is not empty.
SeenInv == \A q \in checkUnique(layout) \ todo : ~Empty(q)

\* A puzzle, when it is handed out, has no empty rectangle whose digits can
\* be swapped, corner by corner, into another board of the same rows and columns.
Swap(b, q) ==
  [c \in Cells |-> IF c \in Corners(q)
                   THEN b[c[1], (q[3] + q[4]) - c[2]] ELSE b[c]]
Latin(b) == \A c, d \in Cells : c # d /\ (c[1] = d[1] \/ c[2] = d[2]) => b[c] # b[d]
NoSwap == todo = {} => \A q \in Rectangles : Empty(q) => ~Latin(Swap(layout, q))

\* The puzzle handed out has only one solution: no other board has its digits.
UniqueSolution ==
  todo = {} => \A b \in Boards :
    (\A c \in Cells : solving[c] \in {0, b[c]}) => b = layout
============================================================================
