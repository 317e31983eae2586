--------------------------- MODULE MCSudoPuzzle ---------------------------
(* SudoPuzzle for TLC: boards of four by four.                             *)
EXTENDS SudoPuzzle, FourByFour

RightBlanks == SUBSET RightHalf
============================================================================
