---------------------------- MODULE MCSudoGame ----------------------------
(* SudoGame for TLC: two cells, and the two boards that differ in both.    *)
EXTENDS SudoGame

TwoBoards == {b \in [Cells -> Digits] : \A c, d \in Cells : c # d => b[c] # b[d]}
============================================================================
