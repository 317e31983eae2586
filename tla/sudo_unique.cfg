\* A puzzle without a swappable rectangle can still have two solutions.
CONSTANTS
  Size = 4
  SubNum = 2
  Boards <- TwistedAndTurned
  Blanks <- RightBlanks
SPECIFICATION Spec
INVARIANT
  UniqueSolution
CHECK_DEADLOCK FALSE
