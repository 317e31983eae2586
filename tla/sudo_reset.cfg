\* reset clears the screen and not what is judged.
CONSTANTS
  Cells = {c1, c2}
  Digits = {1, 2}
  Boards <- TwoBoards
  None = None
  Timers = {t1, t2, t3}
  MaxTime = 1
SPECIFICATION Spec
PROPERTY
  PraisedIsShown
