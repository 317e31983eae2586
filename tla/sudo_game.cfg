\* The buttons, the entries and the clock of both pages, in every order.
CONSTANTS
  Cells = {c1, c2}
  Digits = {1, 2}
  Boards <- TwoBoards
  None = None
  Timers = {t1, t2, t3}
  MaxTime = 1
  Box = 2
  Answers <- TwistedAndTurned
  Holes <- FourHoles
  Levels = {1, 2}
  TimerIds = {i1, i2, i3}
  MaxCount = 1
SYMMETRY TimerSymmetry
SPECIFICATION PagesSpec
INVARIANTS
  TypeOK
  ClockSound
  ShownHasSource
  BoardKept
  WonIsSolved
  PageShowsBoard
  OneTimeout
