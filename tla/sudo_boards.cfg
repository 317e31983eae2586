\* Both generators and the puzzles, on boards of four by four.
CONSTANTS
  Size = 4
  SubNum = 2
  Box = 2
  Fills <- FourFills
  Orders <- FourTrials
  Finished <- FourBoards
  PzBoards <- PairedAndTwisted
  Blanks <- UpperBlanks
SPECIFICATION BdSpec
INVARIANTS
  TypeOK
  ValidSoFar
  ListsAreCurrent
  PuzzleSound
  SearchSound
  FailsRightly
PROPERTY
  SearchesEnd
\* Sudo.js is done with a full board, and with a puzzle once every rectangle is seen.
CHECK_DEADLOCK FALSE
