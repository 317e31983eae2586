\* The small programs of static/coding, one at a time: two readers, callers,
\* users or files each, so that any two of them meet.
CONSTANTS
  KeyFiles = {f1, f2}
  KeyLines = {1, 2}
  TmReaders = {r1, r2}
  TmDelay = 2
  CatCallers = {c1, c2}
  CatMaxCalls = 3
  RssFiles = 2
  RssMaxRuns = 2
  DaePids = 4
  SpCallers = {s1, s2}
  AdReaders = {a1, a2}
  LedUsers = {u1, u2}
  LedChars = {0, 47, 48, 57, 58, 64, 65, 70, 71, 96, 97, 102, 103, 255}
  BmpMaxWidth = 5
  BmpMaxHeight = 3
  BmpWord = 32
SPECIFICATION Spec
INVARIANTS
  CodingTypeOK
  HandedOver
  EarlyOnlyIfStale
  KeyAccounted
  OpenHears
  GoneIsQuiet
  WrapperSound
  RssSound
  DaemonSound
  SpixSound
  AdSound
  LedSound
  BmpSound
  LoadSound
PROPERTIES
  ProgramsEnd
\* The threads, the daemon and the bitmap program come to their ends.
CHECK_DEADLOCK FALSE
