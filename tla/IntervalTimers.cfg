\* A clock of eight readings, seen through three turns; the board may be away for
\* longer than a turn.
SPECIFICATION Spec
CONSTANTS
  Wrap = 8
  Interval = 3
  MaxStep = 11
  MaxTime = 24
INVARIANTS OnTimeButAtWrap AnswerIsRecent
PROPERTIES Spaced
CHECK_DEADLOCK FALSE
