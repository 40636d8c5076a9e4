SPECIFICATION Spec
CONSTANTS
  Nil = Nil
  LastId = 3
  Statuses = {0, 1}
  Stamps = {0, 1}
  DefaultSize = 1
  MaxSize = 2
  MaxInt = 7
  Pages <- MCPages
  Sizes = {0, 2, 5}
  AskedStatuses = {Nil, 257, 2}
  MaxMoves = 2
INVARIANTS
  TypeOK
  AnswerIsPage
  NothingMissed
  NothingTwice
CHECK_DEADLOCK FALSE
