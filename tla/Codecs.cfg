\* Two addresses for codecs; an encoder's timestamp wraps once.
CONSTANTS
  Null = Null
  Addresses = {a1, a2}
  Lead = 2
  Rate = 3
  Unit = 4
  LongWord = 1024
  Word = 16
  MaxElapsed = 30
  MaxGap = 5
SPECIFICATION CodecsSpec
INVARIANT NothingStrays
PROPERTY StampsKeepTime
CHECK_DEADLOCK FALSE
