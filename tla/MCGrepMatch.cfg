SPECIFICATION FairSpec
CONSTANTS
  a = a
  b = b
  Chars = {a, b}
  Words <- ShortWords
  Texts <- ShortTexts
INVARIANT
  CountsRight
PROPERTY
  Ends
CHECK_DEADLOCK FALSE
