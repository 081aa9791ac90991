\* Short texts of all characters, longer ones of words and of digits; a key has
\* two digits, buffers are small enough to be full, the last connection id taken is
\* 11, and durations of three digits fit their parameter.
CONSTANTS
  Alphabet <- MCAlphabet
  KeyBytes = 1
  MaxDataBytes = 1
  MaxConnectionCount = 10
  DurationValues = 1000
  OtpLength = 7
  LinePiece = 4
  BlockPiece = 2
SPECIFICATION Spec
\* A text stops growing at its length.
CHECK_DEADLOCK FALSE
INVARIANTS
  ArgumentsAreWords
  KeysAreTyped
  RequestsAreComplete
  HexIsFaithful
  PasswordHasOneForm
  LineFeedsOnlyAtTheEnd
