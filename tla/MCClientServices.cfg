\* Each part with several commands, starts and failures of its own.
CONSTANTS
  MaxKeys = 4
  MaxEmails = 2
  MaxCommands = 5
  MaxPasswords = 4
  MaxUpdates = 5
  MaxDescriptor = 4
  MaxHeld = 2
  TextLength = 4
  MaxPrints = 2
SPECIFICATION FairSpec
\* The bounded commands run out.
CHECK_DEADLOCK FALSE
INVARIANTS
  TypeOK
  IdentityIsKept
  EmailIsCurrent
  OpenWithPasswordAsked
  SocketsAreInOrder
PROPERTIES
  ServicesSettle
  PrintingEnds
