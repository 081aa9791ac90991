\* Both platforms, with a port and without; clients leave at any time.
CONSTANTS
  BufferLength = 3
  MaxClients = 3
  MaxBytes = 6
SPECIFICATION FairSpec
\* Clients may stop typing for ever, and no more than MaxClients connect.
CHECK_DEADLOCK FALSE
INVARIANTS
  IInv
  LinesAreWhatWasTyped
  OverrunByLongLineOnly
  UnixStopsInLongLine
PROPERTIES
  OneTypistPerLine
  EveryLineIsHandled
  NextClientIsAwaited
