\* The library's calls from two threads, with its mutex, for one peer more than the
\* table has slots; restarts between saves.
CONSTANTS
  Peer = {p1, p2, p3, p4}
  Zero = zero
  MaxPairings = 3
  Thread = {lib, ui}
  NoThread = none
  DirectThread = {}
  Fault = {}
SPECIFICATION Spec
INVARIANTS
  OneRecordPerPeer
  AnswerIsDurable
  OverrunIsOnePeerTooMany
PROPERTIES
  IsPairingSet
