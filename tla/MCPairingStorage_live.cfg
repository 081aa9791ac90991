\* Commands race with library calls.
CONSTANTS
  Peer = {p1, p2}
  Zero = zero
  MaxPairings = 2
  Thread = {lib, ui}
  NoThread = none
  DirectThread = {ui}
  Fault = {}
SPECIFICATION FairSpec
PROPERTIES
  CallReturns
