\* A command adds a peer while the library adds another.
CONSTANTS
  Peer = {p1, p2}
  Zero = zero
  MaxPairings = 3
  Thread = {lib, ui}
  NoThread = none
  DirectThread = {ui}
  Fault = {}
SPECIFICATION Spec
INVARIANTS
  ZeroIsNoPairing
