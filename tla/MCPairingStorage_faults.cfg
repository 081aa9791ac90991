\* The same calls and peers with every failure of the file system and ends inside a save.
CONSTANTS
  Peer = {p1, p2, p3, p4}
  Zero = zero
  MaxPairings = 3
  Thread = {lib, ui}
  NoThread = none
  DirectThread = {}
  Fault = {"open_fails", "short_write", "crash_in_save"}
SPECIFICATION Spec
SYMMETRY PeerSymmetry
INVARIANTS
  IInv
  AnswerIsInTable
  RevokedAreWiped
  EnumerationIsExact
