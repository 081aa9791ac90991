\* The process ends between the fopen and the fclose of a save.
CONSTANTS
  Peer = {p1, p2}
  Zero = zero
  MaxPairings = 2
  Thread = {lib}
  NoThread = none
  DirectThread = {}
  Fault = {"crash_in_save"}
SPECIFICATION Spec
PROPERTIES
  OnlyItsOwnCall
