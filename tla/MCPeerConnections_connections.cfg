\* One peer on two connection ids that two calls use, or share: calls both
\* ways, two packets each, AP mode, pairing and revocation.
CONSTANTS
  Peer = {p1}
  NoPeer = nobody
  Conn = {0, 1}
  MaxCalls = 2
  MaxPackets = 2
  MaxToggles = 1
SPECIFICATION FairSpec
\* The bounded calls, packets and commands run out.
CHECK_DEADLOCK FALSE
INVARIANTS
  TypeOK
  OpenIsArmed
  PairedStayPaired
  PacketsInOrder
PROPERTIES
  PacketsAreHandled
