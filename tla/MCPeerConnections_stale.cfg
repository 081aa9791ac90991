\* The user sends to an id while the connection behind it changes.
CONSTANTS
  Peer = {p1, p2}
  NoPeer = nobody
  Conn = {0}
  MaxCalls = 2
  MaxPackets = 0
  MaxToggles = 0
SPECIFICATION Spec
\* The bounded calls, packets and commands run out.
CHECK_DEADLOCK FALSE
INVARIANTS
  SentToTheCallMeant
