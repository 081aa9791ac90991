\* One peer; the user types twice and the peer comes and goes.
CONSTANTS
  Peer = {p1}
  MaxConns = 2
  MaxChoices = 1
  MaxTexts = 2
  MaxData = 0
  MaxEvents = 3
SPECIFICATION Spec
\* The bounded calls, choices and messages run out.
CHECK_DEADLOCK FALSE
INVARIANTS
  ShownIsSentOrWaits
