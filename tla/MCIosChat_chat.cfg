\* Two peers, two connections, two choices; one typed and one received message;
\* choices and messages are three together.
CONSTANTS
  Peer = {p1, p2}
  MaxConns = 2
  MaxChoices = 2
  MaxTexts = 1
  MaxData = 1
  MaxEvents = 3
SPECIFICATION FairSpec
\* The bounded calls, choices and messages run out.
CHECK_DEADLOCK FALSE
INVARIANTS
  IInv
  SentAtMostOnce
  PeersAreKeptApart
  NoMessageIsMissed
PROPERTIES
  ChosenChatIsShown
