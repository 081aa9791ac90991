------------------------------- MODULE IosChat ------------------------------
(***************************************************************************)
(* The iOS client around a chat: MDGClient.connectTo and its delegate      *)
(* calls, the peer list PeerSelectionViewController, the chat views        *)
(* ChatWithPeerViewController and MessageStorage.                          *)
(*                                                                         *)
(* Two threads.  The library calls back on its own thread; what a view     *)
(* does about it is a closure queued to the main thread, which runs them   *)
(* one by one between the user's actions, on views that may be gone or     *)
(* covered by then.  MessageStorage.add runs on either thread, without a   *)
(* lock: an append reads the array and later writes it, and what the other *)
(* thread wrote in between is lost.                                        *)
(*                                                                         *)
(* A chat view is a record: the connection it was given or has got since,  *)
(* the text that waits for a connection, and the messages it shows.  A     *)
(* message is a number; born says what it is.                              *)
(***************************************************************************)
EXTENDS Naturals, Sequences, SequencesExt

CONSTANTS
  Peer,         \* the paired peers
  MaxConns,     \* bound: connections, ours and theirs
  MaxChoices,   \* bound: how often the user chooses a peer in the list
  MaxTexts,     \* bound: messages the user types
  MaxData,      \* bound: messages the peers send
  MaxEvents     \* bound: choices and messages together

ASSUME PeerAssumption == Peer # {}
ASSUME BoundAssumption ==
  /\ MaxConns \in Nat /\ MaxChoices \in Nat
  /\ MaxTexts \in Nat /\ MaxData \in Nat /\ MaxEvents \in Nat

VARIABLES
  status,             \* library: the state of each connection
  peerOf,             \* library: its peer
  waitingConnection,  \* the list's: shown as a chat when it is connected
  stack,              \* the chat views on top of the list, the visible last
  chats,              \* how many chat views there have been
  mainQueue,          \* closures for the main thread
  delegate,           \* who hears of connections and messages: a chat, 0 the list
  messages,           \* MessageStorage.messages
  adding,             \* where each thread is inside MessageStorage.add
  born,               \* history: sender, peer and chat of every message
  sends,              \* history: what was given to the library, and how
  chosen,             \* history: the peers chosen in the list
  erased,             \* history: the messages that an append overwrote
  everShown           \* history: the connections a chat was shown for

calls == <<status, peerOf>>
views == <<waitingConnection, stack, chats, everShown>>
storage == <<messages, adding, erased>>
vars == <<calls, views, mainQueue, delegate, storage, born, sends, chosen>>

Conn == 1 .. MaxConns
NoConn == 0
NoMessage == 0
Thread == {"library", "main"}
Idle == [stage |-> "idle", m |-> NoMessage, base |-> <<>>]

Init ==
  /\ status = [c \in Conn |-> "unused"]
  /\ peerOf \in [Conn -> {CHOOSE p \in Peer : TRUE}]
  /\ waitingConnection = NoConn
  /\ stack = <<>> /\ chats = 0 /\ everShown = {}
  /\ mainQueue = <<>> /\ delegate = 0
  /\ messages = <<>> /\ adding = [t \in Thread |-> Idle] /\ erased = {}
  /\ born = <<>> /\ sends = <<>> /\ chosen = <<>>

Typed == SelectSeq(born, LAMBDA b : b.sender = "Me")
Received == SelectSeq(born, LAMBDA b : b.sender = "Them")

MoreEvents == Len(chosen) + Len(Typed) + Len(Received) < MaxEvents

-----------------------------------------------------------------------------
(* The views that callbacks go to: one that appears makes itself the       *)
(* delegate of the connections, and a chat that of the storage, too.       *)
Top == Last(stack)
PositionOf(id) == {i \in 1 .. Len(stack) : stack[i].id = id}

(* routingChanged queues a closure; the ones that only log are left out.   *)
RoutingToLastView(c, kind) ==
  IF chats # 0 \/ kind = "connected"
    THEN <<[kind |-> kind, to |-> chats, conn |-> c, m |-> NoMessage]>>
    ELSE <<>>

Routing(c, kind) ==
  IF delegate # 0 \/ kind = "connected"
    THEN <<[kind |-> kind, to |-> delegate, conn |-> c, m |-> NoMessage]>>
    ELSE <<>>

(* added(message:) queues one if the message is of the chat's peer.        *)
Announcement(m, p) ==
  IF \E i \in PositionOf(delegate) : peerOf[stack[i].conn] = p
    THEN <<[kind |-> "added", to |-> delegate, conn |-> NoConn, m |-> m]>>
    ELSE <<>>

-----------------------------------------------------------------------------
(* MessageStorage.add, step by step: append reads the array and writes it, *)
(* then the delegate is told.                                              *)
AddBegins(t, m) == adding' = [adding EXCEPT ![t] = [stage |-> "read", m |-> m, base |-> <<>>]]

AddReads(t) ==
  /\ adding[t].stage = "read"
  /\ adding' = [adding EXCEPT ![t].stage = "write", ![t].base = messages]
  /\ UNCHANGED <<calls, views, mainQueue, delegate, messages, erased, born, sends, chosen>>

AddWrites(t) ==
  /\ adding[t].stage = "write"
  /\ messages' = Append(adding[t].base, adding[t].m)
  /\ erased' = erased \union (ToSet(messages) \ ToSet(adding[t].base))
  /\ adding' = [adding EXCEPT ![t].stage = "notify", ![t].base = <<>>]
  /\ UNCHANGED <<calls, views, mainQueue, delegate, born, sends, chosen>>

AddNotifies(t) ==
  /\ adding[t].stage = "notify"
  /\ mainQueue' = mainQueue \o Announcement(adding[t].m, born[adding[t].m].peer)
  /\ adding' = [adding EXCEPT ![t] = Idle]
  /\ UNCHANGED <<calls, views, delegate, messages, erased, born, sends, chosen>>

-----------------------------------------------------------------------------
(* The library.  Its calls back and calls into it exclude each other, so   *)
(* while a packet is being added no other of them happens.                 *)
NewConnection(c, p, st) ==
  /\ status[c] = "unused" /\ \A d \in 1 .. c - 1 : status[d] # "unused"
  /\ status' = [status EXCEPT ![c] = st]
  /\ peerOf' = [peerOf EXCEPT ![c] = p]

LibraryIsFree == adding["library"] = Idle

IncomingCall(c, p) ==
  /\ LibraryIsFree
  /\ NewConnection(c, p, "connected")
  /\ mainQueue' = mainQueue \o Routing(c, "connected")
  /\ UNCHANGED <<views, delegate, storage, born, sends, chosen>>

Changes(c, from, to, kind) ==
  /\ LibraryIsFree
  /\ status[c] = from
  /\ status' = [status EXCEPT ![c] = to]
  /\ mainQueue' = mainQueue \o Routing(c, kind)
  /\ UNCHANGED <<peerOf, views, delegate, storage, born, sends, chosen>>

CallConnects(c) == Changes(c, "calling", "connected", "connected")
CallNotAvailable(c) == Changes(c, "calling", "gone", "notAvailable")
Disconnects(c) == Changes(c, "connected", "gone", "disconnected")

Receive(c) ==
  /\ LibraryIsFree
  /\ status[c] = "connected"
  /\ Len(Received) < MaxData /\ MoreEvents
  /\ born' = Append(born, [sender |-> "Them", peer |-> peerOf[c], chat |-> 0])
  /\ AddBegins("library", Len(born'))
  /\ UNCHANGED <<calls, views, mainQueue, delegate, messages, erased, sends, chosen>>

-----------------------------------------------------------------------------
(* MDGClient.connectTo: a listed connection of the peer, whether connected *)
(* or not, or else a new call; placing it may throw.                       *)
Live == {c \in Conn : status[c] \in {"calling", "connected"}}
Listed(p) == {c \in Live : peerOf[c] = p}

ConnectToAnyone(p, c) ==
  IF \E q \in Peer : Listed(q) # {}
    THEN (\E q \in Peer : c \in Listed(q)) /\ UNCHANGED calls
    ELSE NewConnection(c, p, "calling")

ConnectTo(p, c) ==
  IF Listed(p) # {}
    THEN c \in Listed(p) /\ UNCHANGED calls
    ELSE NewConnection(c, p, "calling")

ConnectThrows(p) == Listed(p) = {} /\ UNCHANGED calls

(* The main thread is free when the visible view has appeared and nothing  *)
(* is being added.  It calls the library when that is free, too.           *)
MainIsFree ==
  /\ adding["main"] = Idle
  /\ IF stack = <<>> THEN delegate = 0 ELSE delegate = Top.id /\ Top.loaded

MainMayCall == MainIsFree /\ LibraryIsFree

-----------------------------------------------------------------------------
(* viewWillDisappear of the view on top drops its waiting message; then a  *)
(* new chat view is pushed, and will appear.                               *)
CoveredKeeping == stack

Covered ==
  [i \in 1 .. Len(stack) |->
    IF i = Len(stack) THEN [stack[i] EXCEPT !.waiting = NoMessage] ELSE stack[i]]

Show(c) ==
  /\ chats' = chats + 1
  /\ stack' = Append(Covered, [id |-> chats + 1, conn |-> c, waiting |-> NoMessage,
                               shown |-> {}, loaded |-> FALSE, button |-> FALSE])
  /\ everShown' = everShown \union {c}

Pop ==
  /\ stack' = IF Len(stack) = 1 THEN <<>>
              ELSE [i \in 1 .. Len(stack) - 1 |->
                     IF i = Len(stack) - 1 THEN [stack[i] EXCEPT !.loaded = FALSE]
                     ELSE stack[i]]
  /\ UNCHANGED <<waitingConnection, chats, everShown>>

ListWillAppear ==
  /\ stack = <<>> /\ delegate # 0
  /\ delegate' = 0
  /\ UNCHANGED <<calls, views, mainQueue, storage, born, sends, chosen>>

(* viewWillAppear sets the delegates, then loads the peer's messages; an   *)
(* empty chat gets the note about logging.                                 *)
ChatWillAppear ==
  /\ stack # <<>> /\ delegate # Top.id
  /\ delegate' = Top.id
  /\ UNCHANGED <<calls, views, mainQueue, storage, born, sends, chosen>>

MessagesOf(p) == {m \in ToSet(messages) : born[m].peer = p}

LoadBeforeAppearing ==
  /\ stack # <<>> /\ ~Top.loaded
  /\ LET p == peerOf[Top.conn]
     IN  /\ stack' = [stack EXCEPT ![Len(stack)].loaded = TRUE,
                                   ![Len(stack)].shown = MessagesOf(p)]
         /\ IF MessagesOf(p) = {}
              THEN /\ born' = Append(born, [sender |-> "Info", peer |-> p, chat |-> 0])
                   /\ AddBegins("main", Len(born'))
              ELSE UNCHANGED <<born, adding>>
  /\ UNCHANGED <<calls, waitingConnection, chats, everShown, mainQueue, delegate,
                 messages, erased, sends, chosen>>

LoadMessages ==
  /\ stack # <<>> /\ ~Top.loaded /\ delegate = Top.id
  /\ LET p == peerOf[Top.conn]
     IN  /\ stack' = [stack EXCEPT ![Len(stack)].loaded = TRUE,
                                   ![Len(stack)].shown = MessagesOf(p)]
         /\ IF MessagesOf(p) = {}
              THEN /\ born' = Append(born, [sender |-> "Info", peer |-> p, chat |-> 0])
                   /\ AddBegins("main", Len(born'))
              ELSE UNCHANGED <<born, adding>>
  /\ UNCHANGED <<calls, waitingConnection, chats, everShown, mainQueue, delegate,
                 messages, erased, sends, chosen>>

(* didSelectRowAt in the list.                                             *)
SelectPeer(p) ==
  /\ stack = <<>> /\ MainMayCall
  /\ Len(chosen) < MaxChoices /\ MoreEvents
  /\ chosen' = Append(chosen, p)
  /\ \/ /\ ConnectThrows(p)
        /\ waitingConnection' = NoConn
        /\ UNCHANGED <<stack, chats, everShown>>
     \/ \E c \in Conn :
          /\ ConnectTo(p, c)
          /\ IF status'[c] = "connected"
               THEN waitingConnection' = NoConn /\ Show(c)
               ELSE waitingConnection' = c /\ UNCHANGED <<stack, chats, everShown>>
  /\ UNCHANGED <<mainQueue, delegate, storage, born, sends>>

(* send(data:) of the i-th chat view.  When the library refuses, the text  *)
(* waits and the view gets another connection; unless that throws, the     *)
(* text is added to the messages like one that was sent.  A resend clears  *)
(* the waiting text afterwards, whatever has become of it.                 *)
SendWaitingFirst(i, m, resend) ==
  LET chat == stack[i]
      p == peerOf[chat.conn]
      Becomes(c, w) ==
        stack' = [stack EXCEPT ![i].conn = c,
                               ![i].waiting = IF resend THEN NoMessage ELSE w,
                               ![i].button = @ /\ ~resend]
  IN  \/ /\ status[chat.conn] = "connected"
         /\ sends' = Append(sends, [m |-> m, conn |-> chat.conn])
         /\ Becomes(chat.conn, m)
         /\ AddBegins("main", m)
         /\ UNCHANGED calls
      \/ \E c \in Conn : ConnectTo(p, c) /\ Becomes(c, m) /\ AddBegins("main", m)
                         /\ UNCHANGED sends
      \/ /\ ConnectThrows(p) /\ Becomes(chat.conn, m)
         /\ UNCHANGED <<adding, sends>>

Send(i, m, resend) ==
  LET chat == stack[i]
      p == peerOf[chat.conn]
      Becomes(c, w) ==
        stack' = [stack EXCEPT ![i].conn = c,
                               ![i].waiting = IF resend THEN NoMessage ELSE w,
                               ![i].button = @ /\ ~resend]
  IN  \/ /\ status[chat.conn] = "connected"
         /\ sends' = Append(sends, [m |-> m, conn |-> chat.conn])
         /\ Becomes(chat.conn, chat.waiting)
         /\ AddBegins("main", m)
         /\ UNCHANGED calls
      \/ \E c \in Conn : ConnectTo(p, c) /\ Becomes(c, m) /\ AddBegins("main", m)
                         /\ UNCHANGED sends
      \/ /\ ConnectThrows(p) /\ Becomes(chat.conn, m)
         /\ UNCHANGED <<adding, sends>>

(* didPressRightButton.                                                    *)
TypeMessage ==
  /\ stack # <<>> /\ MainMayCall
  /\ Len(Typed) < MaxTexts /\ MoreEvents
  /\ born' = Append(born, [sender |-> "Me", peer |-> peerOf[Top.conn], chat |-> Top.id])
  /\ Send(Len(stack), Len(born'), FALSE)
  /\ UNCHANGED <<waitingConnection, chats, everShown, mainQueue, delegate,
                 messages, erased, chosen>>

(* stateButtonPressed; the button is enabled after a disconnection.        *)
PressReconnect ==
  /\ stack # <<>> /\ MainMayCall /\ Top.button
  /\ \/ ConnectThrows(peerOf[Top.conn]) /\ UNCHANGED stack
     \/ \E c \in Conn : /\ ConnectTo(peerOf[Top.conn], c)
                        /\ stack' = [stack EXCEPT ![Len(stack)].conn = c]
  /\ UNCHANGED <<waitingConnection, chats, everShown, mainQueue, delegate,
                 storage, born, sends, chosen>>

GoBack ==
  /\ stack # <<>> /\ MainIsFree
  /\ Pop
  /\ UNCHANGED <<calls, mainQueue, delegate, storage, born, sends, chosen>>

(* applicationDidEnterBackground: MDGClient.disconnect closes them all, in *)
(* an order that is the library's.                                         *)
EntersBackground ==
  /\ MainMayCall
  /\ Live # {}
  /\ \E order \in SetToSeqs(Live) :
       mainQueue' = mainQueue \o
         [k \in 1 .. IF delegate = 0 THEN 0 ELSE Cardinality(Live) |->
           [kind |-> "disconnected", to |-> delegate, conn |-> order[k], m |-> NoMessage]]
  /\ status' = [c \in Conn |-> IF status[c] = "unused" THEN "unused" ELSE "gone"]
  /\ UNCHANGED <<peerOf, views, delegate, storage, born, sends, chosen>>

-----------------------------------------------------------------------------
(* The main thread takes the next closure.                                 *)
Takes(kind) == MainIsFree /\ mainQueue # <<>> /\ Head(mainQueue).kind = kind
Closure == Head(mainQueue)

(* The list's: the waiting connection is shown, and goes on waiting.  The  *)
(* connection it was called for is weak and may be gone.                   *)
Awaited(c) == waitingConnection # NoConn /\ peerOf[waitingConnection] = peerOf[c]

ListHearsConnected ==
  /\ Takes("connected") /\ Closure.to = 0
  /\ mainQueue' = Tail(mainQueue)
  /\ \/ Awaited(Closure.conn) /\ Show(waitingConnection)
     \/ /\ ~Awaited(Closure.conn) \/ status[Closure.conn] = "gone"
        /\ UNCHANGED <<stack, chats, everShown>>
  /\ UNCHANGED <<calls, waitingConnection, delegate, storage, born, sends, chosen>>

(* A chat view's, if it still exists and its peer is meant.                *)
Meant == {i \in PositionOf(Closure.to) : peerOf[stack[i].conn] = peerOf[Closure.conn]}

ChatHearsConnected ==
  /\ Takes("connected") /\ Closure.to # 0
  /\ mainQueue' = Tail(mainQueue)
  /\ \/ \E i \in Meant :
          /\ stack[i].waiting # NoMessage /\ LibraryIsFree
          /\ Send(i, stack[i].waiting, TRUE)
     \/ /\ \A i \in Meant : stack[i].waiting = NoMessage
        /\ stack' = [i \in 1 .. Len(stack) |->
             IF i \in Meant THEN [stack[i] EXCEPT !.button = FALSE] ELSE stack[i]]
        /\ UNCHANGED <<calls, adding, sends>>
  /\ UNCHANGED <<waitingConnection, chats, everShown, delegate, messages, erased,
                 born, chosen>>

ChatHearsDisconnected ==
  /\ Takes("disconnected")
  /\ mainQueue' = Tail(mainQueue)
  /\ stack' = [i \in 1 .. Len(stack) |->
       IF i \in Meant THEN [stack[i] EXCEPT !.button = TRUE] ELSE stack[i]]
  /\ UNCHANGED <<calls, waitingConnection, chats, everShown, delegate, storage,
                 born, sends, chosen>>

(* popViewController pops the visible view, whichever asked for it.        *)
ChatHearsNotAvailable ==
  /\ Takes("notAvailable")
  /\ mainQueue' = Tail(mainQueue)
  /\ IF Meant # {} THEN Pop ELSE UNCHANGED views
  /\ UNCHANGED <<calls, delegate, storage, born, sends, chosen>>

AddMessage ==
  /\ Takes("added")
  /\ mainQueue' = Tail(mainQueue)
  /\ stack' = [i \in 1 .. Len(stack) |->
       IF i \in PositionOf(Closure.to)
         THEN [stack[i] EXCEPT !.shown = @ \union {Closure.m}] ELSE stack[i]]
  /\ UNCHANGED <<calls, waitingConnection, chats, everShown, delegate, storage,
                 born, sends, chosen>>

-----------------------------------------------------------------------------
Adds(t) == AddReads(t) \/ AddWrites(t) \/ AddNotifies(t)

Library ==
  \/ \E c \in Conn :
       \/ \E p \in Peer : IncomingCall(c, p)
       \/ CallConnects(c) \/ CallNotAvailable(c) \/ Disconnects(c) \/ Receive(c)
  \/ Adds("library")

User ==
  \/ \E p \in Peer : SelectPeer(p)
  \/ TypeMessage \/ PressReconnect \/ GoBack \/ EntersBackground

MainThread ==
  \/ ListWillAppear \/ ChatWillAppear \/ LoadMessages \/ Adds("main")
  \/ ListHearsConnected \/ ChatHearsConnected \/ ChatHearsDisconnected
  \/ ChatHearsNotAvailable \/ AddMessage

Next == Library \/ User \/ MainThread

Spec == Init /\ [][Next]_vars

(* The main thread serves its queue, and the library's thread finishes an  *)
(* add it has begun.  Users, peers and the network promise nothing.        *)
FairSpec ==
  /\ Spec
  /\ WF_vars(MainThread)
  /\ WF_vars(Adds("library"))
-----------------------------------------------------------------------------
(* Every variable has its type; connections are used in their order, and   *)
(* only the view on top may still be appearing or hold a waiting text.     *)
TypeOK ==
  /\ status \in [Conn -> {"unused", "calling", "connected", "gone"}]
  /\ peerOf \in [Conn -> Peer]
  /\ waitingConnection \in Conn \union {NoConn}
  /\ \A i \in 1 .. Len(stack) :
       /\ stack[i].id \in 1 .. chats /\ stack[i].conn \in Conn
       /\ stack[i].shown \subseteq 1 .. Len(born)
       /\ i < Len(stack) => stack[i].loaded /\ stack[i].waiting = NoMessage
  /\ \A k \in 1 .. Len(mainQueue) :
       mainQueue[k].kind \in {"connected", "disconnected", "notAvailable", "added"}
  /\ ToSet(messages) \subseteq 1 .. Len(born)
  /\ delegate \in 0 .. chats
  /\ \A t \in Thread : adding[t].stage \in {"idle", "read", "write", "notify"}

(* A message is given to the library at most once, however often sending   *)
(* fails, the peer reconnects and the waiting text is sent again.          *)
SentAtMostOnce ==
  \A j, k \in 1 .. Len(sends) : sends[j].m = sends[k].m => j = k

(* What was typed in a chat with a peer goes to that peer only, though the *)
(* view changes its connection and a late closure may send for it.         *)
SentToItsPeer ==
  \A k \in 1 .. Len(sends) : peerOf[sends[k].conn] = born[sends[k].m].peer

(* The visible chat misses no stored message of its peer that no append    *)
(* has overwritten: it is shown, or a closure is on its way, or a thread   *)
(* is about to announce it, whichever of the two came first.               *)
NoMessageIsMissed ==
  stack # <<>> /\ Top.loaded =>
    \A m \in (MessagesOf(peerOf[Top.conn]) \ Top.shown) \ erased :
      \/ \E t \in Thread : adding[t].m = m
      \/ \E q \in ToSet(mainQueue) : q.kind = "added" /\ q.to = Top.id /\ q.m = m

(* A chat view shows messages of its peer only.                            *)
ShowsItsPeerOnly ==
  \A i \in 1 .. Len(stack) : \A m \in stack[i].shown :
    born[m].peer = peerOf[stack[i].conn]

(* Chats open with peers the user has chosen, never with one who merely    *)
(* called or reconnected.                                                  *)
ChatsAreChosen ==
  \A i \in 1 .. Len(stack) : peerOf[stack[i].conn] \in ToSet(chosen)

(* No message and no chat ends up with another peer than the user chose.   *)
PeersAreKeptApart == SentToItsPeer /\ ShowsItsPeerOnly /\ ChatsAreChosen

(* The list does not wait for ever for a connection that is connected: it  *)
(* is shown as a chat, unless it ends first or the user chooses again.     *)
ChosenChatIsShown ==
  []<>~(/\ waitingConnection # NoConn /\ status[waitingConnection] = "connected"
        /\ waitingConnection \notin everShown)

(* A message shown in an open chat as sent was sent, or waits to be.       *)
ShownIsSentOrWaits ==
  \A i \in 1 .. Len(stack) : \A m \in ToSet(messages) :
    born[m].sender = "Me" /\ born[m].chat = stack[i].id =>
      stack[i].waiting = m \/ \E k \in 1 .. Len(sends) : sends[k].m = m
=============================================================================
