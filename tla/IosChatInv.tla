---------------------------- MODULE IosChatInv ------------------------------
(***************************************************************************)
(* The inductive invariant behind the safety properties of IosChat: how    *)
(* the views, the closures that wait for the main thread, the messages     *)
(* stored, shown, waiting and sent, and the connections refer to one       *)
(* another between any two steps of the two threads.                       *)
(***************************************************************************)
EXTENDS IosChat

ChatView ==
  [id : Nat \ {0}, conn : Conn, waiting : Nat, shown : SUBSET Nat,
   loaded : BOOLEAN, button : BOOLEAN]
Kind == {"connected", "disconnected", "notAvailable", "added"}
Queued == [kind : Kind, to : Nat, conn : Conn \union {NoConn}, m : Nat]
Message == [sender : {"Me", "Them", "Info"}, peer : Peer, chat : Nat]
Add == [stage : {"idle", "read", "write", "notify"}, m : Nat, base : Seq(Nat)]
Position == 1 .. Len(stack)

(* The shape of every variable.                                            *)
Shape ==
  /\ status \in [Conn -> {"unused", "calling", "connected", "gone"}]
  /\ peerOf \in [Conn -> Peer]
  /\ waitingConnection \in Conn \union {NoConn}
  /\ stack \in Seq(ChatView)
  /\ chats \in Nat
  /\ mainQueue \in Seq(Queued)
  /\ messages \in Seq(Nat)
  /\ delegate \in Nat
  /\ adding \in [Thread -> Add]
  /\ born \in Seq(Message)
  /\ sends \in Seq([m : Nat, conn : Conn])
  /\ chosen \in Seq(Peer)

(* Whatever refers to a message refers to one there is; what a thread has  *)
(* read is stored until it writes, or was overwritten by the other.        *)
Born == 1 .. Len(born)
Closures == ToSet(mainQueue)

MessagesAreBorn ==
  /\ ToSet(messages) \subseteq Born
  /\ \A i \in Position : stack[i].shown \subseteq Born /\ stack[i].waiting \in Born \union {NoMessage}
  /\ \A q \in Closures : q.kind = "added" => q.m \in Born
  /\ \A k \in 1 .. Len(sends) : sends[k].m \in Born
  /\ erased \subseteq Born
  /\ \A t \in Thread :
       /\ adding[t].stage # "idle" => adding[t].m \in Born
       /\ adding[t].stage = "write" => ToSet(adding[t].base) \subseteq ToSet(messages) \union erased

(* Views lie upon one another in the order in which they were made, and    *)
(* only the visible one may be appearing, or hold a waiting text.  When it *)
(* has appeared it is the delegate.                                        *)
ViewsInOrder ==
  /\ \A i \in Position : stack[i].id <= chats
  /\ \A i, j \in Position : i < j => stack[i].id < stack[j].id
  /\ \A i \in Position : i < Len(stack) => stack[i].loaded /\ stack[i].waiting = NoMessage
  /\ \A q \in Closures : q.to <= chats
  /\ delegate <= chats /\ (stack # <<>> /\ Top.loaded => delegate = Top.id)

(* A connection that is referred to is in use, so its peer is fixed.       *)
InUse(c) == status[c] # "unused"

ConnectionsInUse ==
  /\ \A i \in Position : InUse(stack[i].conn)
  /\ \A k \in 1 .. Len(sends) : InUse(sends[k].conn)
  /\ waitingConnection # NoConn => InUse(waitingConnection)

(* Also what waits, and what a closure announces, is of the chat's peer,   *)
(* and the list waits for a connection with a peer that was chosen.        *)
PeerOfView(i) == peerOf[stack[i].conn]

WaitingAndQueued ==
  /\ \A i \in Position :
       stack[i].waiting # NoMessage => born[stack[i].waiting].peer = PeerOfView(i)
  /\ \A q \in Closures : q.kind = "added" =>
       \A i \in PositionOf(q.to) : born[q.m].peer = PeerOfView(i)
  /\ waitingConnection # NoConn => peerOf[waitingConnection] \in ToSet(chosen)

(* A text that waits has not been given to the library.                    *)
WaitingIsNotSent ==
  \A i \in Position : \A k \in 1 .. Len(sends) : stack[i].waiting # sends[k].m

(* The conjunction is preserved by every step.                             *)
IInv ==
  /\ Shape
  /\ MessagesAreBorn
  /\ ViewsInOrder
  /\ ConnectionsInUse
  /\ PeersAreKeptApart /\ WaitingAndQueued
  /\ SentAtMostOnce /\ WaitingIsNotSent
  /\ NoMessageIsMissed
=============================================================================
