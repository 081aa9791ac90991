---------------------------- MODULE IosChatProofs ---------------------------
(***************************************************************************)
(* Proofs about IosChat, for any peers and any number of connections,      *)
(* chats and messages: that the state is well typed, that a message is     *)
(* sent at most once and to the peer of its chat, that a chat is with a    *)
(* peer the user chose and shows messages of that peer only, and that it   *)
(* misses none that is stored.                                             *)
(*                                                                         *)
(* Connections, views, closures and texts are treated apart: a lemma each  *)
(* says what a step may do to them, and the invariant follows from these.  *)
(***************************************************************************)
EXTENDS IosChatInv, FiniteSetTheorems, SequenceTheorems, TLAPS

-----------------------------------------------------------------------------
(* Sequences as sets of their elements.                                    *)
LEMMA AppendElements ==
  ASSUME NEW S, NEW s \in Seq(S), NEW e \in S
  PROVE  Append(s, e) \in Seq(S) /\ ToSet(Append(s, e)) = ToSet(s) \union {e}
<1> DEFINE t == Append(s, e)
<1>1. /\ t \in Seq(S) /\ Len(t) = Len(s) + 1 /\ Len(s) \in Nat
      /\ \A i \in 1 .. Len(s) : t[i] = s[i]
      /\ t[Len(s) + 1] = e
  BY AppendProperties
<1>2. DOMAIN s = 1 .. Len(s) /\ DOMAIN t = 1 .. Len(s) + 1
  BY <1>1, LenProperties
<1> HIDE DEF t
<1>3. ToSet(t) \subseteq ToSet(s) \union {e}
  BY <1>1, <1>2 DEF ToSet
<1>4. ToSet(s) \subseteq ToSet(t)
  BY <1>1, <1>2 DEF ToSet
<1>5. e \in ToSet(t)
  BY <1>1, <1>2 DEF ToSet
<1> QED
  BY <1>1, <1>3, <1>4, <1>5 DEF t

LEMMA ConcatElements ==
  ASSUME NEW S, NEW s \in Seq(S), NEW t \in Seq(S)
  PROVE  s \o t \in Seq(S) /\ ToSet(s \o t) = ToSet(s) \union ToSet(t)
<1> DEFINE u == s \o t
<1>1. /\ u \in Seq(S) /\ Len(u) = Len(s) + Len(t) /\ Len(s) \in Nat /\ Len(t) \in Nat
      /\ \A i \in 1 .. Len(u) : u[i] = IF i <= Len(s) THEN s[i] ELSE t[i - Len(s)]
  BY ConcatProperties
<1>2. DOMAIN s = 1 .. Len(s) /\ DOMAIN t = 1 .. Len(t) /\ DOMAIN u = 1 .. Len(u)
  BY <1>1, LenProperties
<1> HIDE DEF u
<1>3. ASSUME NEW i \in 1 .. Len(u) PROVE u[i] \in ToSet(s) \union ToSet(t)
  <2>1. CASE i <= Len(s)
    <3>1. u[i] = s[i] /\ i \in DOMAIN s
      BY <1>1, <1>2, <2>1
    <3> QED
      BY <3>1 DEF ToSet
  <2>2. CASE ~(i <= Len(s))
    <3>1. u[i] = t[i - Len(s)] /\ i - Len(s) \in DOMAIN t
      BY <1>1, <1>2, <2>2
    <3> QED
      BY <3>1 DEF ToSet
  <2> QED
    BY <2>1, <2>2
<1>4. ASSUME NEW i \in 1 .. Len(s) PROVE s[i] \in ToSet(u)
  <2>1. u[i] = s[i] /\ i \in DOMAIN u
    BY <1>1, <1>2
  <2> QED
    BY <2>1 DEF ToSet
<1>5. ASSUME NEW i \in 1 .. Len(t) PROVE t[i] \in ToSet(u)
  <2>1. u[Len(s) + i] = t[i] /\ Len(s) + i \in DOMAIN u
    BY <1>1, <1>2
  <2> QED
    BY <2>1 DEF ToSet
<1>6. ToSet(u) = ToSet(s) \union ToSet(t)
  BY <1>2, <1>3, <1>4, <1>5 DEF ToSet
<1> QED
  BY <1>1, <1>6 DEF u

LEMMA TailElements ==
  ASSUME NEW S, NEW s \in Seq(S), s # <<>>
  PROVE  /\ Tail(s) \in Seq(S) /\ Head(s) \in S
         /\ ToSet(s) = ToSet(Tail(s)) \union {Head(s)}
<1> DEFINE t == Tail(s)
<1>1. /\ Len(s) \in Nat \ {0} /\ t \in Seq(S) /\ Len(t) = Len(s) - 1
      /\ \A i \in 1 .. Len(t) : t[i] = s[i + 1]
      /\ Head(s) \in S /\ Head(s) = s[1]
  BY EmptySeq, HeadTailProperties
<1>2. DOMAIN s = 1 .. Len(s) /\ DOMAIN t = 1 .. Len(s) - 1
  BY <1>1, LenProperties
<1> HIDE DEF t
<1>3. ASSUME NEW i \in 1 .. Len(s) PROVE s[i] \in ToSet(t) \union {Head(s)}
  <2>1. CASE i = 1
    BY <1>1, <2>1
  <2>2. CASE i # 1
    <3>1. i - 1 \in 1 .. Len(t) /\ t[i - 1] = s[i]
      BY <1>1, <2>2
    <3> QED
      BY <1>1, <1>2, <3>1 DEF ToSet
  <2> QED
    BY <2>1, <2>2
<1>4. ToSet(t) \subseteq ToSet(s) /\ Head(s) \in ToSet(s)
  <2>1. Head(s) \in ToSet(s)
    <3>1. 1 \in DOMAIN s
      BY <1>1, <1>2
    <3> QED
      BY <1>1, <3>1 DEF ToSet
  <2>2. ASSUME NEW i \in DOMAIN t PROVE t[i] \in ToSet(s)
    <3>1. i + 1 \in DOMAIN s /\ t[i] = s[i + 1]
      BY <1>1, <1>2, <2>2
    <3> QED
      BY <3>1 DEF ToSet
  <2> QED
    BY <2>1, <2>2 DEF ToSet
<1>5. ToSet(s) \subseteq ToSet(t) \union {Head(s)}
  BY <1>2, <1>3 DEF ToSet
<1> QED
  BY <1>1, <1>4, <1>5 DEF t

LEMMA ElementsOfSeq ==
  ASSUME NEW S, NEW s \in Seq(S)
  PROVE  /\ ToSet(s) \subseteq S /\ Len(s) \in Nat
         /\ \A x : x \in ToSet(s) <=> \E k \in 1 .. Len(s) : s[k] = x
<1>1. DOMAIN s = 1 .. Len(s) /\ Len(s) \in Nat /\ \A i \in 1 .. Len(s) : s[i] \in S
  BY LenProperties, ElementOfSeq
<1> QED
  BY <1>1 DEF ToSet

LEMMA NoElements == ToSet(<<>>) = {}
  BY DEF ToSet

-----------------------------------------------------------------------------
(* Connections: one that is in use keeps its peer, and is in use for ever. *)
Statuses == {"unused", "calling", "connected", "gone"}

CallsKept ==
  /\ status' \in [Conn -> Statuses] /\ peerOf' \in [Conn -> Peer]
  /\ \A c \in Conn : InUse(c) => InUse(c)' /\ peerOf'[c] = peerOf[c]

LEMMA SameCalls ==
  ASSUME Shape, UNCHANGED calls
  PROVE  CallsKept
  BY DEF Shape, calls, CallsKept, InUse, Statuses

LEMMA NewCall ==
  ASSUME Shape, NEW c \in Conn, NEW p \in Peer, NEW st \in {"calling", "connected"},
         NewConnection(c, p, st)
  PROVE  CallsKept /\ InUse(c)' /\ peerOf'[c] = p
<1>1. status[c] = "unused"
  BY DEF NewConnection
<1>2. status' = [status EXCEPT ![c] = st] /\ peerOf' = [peerOf EXCEPT ![c] = p]
  BY DEF NewConnection
<1> QED
  BY <1>1, <1>2 DEF Shape, CallsKept, InUse, Statuses

LEMMA ConnectToPeer ==
  ASSUME Shape, NEW p \in Peer, NEW c \in Conn, ConnectTo(p, c)
  PROVE  CallsKept /\ InUse(c)' /\ peerOf'[c] = p
<1>1. CASE Listed(p) # {}
  <2>1. c \in Listed(p) /\ UNCHANGED calls
    BY <1>1 DEF ConnectTo
  <2>2. InUse(c) /\ peerOf[c] = p
    BY <2>1 DEF Listed, Live, InUse
  <2> QED
    BY <2>1, <2>2, SameCalls DEF CallsKept
<1>2. CASE Listed(p) = {}
  BY <1>2, NewCall DEF ConnectTo
<1> QED
  BY <1>1, <1>2

LEMMA StatusChanged ==
  ASSUME Shape, peerOf' = peerOf, status' \in [Conn -> Statuses],
         \A c \in Conn : status[c] # "unused" => status'[c] # "unused"
  PROVE  CallsKept
  BY DEF Shape, CallsKept, InUse

(* What changes connections without regard to the views: routing, and the  *)
(* app going into the background.  The closures it queues announce no      *)
(* message and are for views there are.                                    *)
Routes ==
  \/ \E c \in Conn :
       \/ \E p \in Peer : IncomingCall(c, p)
       \/ CallConnects(c) \/ CallNotAvailable(c) \/ Disconnects(c)
  \/ EntersBackground

LEMMA DelegateIsThere ==
  ASSUME Shape, ViewsInOrder
  PROVE  /\ delegate \in Nat /\ delegate <= chats
         /\ stack # <<>> =>
              /\ Len(stack) \in Position /\ Top = stack[Len(stack)] /\ Top \in ChatView
              /\ Top.loaded => delegate = Top.id
<1>1. stack \in Seq(ChatView)
  BY DEF Shape
<1>2. ASSUME stack # <<>>
      PROVE  Len(stack) \in Position /\ Top = stack[Len(stack)] /\ Top \in ChatView
  <2>1. Len(stack) \in Nat \ {0}
    BY <1>1, <1>2, EmptySeq
  <2>2. Len(stack) \in Position
    BY <2>1 DEF Position
  <2>3. stack[Len(stack)] \in ChatView
    BY <1>1, <2>1, ElementOfSeq
  <2> QED
    BY <2>2, <2>3 DEF Top, Last
<1> QED
  BY <1>2 DEF Shape, ViewsInOrder

LEMMA RoutingQueued ==
  ASSUME Shape, ViewsInOrder, NEW c \in Conn,
         NEW kind \in {"connected", "disconnected", "notAvailable"}
  PROVE  /\ Routing(c, kind) \in Seq(Queued)
         /\ \A q \in ToSet(Routing(c, kind)) : q.kind # "added" /\ q.to <= chats
<1> DEFINE r == [kind |-> kind, to |-> delegate, conn |-> c, m |-> NoMessage]
<1>1. r \in Queued /\ r.kind # "added" /\ r.to <= chats
  BY DelegateIsThere DEF Queued, Kind, NoMessage
<1> HIDE DEF r
<1>2. <<r>> \in Seq(Queued) /\ ToSet(<<r>>) = {r}
  BY <1>1 DEF ToSet
<1>3. Routing(c, kind) \in {<<r>>, <<>>}
  BY DEF Routing, r
<1> QED
  BY <1>1, <1>2, <1>3, NoElements, EmptySeq

(* What a step adds to the queue and takes from it.                        *)
Silent(q) == q.kind # "added" /\ q.to <= chats

LEMMA RoutesQueue ==
  ASSUME Shape, ViewsInOrder, Routes
  PROVE  /\ mainQueue' \in Seq(Queued) /\ Closures \subseteq Closures'
         /\ \A q \in Closures' \ Closures : Silent(q)
<1>1. ASSUME NEW c \in Conn, NEW kind \in {"connected", "disconnected", "notAvailable"},
             mainQueue' = mainQueue \o Routing(c, kind)
      PROVE  /\ mainQueue' \in Seq(Queued) /\ Closures \subseteq Closures'
             /\ \A q \in Closures' \ Closures : Silent(q)
  <2>1. mainQueue \in Seq(Queued) /\ Routing(c, kind) \in Seq(Queued)
    BY RoutingQueued DEF Shape
  <2>2. mainQueue' \in Seq(Queued) /\ Closures' = Closures \union ToSet(Routing(c, kind))
    BY <1>1, <2>1, ConcatElements DEF Closures
  <2> QED
    BY <2>2, RoutingQueued DEF Silent
<1>2. ASSUME NEW c \in Conn, NEW p \in Peer, IncomingCall(c, p)
      PROVE  mainQueue' = mainQueue \o Routing(c, "connected")
  BY <1>2 DEF IncomingCall
<1>3. ASSUME NEW c \in Conn, CallConnects(c) \/ CallNotAvailable(c) \/ Disconnects(c)
      PROVE  \E kind \in {"connected", "disconnected", "notAvailable"} :
               mainQueue' = mainQueue \o Routing(c, kind)
  BY <1>3 DEF CallConnects, CallNotAvailable, Disconnects, Changes
<1>4. ASSUME EntersBackground
      PROVE  /\ mainQueue' \in Seq(Queued) /\ Closures \subseteq Closures'
             /\ \A q \in Closures' \ Closures : Silent(q)
  <2>1. PICK order \in SetToSeqs(Live) :
          mainQueue' = mainQueue \o
            [k \in 1 .. IF delegate = 0 THEN 0 ELSE Cardinality(Live) |->
              [kind |-> "disconnected", to |-> delegate, conn |-> order[k], m |-> NoMessage]]
    BY <1>4 DEF EntersBackground
  <2> DEFINE n == IF delegate = 0 THEN 0 ELSE Cardinality(Live)
             r(k) == [kind |-> "disconnected", to |-> delegate, conn |-> order[k], m |-> NoMessage]
             d == [k \in 1 .. n |-> r(k)]
  <2>2. Cardinality(Live) \in Nat
    <3>1. IsFiniteSet(Conn)
      BY BoundAssumption, FS_Interval DEF Conn
    <3>2. Live \subseteq Conn
      BY DEF Live
    <3> QED
      BY <3>1, <3>2, FS_Subset, FS_CardinalityType
  <2>3. \A k \in 1 .. Cardinality(Live) : order[k] \in Conn
    BY DEF SetToSeqs, Live
  <2>4. \A k \in 1 .. n : r(k) \in Queued /\ Silent(r(k))
    <3>1. \A k \in 1 .. n : order[k] \in Conn
      BY <2>2, <2>3
    <3> QED
      BY <3>1, DelegateIsThere DEF Queued, Kind, NoMessage, Silent
  <2>5. n \in Nat
    BY <2>2
  <2> HIDE DEF n, r
  <2>6. d \in Seq(Queued) /\ \A q \in ToSet(d) : Silent(q)
    BY <2>4, <2>5 DEF ToSet
  <2>7. mainQueue' = mainQueue \o d
    BY <2>1 DEF n, r
  <2> HIDE DEF d
  <2>8. mainQueue' \in Seq(Queued) /\ Closures' = Closures \union ToSet(d)
    BY <2>6, <2>7, ConcatElements DEF Closures, Shape
  <2> QED
    BY <2>6, <2>8
<1> QED
  BY <1>1, <1>2, <1>3, <1>4 DEF Routes

LEMMA RoutesCalls ==
  ASSUME Shape, Routes
  PROVE  CallsKept /\ UNCHANGED <<views, delegate, storage, born, sends, chosen>>
<1>1. ASSUME NEW c \in Conn, NEW p \in Peer, IncomingCall(c, p)
      PROVE  CallsKept /\ UNCHANGED <<views, delegate, storage, born, sends, chosen>>
  BY <1>1, NewCall DEF IncomingCall
<1>2. ASSUME NEW c \in Conn, CallConnects(c) \/ CallNotAvailable(c) \/ Disconnects(c)
      PROVE  CallsKept /\ UNCHANGED <<views, delegate, storage, born, sends, chosen>>
  <2>1. PICK to \in {"connected", "gone"} : status' = [status EXCEPT ![c] = to]
    BY <1>2 DEF CallConnects, CallNotAvailable, Disconnects, Changes
  <2>2. /\ peerOf' = peerOf
        /\ UNCHANGED <<views, delegate, storage, born, sends, chosen>>
    BY <1>2 DEF CallConnects, CallNotAvailable, Disconnects, Changes
  <2>3. status' \in [Conn -> Statuses]
    BY <2>1 DEF Shape, Statuses
  <2>4. \A x \in Conn : status[x] # "unused" => status'[x] # "unused"
    BY <2>1 DEF Shape
  <2> QED
    BY <2>2, <2>3, <2>4, StatusChanged
<1>3. ASSUME EntersBackground
      PROVE  CallsKept /\ UNCHANGED <<views, delegate, storage, born, sends, chosen>>
  <2>1. /\ status' = [c \in Conn |-> IF status[c] = "unused" THEN "unused" ELSE "gone"]
        /\ peerOf' = peerOf
        /\ UNCHANGED <<views, delegate, storage, born, sends, chosen>>
    BY <1>3 DEF EntersBackground
  <2> QED
    BY <2>1, StatusChanged DEF Statuses
<1> QED
  BY <1>1, <1>2, <1>3 DEF Routes

-----------------------------------------------------------------------------
(* Views: what the operations do to the views on the list.                 *)
LEMMA StackShape ==
  ASSUME Shape
  PROVE  /\ Len(stack) \in Nat /\ DOMAIN stack = Position
         /\ \A i \in Position :
              /\ stack[i] \in ChatView
              /\ stack[i].id \in Nat \ {0} /\ stack[i].conn \in Conn
              /\ stack[i].waiting \in Nat /\ stack[i].shown \subseteq Nat
              /\ stack[i].loaded \in BOOLEAN /\ stack[i].button \in BOOLEAN
         /\ (stack # <<>>) <=> Len(stack) \in Position
<1>1. stack \in Seq(ChatView)
  BY DEF Shape
<1>2. Len(stack) \in Nat /\ DOMAIN stack = Position /\ \A i \in Position : stack[i] \in ChatView
  BY <1>1, LenProperties, ElementOfSeq DEF Position
<1>3. (stack # <<>>) <=> Len(stack) \in Position
  BY <1>1, EmptySeq DEF Position
<1>4. \A v \in ChatView :
        /\ v.id \in Nat \ {0} /\ v.conn \in Conn /\ v.waiting \in Nat /\ v.shown \subseteq Nat
        /\ v.loaded \in BOOLEAN /\ v.button \in BOOLEAN
  BY DEF ChatView
<1> QED
  BY <1>2, <1>3, <1>4

LEMMA ViewsMapped ==
  ASSUME Shape, stack' \in [Position -> ChatView]
  PROVE  stack' \in Seq(ChatView) /\ Len(stack') = Len(stack) /\ Position' = Position
<1>1. Len(stack) \in Nat /\ Position = 1 .. Len(stack)
  BY StackShape DEF Position
<1>2. stack' \in Seq(ChatView) /\ Len(stack') = Len(stack)
  BY <1>1
<1> QED
  BY <1>1, <1>2 DEF Position

LEMMA ViewReplaced ==
  ASSUME Shape, NEW i \in Position, NEW v \in ChatView, stack' = [stack EXCEPT ![i] = v]
  PROVE  /\ stack' \in Seq(ChatView) /\ Len(stack') = Len(stack) /\ Position' = Position
         /\ stack'[i] = v /\ \A j \in Position : j # i => stack'[j] = stack[j]
<1>1. stack \in Seq(ChatView) /\ Len(stack) \in Nat /\ Position = 1 .. Len(stack)
  BY StackShape DEF Position, Shape
<1>2. /\ stack' \in Seq(ChatView) /\ Len(stack') = Len(stack)
      /\ \A j \in 1 .. Len(stack) : stack'[j] = IF j = i THEN v ELSE stack[j]
  BY <1>1, ExceptSeq
<1> QED
  BY <1>1, <1>2 DEF Position

LEMMA ShowPushes ==
  ASSUME Shape, NEW c \in Conn, Show(c)
  PROVE  /\ stack' \in Seq(ChatView) /\ Len(stack') = Len(stack) + 1
         /\ Position' = Position \union {Len(stack) + 1}
         /\ chats' = chats + 1
         /\ \A i \in Position :
              /\ stack'[i].id = stack[i].id /\ stack'[i].conn = stack[i].conn
              /\ stack'[i].shown = stack[i].shown /\ stack'[i].loaded = stack[i].loaded
              /\ stack'[i].waiting = IF i = Len(stack) THEN NoMessage ELSE stack[i].waiting
         /\ stack'[Len(stack) + 1] =
              [id |-> chats + 1, conn |-> c, waiting |-> NoMessage,
               shown |-> {}, loaded |-> FALSE, button |-> FALSE]
<1> DEFINE v == [id |-> chats + 1, conn |-> c, waiting |-> NoMessage,
                 shown |-> {}, loaded |-> FALSE, button |-> FALSE]
<1>1. stack' = Append(Covered, v) /\ chats' = chats + 1
  BY DEF Show
<1>2. v \in ChatView
  BY DEF Shape, ChatView, NoMessage
<1>3. \A i \in Position : Covered[i] =
        IF i = Len(stack) THEN [stack[i] EXCEPT !.waiting = NoMessage] ELSE stack[i]
  BY DEF Covered, Position
<1>4. ASSUME NEW i \in Position PROVE Covered[i] \in ChatView
  <2>1. stack[i] \in ChatView
    BY StackShape
  <2>2. [stack[i] EXCEPT !.waiting = NoMessage] \in ChatView
    BY <2>1 DEF ChatView, NoMessage
  <2> QED
    BY <1>3, <2>1, <2>2
<1>5. Covered \in Seq(ChatView) /\ Len(Covered) = Len(stack) /\ Len(stack) \in Nat
  BY <1>4, StackShape DEF Covered, Position
<1>6. /\ stack' \in Seq(ChatView) /\ Len(stack') = Len(stack) + 1
      /\ stack'[Len(stack) + 1] = v
      /\ \A i \in 1 .. Len(stack) : stack'[i] = Covered[i]
  BY <1>1, <1>2, <1>5, AppendProperties
<1> HIDE DEF v
<1>7. ASSUME NEW i \in Position
      PROVE  /\ stack'[i].id = stack[i].id /\ stack'[i].conn = stack[i].conn
             /\ stack'[i].shown = stack[i].shown /\ stack'[i].loaded = stack[i].loaded
             /\ stack'[i].waiting = IF i = Len(stack) THEN NoMessage ELSE stack[i].waiting
  <2>1. stack'[i] = IF i = Len(stack) THEN [stack[i] EXCEPT !.waiting = NoMessage] ELSE stack[i]
    BY <1>3, <1>6 DEF Position
  <2>2. stack[i] \in ChatView
    BY StackShape
  <2> QED
    BY <2>1, <2>2 DEF ChatView
<1>8. Position' = Position \union {Len(stack) + 1}
  BY <1>5, <1>6 DEF Position
<1> QED
  BY <1>1, <1>6, <1>7, <1>8 DEF v

LEMMA PopDrops ==
  ASSUME Shape, stack # <<>>, Pop
  PROVE  /\ stack' \in Seq(ChatView) /\ Len(stack') = Len(stack) - 1
         /\ Position' = Position \ {Len(stack)}
         /\ chats' = chats /\ waitingConnection' = waitingConnection
         /\ \A i \in Position' :
              /\ stack'[i].id = stack[i].id /\ stack'[i].conn = stack[i].conn
              /\ stack'[i].shown = stack[i].shown /\ stack'[i].waiting = stack[i].waiting
              /\ stack'[i].loaded = (stack[i].loaded /\ i # Len(stack) - 1)
<1> DEFINE f == [i \in 1 .. Len(stack) - 1 |->
                  IF i = Len(stack) - 1 THEN [stack[i] EXCEPT !.loaded = FALSE] ELSE stack[i]]
<1>1. Len(stack) \in Nat \ {0}
  BY StackShape DEF Position
<1>2. \A i \in 1 .. Len(stack) - 1 : i \in Position /\ stack[i] \in ChatView
  BY <1>1, StackShape DEF Position
<1>3. \A i \in 1 .. Len(stack) - 1 : f[i] \in ChatView
  BY <1>2 DEF ChatView
<1>4. f \in Seq(ChatView) /\ Len(f) = Len(stack) - 1
  BY <1>1, <1>3
<1>5. Len(stack) = 1 => f = <<>>
  BY <1>4, EmptySeq
<1>6. stack' = f /\ chats' = chats /\ waitingConnection' = waitingConnection
  BY <1>5 DEF Pop
<1>7. Position' = Position \ {Len(stack)}
  BY <1>1, <1>4, <1>6 DEF Position
<1>8. ASSUME NEW i \in 1 .. Len(stack) - 1
      PROVE  /\ f[i].id = stack[i].id /\ f[i].conn = stack[i].conn
             /\ f[i].shown = stack[i].shown /\ f[i].waiting = stack[i].waiting
             /\ f[i].loaded = (stack[i].loaded /\ i # Len(stack) - 1)
  BY <1>2 DEF ChatView
<1> HIDE DEF f
<1>9. Position' = 1 .. Len(stack) - 1
  BY <1>4, <1>6 DEF Position
<1> QED
  BY <1>4, <1>6, <1>7, <1>8, <1>9

-----------------------------------------------------------------------------
(* send(data:): the view keeps its peer and gets or keeps a connection to  *)
(* it; a text is given to the library or waits or is dropped, and the main *)
(* thread begins to add it to the messages or does not.                    *)
AddStarts(m) == adding' = adding \/ AddBegins("main", m)

Sent(i, m) ==
  /\ sends' = Append(sends, [m |-> m, conn |-> stack[i].conn])
  /\ stack'[i].waiting \in {stack[i].waiting, NoMessage}

Waits(i, m) == sends' = sends /\ stack'[i].waiting \in {m, NoMessage}

SameButConnAndWaiting(i) ==
  /\ stack' \in Seq(ChatView) /\ Len(stack') = Len(stack) /\ Position' = Position
  /\ \A j \in Position : j # i => stack'[j] = stack[j]
  /\ stack'[i].id = stack[i].id /\ stack'[i].shown = stack[i].shown
  /\ stack'[i].loaded = stack[i].loaded

LEMMA ViewSends ==
  ASSUME Shape, NEW i \in Position, NEW c \in Conn, NEW w \in Nat, NEW b \in BOOLEAN,
         stack' = [stack EXCEPT ![i].conn = c, ![i].waiting = w, ![i].button = b]
  PROVE  SameButConnAndWaiting(i) /\ stack'[i].conn = c /\ stack'[i].waiting = w
<1> DEFINE v == [stack[i] EXCEPT !.conn = c, !.waiting = w, !.button = b]
<1>1. stack[i] \in ChatView /\ i \in DOMAIN stack
  BY StackShape
<1>2. /\ v \in ChatView /\ v.conn = c /\ v.waiting = w
      /\ v.id = stack[i].id /\ v.shown = stack[i].shown /\ v.loaded = stack[i].loaded
  BY <1>1 DEF ChatView
<1>3. stack' = [stack EXCEPT ![i] = v]
  BY <1>1
<1> HIDE DEF v
<1> QED
  BY <1>2, <1>3, ViewReplaced DEF SameButConnAndWaiting

LEMMA SendDoes ==
  ASSUME Shape, ConnectionsInUse, NEW i \in Position, NEW m \in Nat,
         NEW resend \in BOOLEAN, Send(i, m, resend)
  PROVE  /\ CallsKept
         /\ SameButConnAndWaiting(i)
         /\ status'[stack'[i].conn] # "unused" /\ peerOf'[stack'[i].conn] = PeerOfView(i)
         /\ resend => stack'[i].waiting = NoMessage
         /\ Sent(i, m) \/ Waits(i, m)
         /\ AddStarts(m)
<1> DEFINE Becomes(c, w) ==
             stack' = [stack EXCEPT ![i].conn = c,
                                    ![i].waiting = IF resend THEN NoMessage ELSE w,
                                    ![i].button = @ /\ ~resend]
<1>0. /\ stack[i].conn \in Conn /\ InUse(stack[i].conn) /\ stack[i].waiting \in Nat
      /\ stack[i].button \in BOOLEAN /\ i \in DOMAIN stack /\ PeerOfView(i) \in Peer
  BY StackShape DEF ConnectionsInUse, PeerOfView, Shape
<1>1. ASSUME NEW c \in Conn, NEW w \in Nat, Becomes(c, w)
      PROVE  /\ SameButConnAndWaiting(i) /\ stack'[i].conn = c
             /\ stack'[i].waiting = IF resend THEN NoMessage ELSE w
  <2>1. (IF resend THEN NoMessage ELSE w) \in Nat /\ (stack[i].button /\ ~resend) \in BOOLEAN
    BY DEF NoMessage
  <2>2. stack' = [stack EXCEPT ![i].conn = c,
                               ![i].waiting = IF resend THEN NoMessage ELSE w,
                               ![i].button = stack[i].button /\ ~resend]
    BY <1>0, <1>1
  <2> QED
    BY <2>1, <2>2, ViewSends
<1>2. CASE /\ status[stack[i].conn] = "connected"
           /\ sends' = Append(sends, [m |-> m, conn |-> stack[i].conn])
           /\ Becomes(stack[i].conn, stack[i].waiting)
           /\ AddBegins("main", m)
           /\ UNCHANGED calls
  <2>1. CallsKept
    BY <1>2, SameCalls
  <2>2. /\ SameButConnAndWaiting(i) /\ stack'[i].conn = stack[i].conn
        /\ stack'[i].waiting = IF resend THEN NoMessage ELSE stack[i].waiting
    BY <1>0, <1>1, <1>2
  <2>3. Sent(i, m) /\ AddStarts(m)
    BY <1>2, <2>2 DEF Sent, AddStarts
  <2>4. resend => stack'[i].waiting = NoMessage
    BY <2>2
  <2>5. status'[stack'[i].conn] # "unused" /\ peerOf'[stack'[i].conn] = PeerOfView(i)
    BY <1>0, <2>1, <2>2 DEF CallsKept, PeerOfView, InUse
  <2> QED
    BY <2>1, <2>2, <2>3, <2>4, <2>5
<1>3. ASSUME NEW c \in Conn, ConnectTo(PeerOfView(i), c), Becomes(c, m),
             AddBegins("main", m), UNCHANGED sends
      PROVE  /\ CallsKept
             /\ SameButConnAndWaiting(i)
             /\ status'[stack'[i].conn] # "unused" /\ peerOf'[stack'[i].conn] = PeerOfView(i)
             /\ resend => stack'[i].waiting = NoMessage
             /\ Sent(i, m) \/ Waits(i, m)
             /\ AddStarts(m)
  <2>1. CallsKept /\ InUse(c)' /\ peerOf'[c] = PeerOfView(i)
    BY <1>0, <1>3, ConnectToPeer
  <2>2. /\ SameButConnAndWaiting(i) /\ stack'[i].conn = c
        /\ stack'[i].waiting = IF resend THEN NoMessage ELSE m
    BY <1>1, <1>3
  <2>3. Waits(i, m) /\ AddStarts(m)
    BY <1>3, <2>2 DEF Waits, AddStarts
  <2>4. resend => stack'[i].waiting = NoMessage
    BY <2>2
  <2>5. status'[stack'[i].conn] # "unused" /\ peerOf'[stack'[i].conn] = PeerOfView(i)
    BY <2>1, <2>2 DEF InUse
  <2> QED
    BY <2>1, <2>2, <2>3, <2>4, <2>5
<1>4. CASE /\ ConnectThrows(PeerOfView(i)) /\ Becomes(stack[i].conn, m)
           /\ UNCHANGED <<adding, sends>>
  <2>1. CallsKept
    BY <1>4, SameCalls DEF ConnectThrows
  <2>2. /\ SameButConnAndWaiting(i) /\ stack'[i].conn = stack[i].conn
        /\ stack'[i].waiting = IF resend THEN NoMessage ELSE m
    BY <1>0, <1>1, <1>4
  <2>3. Waits(i, m) /\ AddStarts(m)
    BY <1>4, <2>2 DEF Waits, AddStarts
  <2>4. resend => stack'[i].waiting = NoMessage
    BY <2>2
  <2>5. status'[stack'[i].conn] # "unused" /\ peerOf'[stack'[i].conn] = PeerOfView(i)
    BY <1>0, <2>1, <2>2 DEF CallsKept, PeerOfView, InUse
  <2> QED
    BY <2>1, <2>2, <2>3, <2>4, <2>5
<1> QED
  BY <1>2, <1>3, <1>4 DEF Send, PeerOfView

(* A chat view that hears it is connected again sends what waits in it: it *)
(* is the visible one, for a text waits in no other.                       *)
Resends(i) ==
  /\ Takes("connected") /\ i \in Meant /\ i \in Position /\ i = Len(stack)
  /\ stack[i].waiting # NoMessage
  /\ mainQueue' = Tail(mainQueue)
  /\ Send(i, stack[i].waiting, TRUE)
  /\ UNCHANGED <<waitingConnection, chats, everShown, delegate, messages, erased,
                 born, chosen>>

(* What else it does when it hears of its peer concerns the button.        *)
SwitchesButton ==
  /\ Takes("connected") \/ Takes("disconnected") \/ Takes("notAvailable")
  /\ mainQueue' = Tail(mainQueue)
  /\ stack' \in Seq(ChatView) /\ Len(stack') = Len(stack) /\ Position' = Position
  /\ \A i \in Position :
       /\ stack'[i].id = stack[i].id /\ stack'[i].conn = stack[i].conn
       /\ stack'[i].waiting = stack[i].waiting /\ stack'[i].shown = stack[i].shown
       /\ stack'[i].loaded = stack[i].loaded
  /\ UNCHANGED <<calls, waitingConnection, chats, everShown, delegate, storage,
                 born, sends, chosen>>

LEMMA ButtonSwitched ==
  ASSUME Shape, NEW I, NEW on \in BOOLEAN,
         stack' = [i \in 1 .. Len(stack) |->
                    IF i \in I THEN [stack[i] EXCEPT !.button = on] ELSE stack[i]]
  PROVE  /\ stack' \in Seq(ChatView) /\ Len(stack') = Len(stack) /\ Position' = Position
         /\ \A i \in Position :
              /\ stack'[i].id = stack[i].id /\ stack'[i].conn = stack[i].conn
              /\ stack'[i].waiting = stack[i].waiting /\ stack'[i].shown = stack[i].shown
              /\ stack'[i].loaded = stack[i].loaded
<1>1. ASSUME NEW i \in Position
      PROVE  /\ stack'[i] \in ChatView
             /\ stack'[i].id = stack[i].id /\ stack'[i].conn = stack[i].conn
             /\ stack'[i].waiting = stack[i].waiting /\ stack'[i].shown = stack[i].shown
             /\ stack'[i].loaded = stack[i].loaded
  <2>1. stack[i] \in ChatView
    BY StackShape
  <2>2. stack'[i] = IF i \in I THEN [stack[i] EXCEPT !.button = on] ELSE stack[i]
    BY DEF Position
  <2>3. CASE i \notin I
    BY <2>1, <2>2, <2>3
  <2>4. CASE i \in I
    <3> DEFINE v == [stack[i] EXCEPT !.button = on]
    <3>1. v \in ChatView
      BY <2>1 DEF ChatView
    <3>2. /\ v.id = stack[i].id /\ v.conn = stack[i].conn /\ v.waiting = stack[i].waiting
          /\ v.shown = stack[i].shown /\ v.loaded = stack[i].loaded
      BY <2>1 DEF ChatView
    <3>3. stack'[i] = v
      BY <2>2, <2>4
    <3> QED
      BY <3>1, <3>2, <3>3
  <2> QED
    BY <2>3, <2>4
<1>2. stack' \in [Position -> ChatView]
  BY <1>1 DEF Position
<1> QED
  BY <1>1, <1>2, ViewsMapped

LEMMA ChatHearsOfPeer ==
  ASSUME Shape, ViewsInOrder, ChatHearsConnected \/ ChatHearsDisconnected
  PROVE  (\E i \in Position : Resends(i)) \/ SwitchesButton
<1>0. Meant \subseteq Position
  BY DEF Meant, PositionOf, Position
<1>1. ASSUME NEW i \in Meant, ChatHearsConnected, stack[i].waiting # NoMessage,
             Send(i, stack[i].waiting, TRUE)
      PROVE  Resends(i)
  <2>1. i = Len(stack)
    <3>1. i \in 1 .. Len(stack) /\ Len(stack) \in Nat
      BY <1>0, <1>1, StackShape DEF Position
    <3>2. ~(i < Len(stack))
      BY <1>0, <1>1 DEF ViewsInOrder
    <3> QED
      BY <3>1, <3>2
  <2> QED
    BY <1>0, <1>1, <2>1 DEF ChatHearsConnected, Resends
<1>2. CASE /\ ChatHearsConnected
           /\ stack' = [i \in 1 .. Len(stack) |->
                IF i \in Meant THEN [stack[i] EXCEPT !.button = FALSE] ELSE stack[i]]
           /\ UNCHANGED <<calls, adding, sends>>
  BY <1>2, ButtonSwitched DEF ChatHearsConnected, SwitchesButton, storage
<1>3. CASE ChatHearsDisconnected
  BY <1>3, ButtonSwitched DEF ChatHearsDisconnected, SwitchesButton
<1> QED
  BY <1>0, <1>1, <1>2, <1>3 DEF ChatHearsConnected

-----------------------------------------------------------------------------
(* The steps by what they do to the views and to the queue.                *)
ListShows ==
  /\ Takes("connected") /\ mainQueue' = Tail(mainQueue)
  /\ waitingConnection # NoConn /\ Show(waitingConnection)
  /\ UNCHANGED <<calls, waitingConnection, delegate, storage, born, sends, chosen>>

Pops ==
  /\ stack # <<>> /\ Pop
  /\ \/ mainQueue' = mainQueue
     \/ Takes("notAvailable") /\ mainQueue' = Tail(mainQueue)
  /\ UNCHANGED <<calls, delegate, storage, born, sends, chosen>>

(* A view that appears becomes the delegate.                               *)
Appears ==
  /\ delegate' = IF stack = <<>> THEN 0 ELSE Top.id
  /\ UNCHANGED <<calls, views, mainQueue, storage, born, sends, chosen>>

LEMMA StepKinds ==
  ASSUME Shape, ViewsInOrder, [Next]_vars
  PROVE  \/ UNCHANGED vars \/ Routes
         \/ (\E c \in Conn : Receive(c))
         \/ (\E t \in Thread : AddReads(t) \/ AddWrites(t) \/ AddNotifies(t))
         \/ (\E p \in Peer : SelectPeer(p))
         \/ TypeMessage \/ PressReconnect \/ Appears \/ LoadMessages \/ AddMessage
         \/ (\E i \in Position : Resends(i)) \/ SwitchesButton \/ ListShows \/ Pops
<1>1. ASSUME UNCHANGED views PROVE
        /\ stack' \in Seq(ChatView) /\ Len(stack') = Len(stack) /\ Position' = Position
        /\ stack' = stack /\ UNCHANGED <<waitingConnection, chats, everShown>>
  BY <1>1 DEF views, Shape, Position
<1>2. CASE ListHearsConnected
  <2>1. CASE Awaited(Closure.conn) /\ Show(waitingConnection)
    BY <1>2, <2>1 DEF ListHearsConnected, ListShows, Awaited
  <2>2. CASE UNCHANGED <<stack, chats, everShown>>
    BY <1>1, <1>2, <2>2 DEF ListHearsConnected, SwitchesButton, views
  <2> QED
    BY <1>2, <2>1, <2>2 DEF ListHearsConnected
<1>3. CASE ChatHearsNotAvailable
  <2>1. CASE Meant # {}
    <3>1. stack # <<>>
      BY <2>1 DEF Meant, PositionOf
    <3> QED
      BY <1>3, <2>1, <3>1 DEF ChatHearsNotAvailable, Pops
  <2>2. CASE Meant = {}
    BY <1>1, <1>3, <2>2 DEF ChatHearsNotAvailable, SwitchesButton
  <2> QED
    BY <2>1, <2>2
<1>4. CASE GoBack
  BY <1>4 DEF GoBack, Pops
<1>5. CASE Library
  BY <1>5 DEF Library, Routes, Adds, Thread
<1>6. CASE User
  BY <1>4, <1>6 DEF User, Routes
<1>7. CASE MainThread
  <2>1. CASE ListWillAppear \/ ChatWillAppear
    BY <2>1 DEF ListWillAppear, ChatWillAppear, Appears
  <2>2. CASE Adds("main")
    BY <2>2 DEF Adds, Thread
  <2> QED
    BY <1>2, <1>3, <1>7, <2>1, <2>2, ChatHearsOfPeer DEF MainThread
<1> QED
  BY <1>5, <1>6, <1>7 DEF Next

LEMMA ClosureTaken ==
  ASSUME Shape, NEW kind, Takes(kind)
  PROVE  /\ Tail(mainQueue) \in Seq(Queued)
         /\ Closures = ToSet(Tail(mainQueue)) \union {Closure}
         /\ Closure \in Queued /\ Closure.kind = kind
  BY TailElements DEF Shape, Takes, Closure, Closures

(* What a step announces is for a chat and of its peer.                    *)
Announces(q) ==
  \E i \in Position :
    /\ q.kind = "added" /\ q.to = stack[i].id
    /\ q.m \in 1 .. Len(born') /\ born'[q.m].peer = PeerOfView(i)

ClosuresStay ==
  /\ mainQueue' \in Seq(Queued)
  /\ \A q \in Closures' : q \in Closures \/ Silent(q) \/ Announces(q)

LEMMA AnnouncementQueued ==
  ASSUME Shape, ViewsInOrder, NEW m \in Nat, NEW p
  PROVE  /\ Announcement(m, p) \in Seq(Queued)
         /\ \A q \in ToSet(Announcement(m, p)) :
              /\ q.kind = "added" /\ q.m = m
              /\ \E i \in Position : q.to = stack[i].id /\ PeerOfView(i) = p
         /\ stack # <<>> /\ delegate = Top.id /\ PeerOfView(Len(stack)) = p =>
              \E q \in ToSet(Announcement(m, p)) :
                q.kind = "added" /\ q.m = m /\ q.to = Top.id
<1> DEFINE r == [kind |-> "added", to |-> delegate, conn |-> NoConn, m |-> m]
           Hears == \E i \in Position : stack[i].id = delegate /\ PeerOfView(i) = p
<1>1. r \in Queued /\ r.kind = "added" /\ r.m = m /\ r.to = delegate
  BY DEF Queued, Kind, Shape
<1>2. Announcement(m, p) = IF Hears THEN <<r>> ELSE <<>>
  BY DEF Announcement, PositionOf, PeerOfView, Position
<1>3. stack # <<>> /\ delegate = Top.id /\ PeerOfView(Len(stack)) = p => Hears
  BY DelegateIsThere
<1> HIDE DEF r
<1>4. <<r>> \in Seq(Queued) /\ ToSet(<<r>>) = {r}
  BY <1>1 DEF ToSet
<1>5. CASE Hears
  BY <1>1, <1>2, <1>4, <1>5
<1>6. CASE ~Hears
  <2>1. Announcement(m, p) = <<>>
    BY <1>2, <1>6
  <2> HIDE DEF Hears
  <2> QED
    BY <1>3, <1>6, <2>1, NoElements, EmptySeq
<1> QED
  BY <1>5, <1>6

-----------------------------------------------------------------------------
(* Texts: a message, once born, is what it is.                             *)
HistoryGrows ==
  /\ born' \in Seq(Message) /\ Len(born) <= Len(born')
  /\ \A m \in Born : born'[m] = born[m]
  /\ chosen' \in Seq(Peer) /\ ToSet(chosen) \subseteq ToSet(chosen')

Bears(sender, p) ==
  \E chat \in Nat : born' = Append(born, [sender |-> sender, peer |-> p, chat |-> chat])

LEMMA MessageBorn ==
  ASSUME Shape, NEW sender \in {"Me", "Them", "Info"}, NEW p \in Peer, Bears(sender, p)
  PROVE  /\ born' \in Seq(Message) /\ Len(born') = Len(born) + 1 /\ Len(born) \in Nat
         /\ \A m \in Born : born'[m] = born[m]
         /\ born'[Len(born')].peer = p
         /\ Born' = Born \union {Len(born')} /\ Len(born') \notin Born
         /\ Len(born) <= Len(born')
<1>1. PICK chat \in Nat : born' = Append(born, [sender |-> sender, peer |-> p, chat |-> chat])
  BY DEF Bears
<1> DEFINE b == [sender |-> sender, peer |-> p, chat |-> chat]
<1>2. b \in Message /\ b.peer = p
  BY DEF Message
<1> HIDE DEF b
<1>3. /\ born' \in Seq(Message) /\ Len(born') = Len(born) + 1 /\ Len(born) \in Nat
      /\ \A m \in 1 .. Len(born) : born'[m] = born[m]
      /\ born'[Len(born) + 1] = b
  BY <1>1, <1>2, AppendProperties, ElementsOfSeq DEF Shape, b
<1>4. Born = 1 .. Len(born) /\ Born' = 1 .. Len(born')
  BY DEF Born
<1> QED
  BY <1>2, <1>3, <1>4

LEMMA TopOfStack ==
  ASSUME Shape, ViewsInOrder, stack # <<>>
  PROVE  /\ Len(stack) \in Position /\ Top = stack[Len(stack)]
         /\ PeerOfView(Len(stack)) = peerOf[Top.conn] /\ PeerOfView(Len(stack)) \in Peer
         /\ Top.id \in Nat \ {0}
<1>1. Len(stack) \in Position /\ Top = stack[Len(stack)]
  BY DelegateIsThere
<1>2. Top.conn \in Conn /\ Top.id \in Nat \ {0}
  BY <1>1, StackShape
<1> QED
  BY <1>1, <1>2 DEF PeerOfView, Shape

LEMMA TextTyped ==
  ASSUME IInv, TypeMessage
  PROVE  LET i == Len(stack)
             m == Len(born')
         IN  /\ i \in Position /\ m \in Nat /\ m \notin Born /\ Bears("Me", PeerOfView(i))
             /\ PeerOfView(i) \in Peer
             /\ CallsKept /\ SameButConnAndWaiting(i)
             /\ status'[stack'[i].conn] # "unused" /\ peerOf'[stack'[i].conn] = PeerOfView(i)
             /\ Sent(i, m) \/ Waits(i, m)
             /\ AddStarts(m) /\ adding["main"] = Idle
             /\ UNCHANGED <<waitingConnection, chats, everShown, mainQueue, delegate,
                            messages, erased, chosen>>
<1> DEFINE i == Len(stack)
           m == Len(born')
<1>1. Shape /\ ViewsInOrder /\ ConnectionsInUse
  BY DEF IInv
<1>2. i \in Position /\ PeerOfView(i) \in Peer /\ PeerOfView(i) = peerOf[Top.conn]
  BY <1>1, TopOfStack DEF TypeMessage
<1>3. Bears("Me", PeerOfView(i))
  <2>1. Top.id \in Nat
    BY <1>1, TopOfStack DEF TypeMessage
  <2> QED
    BY <1>2, <2>1 DEF TypeMessage, Bears
<1>4. m \in Nat /\ m \notin Born
  BY <1>1, <1>2, <1>3, MessageBorn
<1>5. Send(i, m, FALSE) /\ adding["main"] = Idle
  BY DEF TypeMessage, MainMayCall, MainIsFree
<1>6. /\ CallsKept /\ SameButConnAndWaiting(i)
      /\ status'[stack'[i].conn] # "unused" /\ peerOf'[stack'[i].conn] = PeerOfView(i)
      /\ Sent(i, m) \/ Waits(i, m)
      /\ AddStarts(m)
  <2> HIDE DEF i, m
  <2> QED
    BY <1>1, <1>2, <1>4, <1>5, SendDoes
<1>7. UNCHANGED <<waitingConnection, chats, everShown, mainQueue, delegate,
                  messages, erased, chosen>>
  BY DEF TypeMessage
<1> QED
  BY <1>2, <1>3, <1>4, <1>5, <1>6, <1>7

LEMMA TextResent ==
  ASSUME IInv, NEW i \in Position, Resends(i)
  PROVE  LET m == stack[i].waiting
         IN  /\ i = Len(stack) /\ m \in Born /\ born[m].peer = PeerOfView(i)
             /\ CallsKept /\ SameButConnAndWaiting(i)
             /\ status'[stack'[i].conn] # "unused" /\ peerOf'[stack'[i].conn] = PeerOfView(i)
             /\ stack'[i].waiting = NoMessage
             /\ Sent(i, m) \/ Waits(i, m)
             /\ AddStarts(m) /\ adding["main"] = Idle
             /\ mainQueue' = Tail(mainQueue) /\ Takes("connected")
             /\ UNCHANGED <<waitingConnection, chats, everShown, delegate, messages, erased,
                            born, chosen>>
<1>1. Shape /\ ViewsInOrder /\ ConnectionsInUse /\ MessagesAreBorn /\ WaitingAndQueued
  BY DEF IInv
<1>2. stack[i].waiting \in Born /\ born[stack[i].waiting].peer = PeerOfView(i)
  BY <1>1 DEF Resends, MessagesAreBorn, WaitingAndQueued
<1>3. stack[i].waiting \in Nat
  BY <1>1, StackShape
<1>4. Send(i, stack[i].waiting, TRUE) /\ adding["main"] = Idle
  BY DEF Resends, Takes, MainIsFree
<1>5. /\ CallsKept /\ SameButConnAndWaiting(i)
      /\ status'[stack'[i].conn] # "unused" /\ peerOf'[stack'[i].conn] = PeerOfView(i)
      /\ stack'[i].waiting = NoMessage
      /\ Sent(i, stack[i].waiting) \/ Waits(i, stack[i].waiting)
      /\ AddStarts(stack[i].waiting)
  BY <1>1, <1>3, <1>4, SendDoes
<1> QED
  BY <1>2, <1>4, <1>5 DEF Resends

LEMMA CallsStep ==
  ASSUME IInv, [Next]_vars
  PROVE  CallsKept
<1>0. Shape /\ ViewsInOrder
  BY DEF IInv
<1>1. CASE Routes
  BY <1>0, <1>1, RoutesCalls
<1>2. ASSUME NEW p \in Peer, SelectPeer(p) PROVE CallsKept
  <2>1. CASE ConnectThrows(p)
    BY <1>0, <2>1, SameCalls DEF ConnectThrows
  <2>2. ASSUME NEW c \in Conn, ConnectTo(p, c) PROVE CallsKept
    BY <1>0, <2>2, ConnectToPeer
  <2> QED
    BY <1>2, <2>1, <2>2 DEF SelectPeer
<1>3. CASE TypeMessage
  BY <1>3, TextTyped
<1>4. CASE PressReconnect
  <2>1. PeerOfView(Len(stack)) \in Peer /\ PeerOfView(Len(stack)) = peerOf[Top.conn]
    BY <1>0, <1>4, TopOfStack DEF PressReconnect
  <2>2. CASE ConnectThrows(peerOf[Top.conn])
    BY <1>0, <2>2, SameCalls DEF ConnectThrows
  <2>3. ASSUME NEW c \in Conn, ConnectTo(peerOf[Top.conn], c) PROVE CallsKept
    BY <1>0, <2>1, <2>3, ConnectToPeer
  <2> QED
    BY <1>4, <2>2, <2>3 DEF PressReconnect
<1>5. ASSUME NEW i \in Position, Resends(i) PROVE CallsKept
  BY <1>5, TextResent
<1>6. CASE \/ UNCHANGED vars \/ (\E c \in Conn : Receive(c))
           \/ (\E t \in Thread : AddReads(t) \/ AddWrites(t) \/ AddNotifies(t))
           \/ Appears \/ LoadMessages \/ AddMessage \/ SwitchesButton \/ ListShows \/ Pops
  <2>1. UNCHANGED calls
    BY <1>6 DEF vars, Receive, AddReads, AddWrites, AddNotifies, Appears, LoadMessages,
                AddMessage, SwitchesButton, ListShows, Pops
  <2> QED
    BY <1>0, <2>1, SameCalls
<1> QED
  BY <1>0, <1>1, <1>2, <1>3, <1>4, <1>5, <1>6, StepKinds

(* A chat that appears shows what is stored, and if there is nothing the   *)
(* main thread begins to add the note about logging.                       *)
LEMMA MessagesLoaded ==
  ASSUME Shape, ViewsInOrder, LoadMessages
  PROVE  LET i == Len(stack)
             p == PeerOfView(i)
             m == Len(born')
         IN  /\ i \in Position /\ p \in Peer /\ p = peerOf[Top.conn] /\ delegate = stack[i].id
             /\ stack' \in Seq(ChatView) /\ Len(stack') = Len(stack) /\ Position' = Position
             /\ \A j \in Position : j # i => stack'[j] = stack[j]
             /\ stack'[i].id = stack[i].id /\ stack'[i].conn = stack[i].conn
             /\ stack'[i].waiting = stack[i].waiting /\ stack'[i].shown = MessagesOf(p)
             /\ UNCHANGED <<born, adding>> \/ (Bears("Info", p) /\ AddBegins("main", m))
             /\ UNCHANGED <<calls, waitingConnection, chats, everShown, mainQueue, delegate,
                            messages, erased, sends, chosen>>
<1> DEFINE i == Len(stack)
           p == PeerOfView(i)
           m == Len(born')
<1>1. stack # <<>> /\ delegate = Top.id
  BY DEF LoadMessages
<1>2. /\ i \in Position /\ p \in Peer /\ p = peerOf[Top.conn] /\ delegate = stack[i].id
      /\ stack[i] \in ChatView /\ i \in DOMAIN stack
  BY <1>1, TopOfStack, StackShape
<1>3. /\ stack' = [stack EXCEPT ![i].loaded = TRUE, ![i].shown = MessagesOf(p)]
      /\ UNCHANGED <<born, adding>> \/ (Bears("Info", p) /\ AddBegins("main", m))
  BY <1>2 DEF LoadMessages, Bears
<1>4. UNCHANGED <<calls, waitingConnection, chats, everShown, mainQueue, delegate,
                  messages, erased, sends, chosen>>
  BY DEF LoadMessages
<1>5. MessagesOf(p) \subseteq Nat
  BY ElementsOfSeq DEF MessagesOf, Shape
<1> HIDE DEF i, p, m
<1>6. /\ stack' \in Seq(ChatView) /\ Len(stack') = Len(stack) /\ Position' = Position
      /\ \A j \in Position : j # i => stack'[j] = stack[j]
      /\ stack'[i].id = stack[i].id /\ stack'[i].conn = stack[i].conn
      /\ stack'[i].waiting = stack[i].waiting /\ stack'[i].shown = MessagesOf(p)
  <2> DEFINE v == [stack[i] EXCEPT !.loaded = TRUE, !.shown = MessagesOf(p)]
  <2>1. /\ v \in ChatView /\ v.id = stack[i].id /\ v.conn = stack[i].conn
        /\ v.waiting = stack[i].waiting /\ v.shown = MessagesOf(p)
    BY <1>2, <1>5 DEF ChatView
  <2>2. stack' = [stack EXCEPT ![i] = v]
    BY <1>2, <1>3
  <2> HIDE DEF v
  <2> QED
    BY <1>2, <2>1, <2>2, ViewReplaced
<1> QED
  BY <1>2, <1>3, <1>4, <1>6 DEF i, p, m

LEMMA HistoryStep ==
  ASSUME IInv, [Next]_vars
  PROVE  HistoryGrows
<1>0. Shape /\ ViewsInOrder
  BY DEF IInv
<1>1. born \in Seq(Message) /\ Len(born) \in Nat /\ chosen \in Seq(Peer)
  BY <1>0, ElementsOfSeq DEF Shape
<1>2. ASSUME NEW sender \in {"Me", "Them", "Info"}, NEW p \in Peer, Bears(sender, p),
             chosen' = chosen
      PROVE  HistoryGrows
  BY <1>0, <1>1, <1>2, MessageBorn DEF HistoryGrows
<1>3. ASSUME UNCHANGED <<born, chosen>> PROVE HistoryGrows
  BY <1>1, <1>3 DEF HistoryGrows
<1>4. ASSUME NEW c \in Conn, Receive(c) PROVE HistoryGrows
  <2>1. peerOf[c] \in Peer /\ Bears("Them", peerOf[c]) /\ chosen' = chosen
    BY <1>0, <1>4 DEF Receive, Bears, Shape
  <2> QED
    BY <1>2, <2>1
<1>5. ASSUME NEW p \in Peer, SelectPeer(p) PROVE HistoryGrows
  <2>1. born' = born /\ chosen' = Append(chosen, p)
    BY <1>5 DEF SelectPeer
  <2>2. chosen' \in Seq(Peer) /\ ToSet(chosen) \subseteq ToSet(chosen')
    BY <1>1, <2>1, AppendElements
  <2> QED
    BY <1>1, <2>1, <2>2 DEF HistoryGrows
<1>6. CASE TypeMessage
  BY <1>2, <1>6, TextTyped
<1>7. CASE LoadMessages
  BY <1>0, <1>2, <1>3, <1>7, MessagesLoaded
<1>8. ASSUME NEW i \in Position, Resends(i) PROVE HistoryGrows
  BY <1>3, <1>8, TextResent
<1>9. CASE Routes
  BY <1>0, <1>3, <1>9, RoutesCalls
<1>10. CASE \/ UNCHANGED vars
            \/ (\E t \in Thread : AddReads(t) \/ AddWrites(t) \/ AddNotifies(t))
            \/ PressReconnect \/ Appears \/ AddMessage \/ SwitchesButton \/ ListShows \/ Pops
  <2>1. UNCHANGED <<born, chosen>>
    BY <1>10 DEF vars, AddReads, AddWrites, AddNotifies, PressReconnect, Appears, AddMessage,
                 SwitchesButton, ListShows, Pops
  <2> QED
    BY <1>3, <2>1
<1> QED
  BY <1>0, <1>4, <1>5, <1>6, <1>7, <1>8, <1>9, <1>10, StepKinds

LEMMA ClosuresStep ==
  ASSUME IInv, [Next]_vars
  PROVE  ClosuresStay
<1>0. Shape /\ ViewsInOrder /\ MessagesAreBorn /\ mainQueue \in Seq(Queued)
  BY DEF IInv, Shape
<1>1. CASE mainQueue' = mainQueue
  BY <1>0, <1>1 DEF ClosuresStay, Closures
<1>2. ASSUME NEW kind, Takes(kind), mainQueue' = Tail(mainQueue) PROVE ClosuresStay
  BY <1>0, <1>2, ClosureTaken DEF ClosuresStay, Closures
<1>3. CASE Routes
  BY <1>0, <1>3, RoutesQueue DEF ClosuresStay
<1>4. ASSUME NEW i \in Position, Resends(i) PROVE ClosuresStay
  BY <1>2, <1>4 DEF Resends
<1>5. ASSUME NEW t \in Thread, AddNotifies(t) PROVE ClosuresStay
  <2> DEFINE m == adding[t].m
             a == Announcement(m, born[m].peer)
  <2>1. mainQueue' = mainQueue \o a /\ born' = born /\ m \in Nat /\ m \in 1 .. Len(born)
    BY <1>0, <1>5 DEF AddNotifies, Shape, Add, MessagesAreBorn, Born
  <2>2. /\ a \in Seq(Queued)
        /\ \A q \in ToSet(a) :
             /\ q.kind = "added" /\ q.m = m
             /\ \E i \in Position : q.to = stack[i].id /\ PeerOfView(i) = born[m].peer
    BY <1>0, <2>1, AnnouncementQueued
  <2> HIDE DEF m, a
  <2>3. mainQueue' \in Seq(Queued) /\ Closures' = Closures \union ToSet(a)
    BY <1>0, <2>1, <2>2, ConcatElements DEF Closures
  <2> QED
    BY <2>1, <2>2, <2>3 DEF ClosuresStay, Announces
<1>6. CASE \/ UNCHANGED vars \/ (\E c \in Conn : Receive(c))
           \/ (\E t \in Thread : AddReads(t) \/ AddWrites(t))
           \/ (\E p \in Peer : SelectPeer(p))
           \/ TypeMessage \/ PressReconnect \/ Appears \/ LoadMessages
  <2>1. mainQueue' = mainQueue
    BY <1>6 DEF vars, Receive, AddReads, AddWrites, SelectPeer, TypeMessage, PressReconnect,
                Appears, LoadMessages
  <2> QED
    BY <1>1, <2>1
<1>7. CASE AddMessage \/ SwitchesButton \/ ListShows \/ Pops
  BY <1>1, <1>2, <1>7 DEF AddMessage, SwitchesButton, ListShows, Pops
<1> QED
  BY <1>0, <1>3, <1>4, <1>5, <1>6, <1>7, StepKinds

-----------------------------------------------------------------------------
(* A view keeps its peer through a step, though not its connection, shows  *)
(* messages of that peer, and comes to hold no waiting text but a new one. *)
OfView(i) == {m \in Born : born[m].peer = PeerOfView(i)}

FreshText(i) ==
  /\ stack'[i].waiting \in 1 .. Len(born') /\ stack'[i].waiting \notin Born
  /\ born'[stack'[i].waiting].peer = PeerOfView(i) /\ sends' = sends

OldView(i) ==
  /\ i \in Position /\ stack'[i].id = stack[i].id
  /\ status'[stack'[i].conn] # "unused" /\ peerOf'[stack'[i].conn] = PeerOfView(i)
  /\ stack'[i].shown \subseteq OfView(i)
  /\ stack'[i].waiting \in {stack[i].waiting, NoMessage} \/ FreshText(i)

NewView(i) ==
  /\ i = Len(stack) + 1 /\ chats' = chats + 1 /\ stack'[i].id = chats'
  /\ status'[stack'[i].conn] # "unused" /\ peerOf'[stack'[i].conn] \in ToSet(chosen')
  /\ stack'[i].shown = {} /\ stack'[i].waiting = NoMessage

BelowIsSettled ==
  \A i \in Position' : i < Len(stack') => stack'[i].loaded /\ stack'[i].waiting = NoMessage

ViewsStay ==
  /\ stack' \in Seq(ChatView) /\ chats' \in Nat /\ chats <= chats'
  /\ \A i \in Position' : OldView(i) \/ NewView(i)
  /\ BelowIsSettled

LEMMA ViewStays ==
  ASSUME IInv, CallsKept, NEW i \in Position,
         stack'[i].id = stack[i].id, stack'[i].conn = stack[i].conn,
         stack'[i].shown \subseteq OfView(i) \/ stack'[i].shown = stack[i].shown,
         stack'[i].waiting \in {stack[i].waiting, NoMessage}
  PROVE  OldView(i)
<1>1. Shape /\ ConnectionsInUse /\ MessagesAreBorn /\ ShowsItsPeerOnly
  BY DEF IInv, PeersAreKeptApart
<1>2. stack[i].conn \in Conn /\ InUse(stack[i].conn)
  BY <1>1, StackShape DEF ConnectionsInUse
<1>3. status'[stack'[i].conn] # "unused" /\ peerOf'[stack'[i].conn] = PeerOfView(i)
  BY <1>2 DEF CallsKept, PeerOfView, InUse
<1>4. stack[i].shown \subseteq OfView(i)
  BY <1>1 DEF MessagesAreBorn, ShowsItsPeerOnly, OfView, PeerOfView, Position
<1> QED
  BY <1>3, <1>4 DEF OldView

(* The views are the same ones, and the upper ones at most were changed.   *)
LEMMA ViewsKept ==
  ASSUME IInv, stack' \in Seq(ChatView), Len(stack') = Len(stack), Position' = Position,
         chats' = chats, \A i \in Position : OldView(i),
         \A i \in Position : i < Len(stack) =>
           stack'[i].loaded = stack[i].loaded
           /\ stack'[i].waiting \in {stack[i].waiting, NoMessage}
  PROVE  ViewsStay
<1>1. Shape /\ ViewsInOrder
  BY DEF IInv
<1>2. chats \in Nat /\ Len(stack) \in Nat
  BY <1>1, StackShape DEF Shape
<1>3. BelowIsSettled
  BY <1>1 DEF BelowIsSettled, ViewsInOrder
<1> QED
  BY <1>2, <1>3 DEF ViewsStay

LEMMA ViewsUntouched ==
  ASSUME IInv, CallsKept, chats' = chats,
         stack' \in Seq(ChatView), Len(stack') = Len(stack), Position' = Position,
         \A i \in Position :
           /\ stack'[i].id = stack[i].id /\ stack'[i].conn = stack[i].conn
           /\ stack'[i].waiting = stack[i].waiting /\ stack'[i].loaded = stack[i].loaded
           /\ stack'[i].shown = stack[i].shown \/ stack'[i].shown \subseteq OfView(i)
  PROVE  ViewsStay
  BY ViewStays, ViewsKept

(* A view whose connection and waiting text have changed.                  *)
LEMMA ViewReconnected ==
  ASSUME IInv, CallsKept, chats' = chats, NEW i \in Position, i = Len(stack),
         SameButConnAndWaiting(i),
         status'[stack'[i].conn] # "unused", peerOf'[stack'[i].conn] = PeerOfView(i),
         stack'[i].waiting \in {stack[i].waiting, NoMessage} \/ FreshText(i)
  PROVE  ViewsStay
<1>1. \A j \in Position : j # i => OldView(j)
  BY ViewStays DEF SameButConnAndWaiting
<1>2. stack[i].shown \subseteq OfView(i)
  BY DEF IInv, MessagesAreBorn, PeersAreKeptApart, ShowsItsPeerOnly, OfView, PeerOfView, Position
<1>3. OldView(i)
  BY <1>2 DEF OldView, SameButConnAndWaiting
<1>4. Len(stack) \in Nat
  BY StackShape DEF IInv
<1> QED
  BY <1>1, <1>3, <1>4, ViewsKept DEF SameButConnAndWaiting

(* A chat is shown: with a connection in use, to a peer that was chosen.   *)
LEMMA ViewShown ==
  ASSUME IInv, CallsKept, NEW c \in Conn, Show(c), MainIsFree,
         status'[c] # "unused", peerOf'[c] \in ToSet(chosen')
  PROVE  ViewsStay
<1>1. Shape /\ ViewsInOrder /\ chats \in Nat /\ Len(stack) \in Nat
  BY StackShape DEF IInv, Shape
<1> DEFINE n == Len(stack) + 1
<1>2. /\ stack' \in Seq(ChatView) /\ Len(stack') = n
      /\ Position' = Position \union {n} /\ chats' = chats + 1
      /\ \A i \in Position :
           /\ stack'[i].id = stack[i].id /\ stack'[i].conn = stack[i].conn
           /\ stack'[i].shown = stack[i].shown /\ stack'[i].loaded = stack[i].loaded
           /\ stack'[i].waiting = IF i = Len(stack) THEN NoMessage ELSE stack[i].waiting
  BY <1>1, ShowPushes
<1>3. stack'[n] = [id |-> chats + 1, conn |-> c, waiting |-> NoMessage,
                   shown |-> {}, loaded |-> FALSE, button |-> FALSE]
  BY <1>1, ShowPushes
<1>4. NewView(n)
  BY <1>2, <1>3 DEF NewView
<1>5. \A i \in Position : OldView(i)
  BY <1>2, ViewStays
<1>6. ASSUME NEW i \in Position PROVE stack'[i].loaded /\ stack'[i].waiting = NoMessage
  <2>1. CASE i = Len(stack)
    <3>1. stack[i].loaded
      BY <1>1, <2>1, DelegateIsThere, StackShape DEF MainIsFree
    <3> QED
      BY <1>2, <2>1, <3>1
  <2>2. CASE i # Len(stack)
    <3>1. i < Len(stack)
      BY <1>1, <2>2 DEF Position
    <3> QED
      BY <1>1, <1>2, <2>2, <3>1 DEF ViewsInOrder
  <2> QED
    BY <2>1, <2>2
<1>7. BelowIsSettled
  BY <1>1, <1>2, <1>6 DEF BelowIsSettled
<1> QED
  BY <1>1, <1>2, <1>4, <1>5, <1>7 DEF ViewsStay

LEMMA ViewPopped ==
  ASSUME IInv, CallsKept, stack # <<>>, Pop
  PROVE  ViewsStay
<1>1. Shape /\ ViewsInOrder /\ chats \in Nat /\ Len(stack) \in Nat
  BY StackShape DEF IInv, Shape
<1>2. /\ stack' \in Seq(ChatView) /\ Len(stack') = Len(stack) - 1
      /\ Position' = Position \ {Len(stack)} /\ chats' = chats
      /\ \A i \in Position' :
           /\ stack'[i].id = stack[i].id /\ stack'[i].conn = stack[i].conn
           /\ stack'[i].shown = stack[i].shown /\ stack'[i].waiting = stack[i].waiting
           /\ stack'[i].loaded = (stack[i].loaded /\ i # Len(stack) - 1)
  BY <1>1, PopDrops
<1>3. \A i \in Position' : OldView(i)
  BY <1>2, ViewStays
<1>4. ASSUME NEW i \in Position', i < Len(stack')
      PROVE  stack'[i].loaded /\ stack'[i].waiting = NoMessage
  <2>1. i \in Position /\ i < Len(stack) /\ i # Len(stack) - 1
    BY <1>1, <1>2, <1>4 DEF Position
  <2> QED
    BY <1>1, <1>2, <2>1 DEF ViewsInOrder
<1> QED
  BY <1>1, <1>2, <1>3, <1>4 DEF ViewsStay, BelowIsSettled

(* AddMessage shows the closure's message in the chat it was queued for.   *)
LEMMA MessageAdded ==
  ASSUME IInv, AddMessage
  PROVE  /\ stack' \in Seq(ChatView) /\ Len(stack') = Len(stack) /\ Position' = Position
         /\ \A i \in Position :
              /\ stack'[i].id = stack[i].id /\ stack'[i].conn = stack[i].conn
              /\ stack'[i].waiting = stack[i].waiting /\ stack'[i].loaded = stack[i].loaded
              /\ stack'[i].shown \subseteq OfView(i)
              /\ stack[i].shown \subseteq stack'[i].shown
              /\ stack[i].id = Closure.to => Closure.m \in stack'[i].shown
         /\ UNCHANGED <<calls, waitingConnection, chats, everShown, delegate, storage,
                        born, sends, chosen>>
         /\ Closures = Closures' \union {Closure} /\ Closure.kind = "added"
<1>1. /\ Shape /\ MessagesAreBorn /\ ShowsItsPeerOnly /\ WaitingAndQueued
      /\ Takes("added") /\ mainQueue' = Tail(mainQueue)
  BY DEF IInv, PeersAreKeptApart, AddMessage
<1>2. Closures = Closures' \union {Closure} /\ Closure \in Queued /\ Closure.kind = "added"
  BY <1>1, ClosureTaken DEF Closures
<1>3. Closure.m \in Nat /\ Closure.m \in Born
  BY <1>1, <1>2 DEF Queued, MessagesAreBorn
<1> DEFINE m == Closure.m
           I == PositionOf(Closure.to)
<1>4. \A i \in Position : i \in I <=> stack[i].id = Closure.to
  BY DEF PositionOf, Position
<1>5. \A i \in I : born[m].peer = PeerOfView(i)
  BY <1>1, <1>2 DEF WaitingAndQueued
<1>6. stack' = [i \in Position |->
        IF i \in I THEN [stack[i] EXCEPT !.shown = @ \union {m}] ELSE stack[i]]
  BY DEF AddMessage, Position
<1> HIDE DEF m, I
<1>7. ASSUME NEW i \in Position
      PROVE  /\ stack'[i] \in ChatView
             /\ stack'[i].id = stack[i].id /\ stack'[i].conn = stack[i].conn
             /\ stack'[i].waiting = stack[i].waiting /\ stack'[i].loaded = stack[i].loaded
             /\ stack'[i].shown = IF i \in I THEN stack[i].shown \union {m} ELSE stack[i].shown
  <2>1. stack[i] \in ChatView /\ m \in Nat
    BY <1>1, <1>3, StackShape DEF m
  <2>2. CASE i \notin I
    BY <1>6, <2>1, <2>2
  <2>3. CASE i \in I
    <3> DEFINE v == [stack[i] EXCEPT !.shown = stack[i].shown \union {m}]
    <3>1. /\ v \in ChatView /\ v.id = stack[i].id /\ v.conn = stack[i].conn
          /\ v.waiting = stack[i].waiting /\ v.loaded = stack[i].loaded
          /\ v.shown = stack[i].shown \union {m}
      BY <2>1 DEF ChatView
    <3>2. stack'[i] = v
      BY <1>6, <2>3
    <3> HIDE DEF v
    <3> QED
      BY <2>3, <3>1, <3>2
  <2> QED
    BY <2>2, <2>3
<1>8. \A i \in Position : stack[i].shown \subseteq OfView(i)
  BY <1>1 DEF MessagesAreBorn, ShowsItsPeerOnly, OfView, PeerOfView, Position
<1>9. \A i \in Position : i \in I => m \in OfView(i)
  BY <1>3, <1>5 DEF OfView, m
<1>10. stack' \in [Position -> ChatView]
  BY <1>6, <1>7
<1>11. UNCHANGED <<calls, waitingConnection, chats, everShown, delegate, storage,
                   born, sends, chosen>>
  BY DEF AddMessage
<1>12. stack' \in Seq(ChatView) /\ Len(stack') = Len(stack) /\ Position' = Position
  BY <1>1, <1>10, ViewsMapped
<1>13. ASSUME NEW i \in Position
       PROVE  /\ stack'[i].shown \subseteq OfView(i)
              /\ stack[i].shown \subseteq stack'[i].shown
              /\ stack[i].id = Closure.to => m \in stack'[i].shown
  BY <1>4, <1>7, <1>8, <1>9
<1> QED
  BY <1>2, <1>7, <1>11, <1>12, <1>13 DEF m

LEMMA ReconnectPressed ==
  ASSUME IInv, PressReconnect
  PROVE  LET i == Len(stack)
         IN  /\ i \in Position /\ SameButConnAndWaiting(i)
             /\ status'[stack'[i].conn] # "unused" /\ peerOf'[stack'[i].conn] = PeerOfView(i)
             /\ stack'[i].waiting = stack[i].waiting
             /\ UNCHANGED <<waitingConnection, chats, everShown, mainQueue, delegate,
                            storage, born, sends, chosen>>
<1> DEFINE i == Len(stack)
<1>1. Shape /\ ViewsInOrder /\ ConnectionsInUse /\ CallsKept
  BY CallsStep DEF IInv, Next, User
<1>2. i \in Position /\ PeerOfView(i) \in Peer /\ PeerOfView(i) = peerOf[Top.conn]
  BY <1>1, TopOfStack DEF PressReconnect
<1>3. /\ UNCHANGED <<waitingConnection, chats, everShown, mainQueue, delegate,
                     storage, born, sends, chosen>>
      /\ \/ UNCHANGED stack
         \/ \E c \in Conn : ConnectTo(PeerOfView(i), c) /\ stack' = [stack EXCEPT ![i].conn = c]
  BY <1>2 DEF PressReconnect
<1> HIDE DEF i
<1>4. stack[i] \in ChatView /\ i \in DOMAIN stack /\ InUse(stack[i].conn) /\ stack[i].conn \in Conn
  BY <1>1, <1>2, StackShape DEF ConnectionsInUse
<1>5. CASE UNCHANGED stack
  <2>1. SameButConnAndWaiting(i) /\ stack'[i] = stack[i]
    BY <1>1, <1>5 DEF SameButConnAndWaiting, Shape, Position
  <2>2. status'[stack[i].conn] # "unused" /\ peerOf'[stack[i].conn] = PeerOfView(i)
    BY <1>1, <1>4 DEF CallsKept, PeerOfView, InUse
  <2> QED
    BY <1>2, <1>3, <2>1, <2>2 DEF i
<1>6. ASSUME NEW c \in Conn, ConnectTo(PeerOfView(i), c), stack' = [stack EXCEPT ![i].conn = c]
      PROVE  /\ SameButConnAndWaiting(i)
             /\ status'[stack'[i].conn] # "unused" /\ peerOf'[stack'[i].conn] = PeerOfView(i)
             /\ stack'[i].waiting = stack[i].waiting
  <2>1. status'[c] # "unused" /\ peerOf'[c] = PeerOfView(i)
    BY <1>1, <1>2, <1>6, ConnectToPeer DEF InUse
  <2> DEFINE v == [stack[i] EXCEPT !.conn = c]
  <2>2. /\ v \in ChatView /\ v.conn = c /\ v.waiting = stack[i].waiting
        /\ v.id = stack[i].id /\ v.shown = stack[i].shown /\ v.loaded = stack[i].loaded
    BY <1>4 DEF ChatView
  <2>3. stack' = [stack EXCEPT ![i] = v]
    BY <1>4, <1>6
  <2> HIDE DEF v
  <2> QED
    BY <1>1, <1>2, <2>1, <2>2, <2>3, ViewReplaced DEF SameButConnAndWaiting
<1> QED
  BY <1>2, <1>3, <1>5, <1>6 DEF i

LEMMA ViewsStep ==
  ASSUME IInv, [Next]_vars
  PROVE  ViewsStay
<1>0. Shape /\ ViewsInOrder /\ CallsKept /\ HistoryGrows /\ Len(stack) \in Nat
  BY CallsStep, HistoryStep, StackShape DEF IInv
<1>1. CASE UNCHANGED <<stack, chats>>
  BY <1>0, <1>1, ViewsUntouched DEF Shape, Position
<1>2. CASE Routes
  BY <1>0, <1>1, <1>2, RoutesCalls DEF views
<1>3. ASSUME NEW p \in Peer, SelectPeer(p) PROVE ViewsStay
  <2>1. ASSUME NEW c \in Conn, ConnectTo(p, c), Show(c) PROVE ViewsStay
    <3>1. status'[c] # "unused" /\ peerOf'[c] = p
      BY <1>0, <2>1, ConnectToPeer DEF InUse
    <3>2. p \in ToSet(chosen') /\ MainIsFree
      BY <1>0, <1>3, AppendElements DEF SelectPeer, Shape, MainMayCall
    <3> QED
      BY <1>0, <2>1, <3>1, <3>2, ViewShown
  <2> QED
    BY <1>1, <1>3, <2>1 DEF SelectPeer
<1>4. CASE TypeMessage
  <2> DEFINE i == Len(stack)
             m == Len(born')
  <2>1. /\ i \in Position /\ m \notin Born /\ Bears("Me", PeerOfView(i))
        /\ PeerOfView(i) \in Peer /\ SameButConnAndWaiting(i)
        /\ status'[stack'[i].conn] # "unused" /\ peerOf'[stack'[i].conn] = PeerOfView(i)
        /\ Sent(i, m) \/ Waits(i, m)
    BY <1>4, TextTyped
  <2>2. m \in 1 .. Len(born') /\ born'[m].peer = PeerOfView(i)
    BY <1>0, <2>1, MessageBorn
  <2> HIDE DEF i, m
  <2>3. stack'[i].waiting \in {stack[i].waiting, NoMessage} \/ FreshText(i)
    BY <2>1, <2>2 DEF Sent, Waits, FreshText
  <2>4. chats' = chats
    BY <1>4 DEF TypeMessage
  <2> QED
    BY <1>0, <2>1, <2>3, <2>4, ViewReconnected DEF i
<1>5. CASE PressReconnect
  BY <1>0, <1>5, ReconnectPressed, ViewReconnected
<1>6. CASE LoadMessages
  <2> DEFINE i == Len(stack)
             p == PeerOfView(i)
  <2>1. /\ i \in Position
        /\ stack' \in Seq(ChatView) /\ Len(stack') = Len(stack) /\ Position' = Position
        /\ \A j \in Position : j # i => stack'[j] = stack[j]
        /\ stack'[i].id = stack[i].id /\ stack'[i].conn = stack[i].conn
        /\ stack'[i].waiting = stack[i].waiting /\ stack'[i].shown = MessagesOf(p)
        /\ chats' = chats
    BY <1>0, <1>6, MessagesLoaded
  <2>2. MessagesOf(p) \subseteq OfView(i)
    BY DEF MessagesOf, OfView, IInv, MessagesAreBorn
  <2>3. \A j \in Position : OldView(j)
    BY <1>0, <2>1, <2>2, ViewStays
  <2> QED
    BY <1>0, <2>1, <2>3, ViewsKept
<1>7. CASE AddMessage
  BY <1>0, <1>7, MessageAdded, ViewsUntouched
<1>8. ASSUME NEW i \in Position, Resends(i) PROVE ViewsStay
  BY <1>0, <1>8, TextResent, ViewReconnected
<1>9. CASE SwitchesButton
  BY <1>0, <1>9, ViewsUntouched DEF SwitchesButton
<1>10. CASE ListShows
  <2> DEFINE c == waitingConnection
  <2>1. c \in Conn /\ Show(c) /\ MainIsFree /\ UNCHANGED <<calls, chosen>>
    BY <1>0, <1>10 DEF ListShows, Shape, Takes
  <2>2. status[c] # "unused" /\ peerOf[c] \in ToSet(chosen)
    BY <1>10 DEF ListShows, IInv, ConnectionsInUse, WaitingAndQueued, InUse
  <2>3. status'[c] # "unused" /\ peerOf'[c] \in ToSet(chosen')
    BY <2>1, <2>2 DEF calls
  <2> HIDE DEF c
  <2> QED
    BY <1>0, <2>1, <2>3, ViewShown
<1>11. CASE Pops
  BY <1>0, <1>11, ViewPopped DEF Pops
<1>12. CASE \/ UNCHANGED vars \/ (\E c \in Conn : Receive(c)) \/ Appears
            \/ (\E t \in Thread : AddReads(t) \/ AddWrites(t) \/ AddNotifies(t))
  <2>1. UNCHANGED <<stack, chats>>
    BY <1>12 DEF vars, views, Receive, Appears, AddReads, AddWrites, AddNotifies
  <2> QED
    BY <1>1, <2>1
<1> QED
  BY <1>0, <1>2, <1>3, <1>4, <1>5, <1>6, <1>7, <1>8, <1>9, <1>10, <1>11, <1>12, StepKinds

-----------------------------------------------------------------------------
(* The connection the list waits for is one with a peer that was chosen.   *)
WaitingStays ==
  /\ waitingConnection' \in Conn \union {NoConn}
  /\ waitingConnection' # NoConn =>
       /\ status'[waitingConnection'] # "unused"
       /\ peerOf'[waitingConnection'] \in ToSet(chosen')

LEMMA WaitingStep ==
  ASSUME IInv, [Next]_vars
  PROVE  WaitingStays
<1>0. /\ Shape /\ ViewsInOrder /\ ConnectionsInUse /\ WaitingAndQueued
      /\ CallsKept /\ HistoryGrows
  BY CallsStep, HistoryStep DEF IInv
<1>1. CASE waitingConnection' = waitingConnection
  <2>1. waitingConnection \in Conn \union {NoConn}
    BY <1>0 DEF Shape
  <2>2. waitingConnection # NoConn =>
          InUse(waitingConnection) /\ peerOf[waitingConnection] \in ToSet(chosen)
    BY <1>0 DEF ConnectionsInUse, WaitingAndQueued
  <2> QED
    BY <1>0, <1>1, <2>1, <2>2 DEF WaitingStays, CallsKept, HistoryGrows, InUse
<1>2. ASSUME NEW p \in Peer, SelectPeer(p) PROVE WaitingStays
  <2>1. chosen' = Append(chosen, p) /\ p \in ToSet(chosen')
    BY <1>0, <1>2, AppendElements DEF SelectPeer, Shape
  <2>2. CASE waitingConnection' = NoConn
    BY <2>2 DEF WaitingStays
  <2>3. ASSUME NEW c \in Conn, ConnectTo(p, c), waitingConnection' = c PROVE WaitingStays
    <3>1. status'[c] # "unused" /\ peerOf'[c] = p
      BY <1>0, <2>3, ConnectToPeer DEF InUse
    <3> QED
      BY <2>1, <2>3, <3>1 DEF WaitingStays
  <2> QED
    BY <1>2, <2>2, <2>3 DEF SelectPeer
<1>3. ASSUME NEW i \in Position, Resends(i) PROVE waitingConnection' = waitingConnection
  BY <1>3 DEF Resends
<1>4. CASE Routes
  BY <1>0, <1>1, <1>4, RoutesCalls DEF views
<1>5. CASE \/ UNCHANGED vars \/ (\E c \in Conn : Receive(c))
           \/ (\E t \in Thread : AddReads(t) \/ AddWrites(t) \/ AddNotifies(t))
           \/ TypeMessage \/ PressReconnect \/ Appears \/ LoadMessages \/ AddMessage
           \/ SwitchesButton \/ ListShows \/ Pops
  <2>1. waitingConnection' = waitingConnection
    BY <1>5 DEF vars, views, Receive, AddReads, AddWrites, AddNotifies, TypeMessage,
                PressReconnect, Appears, LoadMessages, AddMessage, SwitchesButton, ListShows,
                Pops, Pop
  <2> QED
    BY <1>1, <2>1
<1> QED
  BY <1>0, <1>1, <1>2, <1>3, <1>4, <1>5, StepKinds

(* What is given to the library was never given to it before, is of the    *)
(* peer of the view that gives it, and waits in no view afterwards.        *)
GivenNow(m, i) ==
  /\ sends' = Append(sends, [m |-> m, conn |-> stack[i].conn])
  /\ m \in 1 .. Len(born') /\ born'[m].peer = PeerOfView(i)
  /\ \A k \in 1 .. Len(sends) : sends[k].m # m
  /\ \A j \in Position' : stack'[j].waiting # m

SendsStay == sends' = sends \/ \E i \in Position : \E m \in Nat : GivenNow(m, i)

LEMMA SendsStep ==
  ASSUME IInv, [Next]_vars
  PROVE  SendsStay
<1>0. Shape /\ ViewsInOrder /\ MessagesAreBorn /\ Len(stack) \in Nat
  BY StackShape DEF IInv
<1>1. CASE TypeMessage
  <2> DEFINE i == Len(stack)
             m == Len(born')
  <2>1. /\ i \in Position /\ m \in Nat /\ m \notin Born /\ Bears("Me", PeerOfView(i))
        /\ PeerOfView(i) \in Peer /\ SameButConnAndWaiting(i)
        /\ Sent(i, m) \/ Waits(i, m)
    BY <1>1, TextTyped
  <2>2. m \in 1 .. Len(born') /\ born'[m].peer = PeerOfView(i)
    BY <1>0, <2>1, MessageBorn
  <2> HIDE DEF i, m
  <2>3. CASE Sent(i, m)
    <3>1. \A k \in 1 .. Len(sends) : sends[k].m # m
      BY <1>0, <2>1 DEF MessagesAreBorn
    <3>2. \A j \in Position : stack[j].waiting # m
      BY <1>0, <2>1, <2>2 DEF MessagesAreBorn, NoMessage
    <3>3. m # NoMessage
      BY <2>2 DEF NoMessage
    <3>4. \A j \in Position' : stack'[j].waiting # m
      BY <2>1, <2>3, <3>2, <3>3 DEF SameButConnAndWaiting, Sent
    <3> QED
      BY <2>1, <2>2, <2>3, <3>1, <3>4 DEF SendsStay, GivenNow, Sent
  <2> QED
    BY <2>1, <2>3 DEF SendsStay, Waits
<1>2. ASSUME NEW i \in Position, Resends(i) PROVE SendsStay
  <2> DEFINE m == stack[i].waiting
  <2>1. /\ i = Len(stack) /\ m \in Born /\ born[m].peer = PeerOfView(i) /\ born' = born
        /\ SameButConnAndWaiting(i) /\ stack'[i].waiting = NoMessage
        /\ Sent(i, m) \/ Waits(i, m)
    BY <1>2, TextResent
  <2>2. \A j \in Position : j # i => stack[j].waiting = NoMessage
    BY <1>0, <2>1 DEF ViewsInOrder, Position
  <2>3. m \in Nat /\ m # NoMessage /\ m \in 1 .. Len(born')
    BY <1>0, <2>1, StackShape DEF Born, NoMessage
  <2>4. \A k \in 1 .. Len(sends) : sends[k].m # m
    BY DEF IInv, WaitingIsNotSent
  <2> HIDE DEF m
  <2>5. \A j \in Position' : stack'[j].waiting # m
    BY <2>1, <2>2, <2>3 DEF SameButConnAndWaiting
  <2> QED
    BY <2>1, <2>3, <2>4, <2>5 DEF SendsStay, GivenNow, Sent, Waits
<1>3. CASE Routes
  BY <1>0, <1>3, RoutesCalls DEF SendsStay
<1>4. CASE \/ UNCHANGED vars \/ (\E c \in Conn : Receive(c))
           \/ (\E t \in Thread : AddReads(t) \/ AddWrites(t) \/ AddNotifies(t))
           \/ (\E p \in Peer : SelectPeer(p)) \/ PressReconnect \/ Appears \/ LoadMessages
           \/ AddMessage \/ SwitchesButton \/ ListShows \/ Pops
  BY <1>4 DEF SendsStay, vars, Receive, AddReads, AddWrites, AddNotifies, SelectPeer,
              PressReconnect, Appears, LoadMessages, AddMessage, SwitchesButton, ListShows, Pops
<1> QED
  BY <1>0, <1>1, <1>2, <1>3, <1>4, StepKinds

(* What is stored, or about to be stored, has been born; a thread may      *)
(* overwrite what the other stored in between, but not what it has read.   *)
Fits(a) ==
  /\ a.stage # "idle" => a.m \in 1 .. Len(born')
  /\ a.stage = "write" => ToSet(a.base) \subseteq ToSet(messages') \union erased'

StoredStay ==
  /\ messages' \in Seq(Nat) /\ ToSet(messages') \subseteq 1 .. Len(born')
  /\ erased \subseteq erased' /\ erased' \subseteq 1 .. Len(born')
  /\ adding' \in [Thread -> Add]
  /\ \A t \in Thread : Fits(adding'[t])

LEMMA StoredStep ==
  ASSUME IInv, [Next]_vars
  PROVE  StoredStay
<1>0. Shape /\ ViewsInOrder /\ MessagesAreBorn /\ HistoryGrows
  BY HistoryStep DEF IInv
<1>1. /\ messages \in Seq(Nat) /\ ToSet(messages) \subseteq 1 .. Len(born)
      /\ adding \in [Thread -> Add] /\ erased \subseteq 1 .. Len(born)
      /\ \A t \in Thread :
           /\ adding[t].stage \in {"idle", "read", "write", "notify"}
           /\ adding[t].m \in Nat /\ adding[t].base \in Seq(Nat)
           /\ adding[t].stage # "idle" => adding[t].m \in 1 .. Len(born)
           /\ adding[t].stage = "write" => ToSet(adding[t].base) \subseteq ToSet(messages) \union erased
  BY <1>0 DEF Shape, Add, MessagesAreBorn, Born
<1>2. 1 .. Len(born) \subseteq 1 .. Len(born')
  <2>1. Len(born) \in Nat /\ Len(born') \in Nat /\ Len(born) <= Len(born')
    BY <1>0, ElementsOfSeq DEF Shape, HistoryGrows
  <2> QED
    BY <2>1
<1>3. ASSUME UNCHANGED storage PROVE StoredStay
  BY <1>1, <1>2, <1>3 DEF StoredStay, Fits, storage
<1>4. ASSUME NEW t \in Thread, NEW m \in 1 .. Len(born'), AddBegins(t, m),
             UNCHANGED <<messages, erased>>
      PROVE  StoredStay
  <2> DEFINE a == [stage |-> "read", m |-> m, base |-> <<>>]
  <2>1. a \in Add /\ Fits(a)
    <3>1. m \in Nat /\ <<>> \in Seq(Nat)
      OBVIOUS
    <3> QED
      BY <3>1 DEF Add, Fits
  <2>2. adding' = [adding EXCEPT ![t] = a]
    BY <1>4 DEF AddBegins
  <2> HIDE DEF a
  <2>3. adding' \in [Thread -> Add] /\ \A u \in Thread : adding'[u] \in {adding[u], a}
    BY <1>1, <2>1, <2>2
  <2>4. \A u \in Thread : Fits(adding[u])
    BY <1>1, <1>2, <1>4 DEF Fits
  <2>5. \A u \in Thread : Fits(adding'[u])
    BY <2>1, <2>3, <2>4
  <2> QED
    BY <1>1, <1>2, <1>4, <2>3, <2>5 DEF StoredStay
<1>5. CASE TypeMessage
  <2>1. /\ Bears("Me", PeerOfView(Len(stack))) /\ PeerOfView(Len(stack)) \in Peer
        /\ AddStarts(Len(born')) /\ UNCHANGED <<messages, erased>>
    BY <1>5, TextTyped
  <2>2. Len(born') \in 1 .. Len(born')
    BY <1>0, <2>1, MessageBorn
  <2> QED
    BY <1>3, <1>4, <2>1, <2>2 DEF AddStarts, storage, Thread
<1>6. CASE LoadMessages
  <2>1. /\ PeerOfView(Len(stack)) \in Peer /\ UNCHANGED <<messages, erased>>
        /\ \/ UNCHANGED adding
           \/ Bears("Info", PeerOfView(Len(stack))) /\ AddBegins("main", Len(born'))
    BY <1>0, <1>6, MessagesLoaded
  <2>2. Bears("Info", PeerOfView(Len(stack))) => Len(born') \in 1 .. Len(born')
    BY <1>0, <2>1, MessageBorn
  <2> QED
    BY <1>3, <1>4, <2>1, <2>2 DEF storage, Thread
<1>7. ASSUME NEW i \in Position, Resends(i) PROVE StoredStay
  <2>1. /\ stack[i].waiting \in Born /\ AddStarts(stack[i].waiting)
        /\ UNCHANGED <<messages, erased>>
    BY <1>7, TextResent
  <2>2. stack[i].waiting \in 1 .. Len(born')
    BY <1>2, <2>1 DEF Born
  <2> QED
    BY <1>3, <1>4, <2>1, <2>2 DEF AddStarts, storage, Thread
<1>8. ASSUME NEW c \in Conn, Receive(c) PROVE StoredStay
  <2>1. /\ born' = Append(born, [sender |-> "Them", peer |-> peerOf[c], chat |-> 0])
        /\ AddBegins("library", Len(born')) /\ UNCHANGED <<messages, erased>>
    BY <1>8 DEF Receive
  <2>2. peerOf[c] \in Peer /\ Bears("Them", peerOf[c])
    BY <1>0, <2>1 DEF Bears, Shape
  <2>3. Len(born') \in 1 .. Len(born')
    BY <1>0, <2>2, MessageBorn
  <2> QED
    BY <1>4, <2>1, <2>3 DEF Thread
<1>9. ASSUME NEW t \in Thread, AddReads(t) PROVE StoredStay
  <2> DEFINE a == [adding[t] EXCEPT !.stage = "write", !.base = messages]
  <2>1. /\ adding' = [adding EXCEPT ![t] = a] /\ adding[t].stage = "read"
        /\ UNCHANGED <<messages, erased, born>>
    BY <1>1, <1>9 DEF AddReads
  <2>2. a \in Add /\ a.stage = "write" /\ a.m = adding[t].m /\ a.base = messages
    BY <1>1 DEF Add
  <2> HIDE DEF a
  <2>3. Fits(a)
    BY <1>1, <2>1, <2>2 DEF Fits
  <2>4. \A u \in Thread : Fits(adding[u])
    BY <1>1, <2>1 DEF Fits
  <2>5. adding' \in [Thread -> Add] /\ \A u \in Thread : adding'[u] \in {adding[u], a}
    BY <1>1, <2>1, <2>2
  <2>6. \A u \in Thread : Fits(adding'[u])
    BY <2>3, <2>4, <2>5
  <2> QED
    BY <1>1, <2>1, <2>5, <2>6 DEF StoredStay
<1>10. ASSUME NEW t \in Thread, AddWrites(t) PROVE StoredStay
  <2> DEFINE a == [adding[t] EXCEPT !.stage = "notify", !.base = <<>>]
             base == ToSet(adding[t].base)
  <2>1. /\ adding[t].stage = "write" /\ born' = born
        /\ messages' = Append(adding[t].base, adding[t].m)
        /\ erased' = erased \union (ToSet(messages) \ base)
        /\ adding' = [adding EXCEPT ![t] = a]
    BY <1>1, <1>10 DEF AddWrites
  <2>2. a \in Add /\ a.stage = "notify" /\ a.m = adding[t].m
    <3>1. <<>> \in Seq(Nat)
      OBVIOUS
    <3> QED
      BY <1>1, <3>1 DEF Add
  <2>3. messages' \in Seq(Nat) /\ ToSet(messages') = base \union {adding[t].m}
    <3>1. adding[t].base \in Seq(Nat) /\ adding[t].m \in Nat
      BY <1>1 DEF Add
    <3> QED
      BY <2>1, <3>1, AppendElements
  <2>4. base \subseteq ToSet(messages) \union erased /\ adding[t].m \in 1 .. Len(born)
    BY <1>1, <2>1
  <2> HIDE DEF a, base
  <2>5. Fits(a)
    BY <2>1, <2>2, <2>4 DEF Fits
  <2>6. ToSet(messages) \union erased \subseteq ToSet(messages') \union erased'
    BY <2>1, <2>3
  <2>7. \A u \in Thread : Fits(adding[u])
    BY <1>1, <2>1, <2>6 DEF Fits
  <2>8. adding' \in [Thread -> Add] /\ \A u \in Thread : adding'[u] \in {adding[u], a}
    BY <1>1, <2>1, <2>2
  <2>9. \A u \in Thread : Fits(adding'[u])
    BY <2>5, <2>7, <2>8
  <2>10. ToSet(messages') \subseteq 1 .. Len(born') /\ erased' \subseteq 1 .. Len(born')
    BY <1>1, <2>1, <2>3, <2>4
  <2> QED
    BY <2>1, <2>3, <2>8, <2>9, <2>10 DEF StoredStay
<1>11. ASSUME NEW t \in Thread, AddNotifies(t) PROVE StoredStay
  <2>1. adding' = [adding EXCEPT ![t] = Idle] /\ UNCHANGED <<messages, erased, born>>
    BY <1>11 DEF AddNotifies
  <2>2. Idle \in Add /\ Fits(Idle)
    <3>1. <<>> \in Seq(Nat)
      OBVIOUS
    <3> QED
      BY <3>1 DEF Idle, Add, NoMessage, Fits
  <2>3. \A u \in Thread : Fits(adding[u])
    BY <1>1, <2>1 DEF Fits
  <2>4. adding' \in [Thread -> Add] /\ \A u \in Thread : adding'[u] \in {adding[u], Idle}
    BY <1>1, <2>1, <2>2
  <2>5. \A u \in Thread : Fits(adding'[u])
    BY <2>2, <2>3, <2>4
  <2> QED
    BY <1>1, <2>1, <2>4, <2>5 DEF StoredStay
<1>12. CASE Routes
  BY <1>0, <1>3, <1>12, RoutesCalls
<1>13. CASE \/ UNCHANGED vars \/ (\E p \in Peer : SelectPeer(p)) \/ PressReconnect
            \/ Appears \/ AddMessage \/ SwitchesButton \/ ListShows \/ Pops
  <2>1. UNCHANGED storage
    BY <1>13 DEF vars, SelectPeer, PressReconnect, Appears, AddMessage, SwitchesButton,
                 ListShows, Pops
  <2> QED
    BY <1>3, <2>1
<1> QED
  BY <1>0, <1>5, <1>6, <1>7, <1>8, <1>9, <1>10, <1>11, <1>12, <1>13, StepKinds

(* The delegate is the visible chat once that has appeared.                *)
DelegateStays ==
  LET top == stack'[Len(stack')]
  IN  /\ delegate' \in Nat /\ delegate' <= chats'
      /\ stack' # <<>> /\ top.loaded => delegate' = top.id

LEMMA SameTopSameDelegate ==
  ASSUME Shape, ViewsInOrder, UNCHANGED <<chats, delegate>>, Len(stack') = Len(stack),
         stack' \in Seq(ChatView),
         \A i \in Position : stack'[i].id = stack[i].id /\ stack'[i].loaded = stack[i].loaded
  PROVE  DelegateStays
<1>1. stack' # <<>> => stack # <<>>
  <2>1. stack \in Seq(ChatView)
    BY DEF Shape
  <2> QED
    BY <2>1, EmptySeq
<1> QED
  BY <1>1, DelegateIsThere DEF DelegateStays

LEMMA DelegateStep ==
  ASSUME IInv, [Next]_vars
  PROVE  DelegateStays
<1>0. /\ Shape /\ ViewsInOrder /\ Len(stack) \in Nat /\ chats \in Nat /\ stack \in Seq(ChatView)
      /\ delegate \in Nat /\ delegate <= chats
  BY StackShape, DelegateIsThere DEF IInv, Shape
<1>1. CASE UNCHANGED <<stack, chats, delegate>>
  BY <1>0, <1>1, SameTopSameDelegate
<1>2. ASSUME NEW i \in Position, SameButConnAndWaiting(i), UNCHANGED <<chats, delegate>>
      PROVE  DelegateStays
  BY <1>0, <1>2, SameTopSameDelegate DEF SameButConnAndWaiting
<1>3. ASSUME NEW c \in Conn, Show(c), UNCHANGED delegate PROVE DelegateStays
  <2>1. /\ Len(stack') = Len(stack) + 1 /\ chats' = chats + 1
        /\ stack'[Len(stack) + 1] =
             [id |-> chats + 1, conn |-> c, waiting |-> NoMessage,
              shown |-> {}, loaded |-> FALSE, button |-> FALSE]
    BY <1>0, <1>3, ShowPushes
  <2>2. ~stack'[Len(stack')].loaded
    BY <2>1
  <2> QED
    BY <1>0, <1>3, <2>1, <2>2 DEF DelegateStays
<1>4. CASE Routes
  BY <1>0, <1>1, <1>4, RoutesCalls DEF views
<1>5. ASSUME NEW p \in Peer, SelectPeer(p) PROVE DelegateStays
  BY <1>1, <1>3, <1>5 DEF SelectPeer
<1>6. CASE TypeMessage
  <2>1. chats' = chats /\ delegate' = delegate
    BY <1>6 DEF TypeMessage
  <2> QED
    BY <1>2, <1>6, <2>1, TextTyped
<1>7. CASE PressReconnect
  BY <1>2, <1>7, ReconnectPressed
<1>8. CASE Appears
  <2>1. UNCHANGED <<stack, chats>> /\ delegate' = IF stack = <<>> THEN 0 ELSE Top.id
    BY <1>8 DEF Appears, views
  <2>2. stack # <<>> => Top = stack[Len(stack)] /\ Top.id \in Nat /\ Top.id <= chats
    BY <1>0, TopOfStack DEF ViewsInOrder
  <2> QED
    BY <1>0, <2>1, <2>2 DEF DelegateStays
<1>9. CASE LoadMessages
  <2>1. /\ Len(stack') = Len(stack) /\ stack'[Len(stack)].id = delegate
        /\ UNCHANGED <<chats, delegate>>
    BY <1>0, <1>9, MessagesLoaded
  <2> QED
    BY <1>0, <2>1 DEF DelegateStays
<1>10. CASE AddMessage
  BY <1>0, <1>10, MessageAdded, SameTopSameDelegate
<1>11. ASSUME NEW i \in Position, Resends(i) PROVE DelegateStays
  BY <1>2, <1>11, TextResent
<1>12. CASE SwitchesButton
  BY <1>0, <1>12, SameTopSameDelegate DEF SwitchesButton
<1>13. CASE ListShows
  BY <1>0, <1>3, <1>13 DEF ListShows, Shape
<1>14. CASE Pops
  <2>1. /\ Len(stack') = Len(stack) - 1 /\ stack' \in Seq(ChatView) /\ UNCHANGED <<chats, delegate>>
        /\ \A i \in Position' : stack'[i].loaded = (stack[i].loaded /\ i # Len(stack) - 1)
    BY <1>0, <1>14, PopDrops DEF Pops
  <2>2. stack' # <<>> => ~stack'[Len(stack')].loaded
    <3>1. stack' # <<>> => Len(stack') \in Position'
      BY <2>1, EmptySeq DEF Position
    <3> QED
      BY <2>1, <3>1
  <2> QED
    BY <1>0, <2>1, <2>2 DEF DelegateStays
<1>15. CASE \/ UNCHANGED vars \/ (\E c \in Conn : Receive(c))
            \/ (\E t \in Thread : AddReads(t) \/ AddWrites(t) \/ AddNotifies(t))
  <2>1. UNCHANGED <<stack, chats, delegate>>
    BY <1>15 DEF vars, views, Receive, AddReads, AddWrites, AddNotifies
  <2> QED
    BY <1>1, <2>1
<1> QED
  BY <1>0, <1>4, <1>5, <1>6, <1>7, <1>8, <1>9, <1>10, <1>11, <1>12, <1>13, <1>14, <1>15, StepKinds

-----------------------------------------------------------------------------
(* The conjuncts of the invariant after a step, from what has been said of *)
(* connections, views, closures and texts.                                 *)
Stays ==
  /\ CallsKept /\ HistoryGrows /\ ClosuresStay /\ ViewsStay
  /\ WaitingStays /\ SendsStay /\ StoredStay /\ DelegateStays

LEMMA EverythingStays ==
  ASSUME IInv, [Next]_vars
  PROVE  Stays
  BY CallsStep, HistoryStep, ClosuresStep, ViewsStep, WaitingStep, SendsStep, StoredStep,
     DelegateStep DEF Stays

LEMMA SendsGrow ==
  ASSUME IInv, Stays
  PROVE  /\ sends' \in Seq([m : Nat, conn : Conn])
         /\ \A k \in 1 .. Len(sends') :
              \/ k \in 1 .. Len(sends) /\ sends'[k] = sends[k]
              \/ k = Len(sends) + 1 /\ \E i \in Position :
                   GivenNow(sends'[k].m, i) /\ sends'[k].conn = stack[i].conn
         /\ \A k \in 1 .. Len(sends) : sends[k].conn \in Conn /\ sends[k].m \in Nat
<1> DEFINE S == [m : Nat, conn : Conn]
<1>1. Shape /\ sends \in Seq(S) /\ \A k \in 1 .. Len(sends) : sends[k] \in S
  BY ElementOfSeq DEF IInv, Shape
<1>2. \A k \in 1 .. Len(sends) : sends[k].conn \in Conn /\ sends[k].m \in Nat
  BY <1>1
<1>3. CASE sends' = sends
  BY <1>1, <1>2, <1>3
<1>4. ASSUME NEW i \in Position, NEW m \in Nat, GivenNow(m, i)
      PROVE  /\ sends' \in Seq(S)
             /\ \A k \in 1 .. Len(sends') :
                  \/ k \in 1 .. Len(sends) /\ sends'[k] = sends[k]
                  \/ k = Len(sends) + 1 /\ GivenNow(sends'[k].m, i)
                     /\ sends'[k].conn = stack[i].conn
  <2> DEFINE e == [m |-> m, conn |-> stack[i].conn]
  <2>1. e \in S /\ e.m = m /\ e.conn = stack[i].conn
    BY <1>1, StackShape
  <2>2. sends' = Append(sends, e)
    BY <1>4 DEF GivenNow
  <2> HIDE DEF e, S
  <2>3. /\ sends' \in Seq(S) /\ Len(sends') = Len(sends) + 1 /\ Len(sends) \in Nat
        /\ \A k \in 1 .. Len(sends) : sends'[k] = sends[k]
        /\ sends'[Len(sends) + 1] = e
    BY <1>1, <2>1, <2>2, AppendProperties, ElementsOfSeq
  <2>4. \A k \in 1 .. Len(sends') : k \in 1 .. Len(sends) \/ k = Len(sends) + 1
    BY <2>3
  <2> QED
    BY <1>4, <2>1, <2>3, <2>4
<1> QED
  BY <1>2, <1>3, <1>4 DEF Stays, SendsStay

LEMMA QueuedNumbers ==
  ASSUME IInv, Stays
  PROVE  \A q \in Closures \union Closures' : q.to \in Nat
<1>1. Closures \subseteq Queued
  BY ElementsOfSeq DEF IInv, Shape, Closures
<1>2. Closures' \subseteq Queued
  BY ElementsOfSeq DEF Stays, ClosuresStay, Closures
<1>3. \A q \in Queued : q.to \in Nat
  BY DEF Queued
<1> QED
  BY <1>1, <1>2, <1>3

LEMMA BornGrows ==
  ASSUME Stays, IInv
  PROVE  /\ Born \subseteq 1 .. Len(born') /\ Born' = 1 .. Len(born')
         /\ \A m \in Born : born'[m] = born[m]
<1>1. Len(born) \in Nat /\ Len(born') \in Nat /\ Len(born) <= Len(born')
  BY ElementsOfSeq DEF IInv, Shape, Stays, HistoryGrows
<1> QED
  BY <1>1 DEF Born, Stays, HistoryGrows

LEMMA ShapeStays ==
  ASSUME IInv, Stays
  PROVE  Shape'
  BY SendsGrow DEF Stays, Shape, CallsKept, Statuses, HistoryGrows, ClosuresStay, ViewsStay,
                   WaitingStays, StoredStay, DelegateStays

LEMMA MessagesStayBorn ==
  ASSUME IInv, Stays
  PROVE  MessagesAreBorn'
<1>1. /\ Born \subseteq Born' /\ Born' = 1 .. Len(born')
  BY BornGrows
<1>2. ASSUME NEW i \in Position'
      PROVE  stack'[i].shown \subseteq Born' /\ stack'[i].waiting \in Born' \union {NoMessage}
  <2>1. CASE OldView(i)
    BY <1>1, <2>1 DEF OldView, OfView, FreshText, IInv, MessagesAreBorn
  <2>2. CASE NewView(i)
    BY <2>2 DEF NewView
  <2> QED
    BY <2>1, <2>2 DEF Stays, ViewsStay
<1>3. ASSUME NEW q \in Closures', q.kind = "added" PROVE q.m \in Born'
  BY <1>1, <1>3 DEF Stays, ClosuresStay, Silent, Announces, IInv, MessagesAreBorn
<1>4. ASSUME NEW k \in 1 .. Len(sends') PROVE sends'[k].m \in Born'
  <2>1. CASE k \in 1 .. Len(sends) /\ sends'[k] = sends[k]
    BY <1>1, <2>1 DEF IInv, MessagesAreBorn
  <2>2. ASSUME NEW i \in Position, GivenNow(sends'[k].m, i) PROVE sends'[k].m \in Born'
    BY <1>1, <2>2 DEF GivenNow
  <2> QED
    BY <2>1, <2>2, SendsGrow
<1>5. /\ ToSet(messages') \subseteq Born'
      /\ erased' \subseteq Born'
      /\ \A t \in Thread :
           /\ adding'[t].stage # "idle" => adding'[t].m \in Born'
           /\ adding'[t].stage = "write" =>
                ToSet(adding'[t].base) \subseteq ToSet(messages') \union erased'
  BY <1>1 DEF Stays, StoredStay, Fits
<1> QED
  BY <1>2, <1>3, <1>4, <1>5 DEF MessagesAreBorn

LEMMA ViewsStayInOrder ==
  ASSUME IInv, Stays
  PROVE  ViewsInOrder'
<1>1. /\ Shape /\ ViewsInOrder /\ Len(stack) \in Nat /\ chats \in Nat /\ chats' \in Nat
      /\ chats <= chats'
  BY StackShape DEF IInv, Shape, Stays, ViewsStay
<1>2. \A i \in Position : stack[i].id \in Nat /\ stack[i].id <= chats
  BY <1>1, StackShape DEF ViewsInOrder
<1>3. \A i \in Position' : OldView(i) \/ NewView(i)
  BY DEF Stays, ViewsStay
<1>4. ASSUME NEW i \in Position' PROVE stack'[i].id <= chats'
  <2>1. CASE OldView(i)
    BY <1>1, <1>2, <2>1 DEF OldView
  <2>2. CASE NewView(i)
    BY <1>1, <2>2 DEF NewView
  <2> QED
    BY <1>3, <2>1, <2>2
<1>5. ASSUME NEW i \in Position', NEW j \in Position', i < j
      PROVE  stack'[i].id < stack'[j].id
  <2>1. CASE OldView(i) /\ OldView(j)
    BY <1>1, <1>5, <2>1 DEF OldView, ViewsInOrder
  <2>2. CASE OldView(i) /\ NewView(j)
    BY <1>1, <1>2, <2>2 DEF OldView, NewView
  <2>3. CASE NewView(i)
    <3>1. i = Len(stack) + 1 /\ (j \in Position \/ j = Len(stack) + 1)
      BY <1>3, <2>3 DEF OldView, NewView
    <3> QED
      BY <1>1, <1>5, <3>1 DEF Position
  <2> QED
    BY <1>3, <2>1, <2>2, <2>3
<1>6. ASSUME NEW q \in Closures' PROVE q.to <= chats'
  <2>1. CASE q \in Closures \/ Silent(q)
    <3>1. q.to \in Nat
      BY QueuedNumbers
    <3>2. q.to <= chats
      BY <1>1, <2>1 DEF Silent, ViewsInOrder
    <3> QED
      BY <1>1, <3>1, <3>2
  <2>2. CASE Announces(q)
    <3>1. q.to \in Nat /\ q.to <= chats
      BY <1>2, <2>2 DEF Announces
    <3> QED
      BY <1>1, <3>1
  <2> QED
    BY <2>1, <2>2 DEF Stays, ClosuresStay
<1>7. BelowIsSettled
  BY DEF Stays, ViewsStay
<1>8. delegate' <= chats' /\ (stack' # <<>> /\ Top'.loaded => delegate' = Top'.id)
  BY DEF Stays, DelegateStays, Top, Last
<1> QED
  BY <1>4, <1>5, <1>6, <1>7, <1>8 DEF ViewsInOrder, BelowIsSettled

LEMMA ConnectionsStayInUse ==
  ASSUME IInv, Stays
  PROVE  ConnectionsInUse'
<1>1. ConnectionsInUse /\ CallsKept /\ Shape
  BY DEF IInv, Stays
<1>2. \A i \in Position' : status'[stack'[i].conn] # "unused"
  BY DEF Stays, ViewsStay, OldView, NewView
<1>3. ASSUME NEW k \in 1 .. Len(sends') PROVE status'[sends'[k].conn] # "unused"
  <2>1. CASE k \in 1 .. Len(sends) /\ sends'[k] = sends[k]
    BY <1>1, <2>1, SendsGrow DEF ConnectionsInUse, CallsKept, InUse
  <2>2. ASSUME NEW i \in Position, sends'[k].conn = stack[i].conn
        PROVE  status'[sends'[k].conn] # "unused"
    BY <1>1, <2>2, StackShape DEF ConnectionsInUse, CallsKept, InUse
  <2> QED
    BY <2>1, <2>2, SendsGrow
<1>4. waitingConnection' # NoConn => status'[waitingConnection'] # "unused"
  BY DEF Stays, WaitingStays
<1> QED
  BY <1>2, <1>3, <1>4 DEF ConnectionsInUse, InUse

LEMMA PeersStayApart ==
  ASSUME IInv, Stays
  PROVE  PeersAreKeptApart'
<1>1. /\ Shape /\ ConnectionsInUse /\ MessagesAreBorn /\ CallsKept
      /\ SentToItsPeer /\ ChatsAreChosen
  BY DEF IInv, PeersAreKeptApart, Stays
<1>2. \A m \in Born : born'[m] = born[m]
  BY BornGrows
<1>3. ASSUME NEW k \in 1 .. Len(sends') PROVE peerOf'[sends'[k].conn] = born'[sends'[k].m].peer
  <2>1. CASE k \in 1 .. Len(sends) /\ sends'[k] = sends[k]
    <3>1. peerOf'[sends[k].conn] = peerOf[sends[k].conn]
      BY <1>1, <2>1, SendsGrow DEF ConnectionsInUse, CallsKept
    <3>2. born'[sends[k].m] = born[sends[k].m]
      BY <1>1, <1>2, <2>1 DEF MessagesAreBorn
    <3> QED
      BY <1>1, <2>1, <3>1, <3>2 DEF SentToItsPeer
  <2>2. ASSUME NEW i \in Position, GivenNow(sends'[k].m, i), sends'[k].conn = stack[i].conn
        PROVE  peerOf'[sends'[k].conn] = born'[sends'[k].m].peer
    BY <1>1, <2>2, StackShape DEF GivenNow, ConnectionsInUse, CallsKept, PeerOfView
  <2> QED
    BY <2>1, <2>2, SendsGrow
<1>4. ASSUME NEW i \in Position'
      PROVE  /\ \A m \in stack'[i].shown : born'[m].peer = peerOf'[stack'[i].conn]
             /\ peerOf'[stack'[i].conn] \in ToSet(chosen')
  <2>1. CASE OldView(i)
    <3>1. \A m \in stack'[i].shown : born'[m].peer = peerOf'[stack'[i].conn]
      BY <1>2, <2>1 DEF OldView, OfView
    <3>2. PeerOfView(i) \in ToSet(chosen)
      BY <1>1, <2>1 DEF OldView, ChatsAreChosen, PeerOfView, Position
    <3> QED
      BY <2>1, <3>1, <3>2 DEF OldView, Stays, HistoryGrows
  <2>2. CASE NewView(i)
    BY <2>2 DEF NewView
  <2> QED
    BY <2>1, <2>2 DEF Stays, ViewsStay
<1> QED
  BY <1>3, <1>4 DEF PeersAreKeptApart, SentToItsPeer, ShowsItsPeerOnly, ChatsAreChosen, Position

(* No two views have one number.                                           *)
LEMMA ViewsDiffer ==
  ASSUME Shape, ViewsInOrder, NEW i \in Position, NEW j \in Position, stack[i].id = stack[j].id
  PROVE  i = j
<1>1. i \in Nat /\ j \in Nat /\ stack[i].id \in Nat
  BY StackShape DEF Position
<1> QED
  BY <1>1 DEF ViewsInOrder

LEMMA QueuedStaysOfPeer ==
  ASSUME IInv, Stays
  PROVE  WaitingAndQueued'
<1>1. Shape /\ ViewsInOrder /\ MessagesAreBorn /\ WaitingAndQueued /\ chats \in Nat
  BY DEF IInv, Shape
<1>2. \A m \in Born : born'[m] = born[m]
  BY BornGrows
<1>3. \A i \in Position' : OldView(i) \/ NewView(i)
  BY DEF Stays, ViewsStay
<1>4. ASSUME NEW i \in Position', stack'[i].waiting # NoMessage
      PROVE  born'[stack'[i].waiting].peer = peerOf'[stack'[i].conn]
  <2>1. OldView(i)
    BY <1>3, <1>4 DEF NewView
  <2>2. CASE stack'[i].waiting = stack[i].waiting
    <3>1. stack[i].waiting \in Born /\ born[stack[i].waiting].peer = PeerOfView(i)
      BY <1>1, <1>4, <2>1, <2>2 DEF OldView, MessagesAreBorn, WaitingAndQueued
    <3> QED
      BY <1>2, <2>1, <2>2, <3>1 DEF OldView
  <2>3. CASE FreshText(i)
    BY <2>1, <2>3 DEF OldView, FreshText
  <2> QED
    BY <1>4, <2>1, <2>2, <2>3 DEF OldView
<1>5. ASSUME NEW q \in Closures', q.kind = "added", NEW i \in Position', stack'[i].id = q.to
      PROVE  born'[q.m].peer = peerOf'[stack'[i].conn]
  <2>1. q \in Closures \/ Announces(q)
    BY <1>5 DEF Stays, ClosuresStay, Silent
  <2>2. q.to \in Nat /\ q.to <= chats
    <3>1. CASE q \in Closures
      BY <1>1, QueuedNumbers, <3>1 DEF ViewsInOrder
    <3>2. CASE Announces(q)
      BY <1>1, <3>2, StackShape DEF Announces, ViewsInOrder
    <3> QED
      BY <2>1, <3>1, <3>2
  <2>3. OldView(i)
    BY <1>1, <1>3, <1>5, <2>2 DEF NewView
  <2>4. i \in Position /\ stack[i].id = q.to /\ peerOf'[stack'[i].conn] = PeerOfView(i)
    BY <1>5, <2>3 DEF OldView
  <2>5. CASE q \in Closures
    <3>1. q.m \in Born /\ born[q.m].peer = PeerOfView(i)
      BY <1>1, <1>5, <2>4, <2>5 DEF MessagesAreBorn, WaitingAndQueued, PositionOf, Position
    <3> QED
      BY <1>2, <2>4, <3>1
  <2>6. CASE Announces(q)
    <3>1. PICK j \in Position :
            q.to = stack[j].id /\ born'[q.m].peer = PeerOfView(j)
      BY <2>6 DEF Announces
    <3>2. i = j
      BY <1>1, <2>4, <3>1, ViewsDiffer
    <3> QED
      BY <2>4, <3>1, <3>2
  <2> QED
    BY <2>1, <2>5, <2>6
<1>6. waitingConnection' # NoConn => peerOf'[waitingConnection'] \in ToSet(chosen')
  BY DEF Stays, WaitingStays
<1> QED
  BY <1>4, <1>5, <1>6 DEF WaitingAndQueued, PeerOfView, PositionOf, Position

LEMMA SendsStaySingle ==
  ASSUME IInv, Stays
  PROVE  SentAtMostOnce' /\ WaitingIsNotSent'
<1>1. Shape /\ MessagesAreBorn /\ SentAtMostOnce /\ WaitingIsNotSent
  BY DEF IInv
<1>2. SentAtMostOnce'
  <2>1. ASSUME NEW j \in 1 .. Len(sends'), NEW k \in 1 .. Len(sends'), sends'[j].m = sends'[k].m
        PROVE  j = k
    <3>1. CASE j \in 1 .. Len(sends) /\ sends'[j] = sends[j]
               /\ k \in 1 .. Len(sends) /\ sends'[k] = sends[k]
      BY <1>1, <2>1, <3>1 DEF SentAtMostOnce
    <3> QED
      BY <2>1, <3>1, SendsGrow DEF GivenNow
  <2> QED
    BY <2>1 DEF SentAtMostOnce
<1>3. ASSUME NEW i \in Position', NEW k \in 1 .. Len(sends')
      PROVE  stack'[i].waiting # sends'[k].m
  <2>1. CASE k \in 1 .. Len(sends) /\ sends'[k] = sends[k]
    <3>1. sends[k].m \in Born /\ sends[k].m # NoMessage
      BY <1>1, <2>1 DEF MessagesAreBorn, Born, NoMessage
    <3>2. CASE OldView(i)
      BY <1>1, <2>1, <3>1, <3>2 DEF OldView, FreshText, WaitingIsNotSent
    <3>3. CASE NewView(i)
      BY <2>1, <3>1, <3>3 DEF NewView
    <3> QED
      BY <3>2, <3>3 DEF Stays, ViewsStay
  <2>2. ASSUME NEW n \in Position, GivenNow(sends'[k].m, n)
        PROVE  stack'[i].waiting # sends'[k].m
    BY <2>2 DEF GivenNow
  <2> QED
    BY <2>1, <2>2, SendsGrow
<1> QED
  BY <1>2, <1>3 DEF WaitingIsNotSent

-----------------------------------------------------------------------------
(* No message is missed: one that the visible chat does not show after a   *)
(* step was on its way before it, or has just been stored and announced.   *)
Misses(m) ==
  LET top == stack'[Len(stack')]
  IN  /\ stack' # <<>> /\ top.loaded
      /\ m \in ToSet(messages') /\ born'[m].peer = peerOf'[top.conn] /\ m \notin top.shown
      /\ m \notin erased'

Comes(m) ==
  \/ \E t \in Thread : adding'[t].m = m
  \/ \E q \in Closures' : q.kind = "added" /\ q.to = stack'[Len(stack')].id /\ q.m = m

TopKept ==
  LET n == Len(stack)
  IN  /\ Len(stack') = n
      /\ n \in Position => stack'[n].loaded = stack[n].loaded /\ stack[n].shown \subseteq stack'[n].shown

LEMMA MissesBefore ==
  ASSUME IInv, Stays, TopKept, NEW m, Misses(m)
  PROVE  LET n == Len(stack)
         IN  /\ stack # <<>> /\ n \in Position /\ Len(stack') = n /\ stack'[n].id = Top.id
             /\ PeerOfView(n) = born'[m].peer
             /\ m \in ToSet(messages) => m \in Born /\
                  \/ \E t \in Thread : adding[t].m = m
                  \/ \E q \in Closures : q.kind = "added" /\ q.to = Top.id /\ q.m = m
<1> DEFINE n == Len(stack)
<1>1. Shape /\ ViewsInOrder /\ MessagesAreBorn /\ NoMessageIsMissed /\ n \in Nat /\ Len(stack') = n
  BY StackShape DEF IInv, TopKept
<1>2. stack' # <<>> /\ stack' \in Seq(ChatView)
  BY DEF Misses, Stays, ViewsStay
<1>3. n \in Position /\ n \in Position' /\ stack # <<>>
  BY <1>1, <1>2, EmptySeq, StackShape DEF Position
<1>4. OldView(n)
  BY <1>1, <1>3 DEF Stays, ViewsStay, NewView
<1>5. Top = stack[n] /\ PeerOfView(n) = peerOf[Top.conn]
  BY <1>1, <1>3, TopOfStack
<1>6. stack'[n].id = Top.id /\ peerOf'[stack'[n].conn] = PeerOfView(n)
  BY <1>4, <1>5 DEF OldView
<1>7. PeerOfView(n) = born'[m].peer /\ Top.loaded /\ m \notin Top.shown
  BY <1>1, <1>3, <1>5, <1>6 DEF Misses, TopKept
<1>8. ASSUME m \in ToSet(messages)
      PROVE  /\ m \in Born
             /\ \/ \E t \in Thread : adding[t].m = m
                \/ \E q \in Closures : q.kind = "added" /\ q.to = Top.id /\ q.m = m
  <2>1. m \in Born /\ born'[m] = born[m]
    BY <1>1, <1>8, BornGrows DEF MessagesAreBorn
  <2>2. m \in (MessagesOf(peerOf[Top.conn]) \ Top.shown) \ erased
    BY <1>5, <1>7, <1>8, <2>1 DEF MessagesOf, Misses, Stays, StoredStay
  <2> QED
    BY <1>1, <1>3, <1>7, <2>1, <2>2 DEF NoMessageIsMissed, Closures
<1> QED
  BY <1>1, <1>3, <1>6, <1>7, <1>8

(* The view on top is the same, and nothing is stored: what was on its way *)
(* still is.                                                               *)
LEMMA StillComes ==
  ASSUME IInv, Stays, TopKept, NEW m, Misses(m), ToSet(messages') \subseteq ToSet(messages),
         \A t \in Thread : adding[t] # Idle => adding'[t].m = adding[t].m,
         \A q \in Closures : q.kind = "added" => q \in Closures'
  PROVE  Comes(m)
<1>1. m \in ToSet(messages)
  BY DEF Misses
<1>2. /\ Len(stack') = Len(stack) /\ stack'[Len(stack)].id = Top.id /\ m \in Born
      /\ \/ \E t \in Thread : adding[t].m = m
         \/ \E q \in Closures : q.kind = "added" /\ q.to = Top.id /\ q.m = m
  BY <1>1, MissesBefore
<1>3. m # Idle.m
  BY <1>2 DEF Idle, NoMessage, Born
<1> QED
  BY <1>2, <1>3 DEF Comes

(* The same when the main thread begins to add a message.                  *)
LEMMA AddStarted ==
  ASSUME Shape, NEW m, adding["main"] = Idle, AddStarts(m)
  PROVE  \A t \in Thread : adding[t] # Idle => adding'[t].m = adding[t].m
  BY DEF AddStarts, AddBegins, Shape

LEMMA MissedComes ==
  ASSUME IInv, [Next]_vars, NEW m, Misses(m)
  PROVE  Comes(m)
<1>0. /\ Shape /\ ViewsInOrder /\ MessagesAreBorn /\ Stays /\ mainQueue \in Seq(Queued)
      /\ Len(stack) \in Nat
  BY EverythingStays, StackShape DEF IInv, Shape
<1>1. stack' = stack => TopKept
  BY DEF TopKept
<1>2. ASSUME NEW i \in Position, SameButConnAndWaiting(i) PROVE TopKept
  BY <1>2 DEF TopKept, SameButConnAndWaiting
<1>3. ASSUME NEW c \in Conn, Show(c) PROVE FALSE
  <2>1. /\ Len(stack') = Len(stack) + 1
        /\ stack'[Len(stack) + 1] =
             [id |-> chats + 1, conn |-> c, waiting |-> NoMessage,
              shown |-> {}, loaded |-> FALSE, button |-> FALSE]
    BY <1>0, <1>3, ShowPushes
  <2>2. ~stack'[Len(stack) + 1].loaded
    BY <2>1
  <2> QED
    BY <2>1, <2>2 DEF Misses
<1>4. CASE Routes
  <2>1. Closures \subseteq Closures' /\ stack' = stack /\ messages' = messages /\ adding' = adding
    BY <1>0, <1>4, RoutesQueue, RoutesCalls DEF views, storage
  <2> QED
    BY <1>0, <1>1, <2>1, StillComes
<1>5. ASSUME NEW c \in Conn, Receive(c) PROVE Comes(m)
  <2>1. messages' = messages /\ mainQueue' = mainQueue /\ stack' = stack
    BY <1>5 DEF Receive, views
  <2>2. \A t \in Thread : adding[t] # Idle => adding'[t].m = adding[t].m
    BY <1>0, <1>5 DEF Receive, LibraryIsFree, AddBegins, Shape
  <2> QED
    BY <1>0, <1>1, <2>1, <2>2, StillComes DEF Closures
<1>6. ASSUME NEW t \in Thread, AddReads(t) \/ AddWrites(t) PROVE Comes(m)
  <2>1. mainQueue' = mainQueue /\ stack' = stack
    BY <1>6 DEF AddReads, AddWrites, views
  <2>2. \A u \in Thread : adding'[u].m = adding[u].m
    <3>1. CASE AddReads(t)
      <4> DEFINE a == [adding[t] EXCEPT !.stage = "write", !.base = messages]
      <4>1. adding' = [adding EXCEPT ![t] = a] /\ adding \in [Thread -> Add]
        BY <1>0, <3>1 DEF AddReads, Shape
      <4>2. a.m = adding[t].m
        BY <4>1 DEF Add
      <4> HIDE DEF a
      <4> QED
        BY <4>1, <4>2
    <3>2. CASE AddWrites(t)
      <4> DEFINE a == [adding[t] EXCEPT !.stage = "notify", !.base = <<>>]
      <4>1. adding' = [adding EXCEPT ![t] = a] /\ adding \in [Thread -> Add]
        BY <1>0, <3>2 DEF AddWrites, Shape
      <4>2. a.m = adding[t].m
        BY <4>1 DEF Add
      <4> HIDE DEF a
      <4> QED
        BY <4>1, <4>2
    <3> QED
      BY <1>6, <3>1, <3>2
  <2>3. CASE AddReads(t)
    <3>1. messages' = messages
      BY <2>3 DEF AddReads
    <3> QED
      BY <1>0, <1>1, <2>1, <2>2, <3>1, StillComes DEF Closures
  <2>4. CASE AddWrites(t)
    <3>1. /\ adding[t].stage = "write" /\ messages' = Append(adding[t].base, adding[t].m)
          /\ adding[t].base \in Seq(Nat) /\ adding[t].m \in Nat
      BY <1>0, <2>4 DEF AddWrites, Shape, Add
    <3>2. ToSet(messages') = ToSet(adding[t].base) \union {adding[t].m}
      BY <3>1, AppendElements
    <3>3. CASE m = adding[t].m
      BY <2>2, <3>3 DEF Comes
    <3>4. CASE m # adding[t].m
      <4>1. m \in ToSet(messages) \union erased
        BY <1>0, <3>1, <3>2, <3>4 DEF Misses, MessagesAreBorn
      <4>2. m \notin erased
        BY <1>0 DEF Misses, Stays, StoredStay
      <4> QED
        BY <1>0, <1>1, <2>1, <2>2, <4>1, <4>2, MissesBefore DEF Comes, Closures
    <3> QED
      BY <3>3, <3>4
  <2> QED
    BY <1>6, <2>3, <2>4
<1>7. ASSUME NEW t \in Thread, AddNotifies(t) PROVE Comes(m)
  <2> DEFINE a == Announcement(adding[t].m, born[adding[t].m].peer)
  <2>1. /\ mainQueue' = mainQueue \o a /\ messages' = messages /\ stack' = stack
        /\ born' = born /\ adding[t].m \in Nat
        /\ \A u \in Thread : u # t => adding'[u] = adding[u]
    BY <1>0, <1>7 DEF AddNotifies, views, Shape, Add
  <2>2. /\ stack # <<>> /\ stack'[Len(stack')].id = Top.id /\ PeerOfView(Len(stack)) = born[m].peer
        /\ \/ \E u \in Thread : adding[u].m = m
           \/ \E q \in Closures : q.kind = "added" /\ q.to = Top.id /\ q.m = m
    BY <1>0, <1>1, <2>1, MissesBefore DEF Misses
  <2>3. delegate = Top.id
    BY <1>0, <2>1, <2>2, DelegateIsThere DEF Misses
  <2>4. /\ a \in Seq(Queued)
        /\ adding[t].m = m => \E q \in ToSet(a) : q.kind = "added" /\ q.m = m /\ q.to = Top.id
    BY <1>0, <2>1, <2>2, <2>3, AnnouncementQueued
  <2> HIDE DEF a
  <2>5. Closures' = Closures \union ToSet(a)
    BY <1>0, <2>1, <2>4, ConcatElements DEF Closures
  <2> QED
    BY <2>1, <2>2, <2>4, <2>5 DEF Comes
<1>8. ASSUME NEW p \in Peer, SelectPeer(p) PROVE Comes(m)
  <2>1. stack' = stack
    BY <1>3, <1>8 DEF SelectPeer
  <2>2. messages' = messages /\ mainQueue' = mainQueue /\ adding' = adding
    BY <1>8 DEF SelectPeer, storage
  <2> QED
    BY <1>0, <1>1, <2>1, <2>2, StillComes DEF Closures
<1>9. CASE TypeMessage
  <2>1. /\ Len(stack) \in Position /\ SameButConnAndWaiting(Len(stack))
        /\ AddStarts(Len(born')) /\ adding["main"] = Idle
        /\ messages' = messages /\ mainQueue' = mainQueue
    BY <1>9, TextTyped
  <2> QED
    BY <1>0, <1>2, <2>1, AddStarted, StillComes DEF Closures
<1>10. CASE PressReconnect
  <2>1. /\ Len(stack) \in Position /\ SameButConnAndWaiting(Len(stack))
        /\ messages' = messages /\ mainQueue' = mainQueue /\ adding' = adding
    BY <1>10, ReconnectPressed DEF storage
  <2> QED
    BY <1>0, <1>2, <2>1, StillComes DEF Closures
<1>11. CASE LoadMessages
  <2> DEFINE n == Len(stack)
             p == PeerOfView(n)
  <2>1. /\ n \in Position /\ Len(stack') = n /\ stack'[n].conn = stack[n].conn
        /\ stack'[n].shown = MessagesOf(p) /\ UNCHANGED peerOf /\ messages' = messages
    BY <1>0, <1>11, MessagesLoaded DEF calls
  <2>2. born'[m].peer = p /\ m \notin MessagesOf(p) /\ m \in ToSet(messages)
    BY <2>1 DEF Misses, PeerOfView
  <2>3. born'[m] = born[m]
    BY <1>0, <2>2, BornGrows DEF MessagesAreBorn
  <2> QED
    BY <2>2, <2>3 DEF MessagesOf
<1>12. CASE AddMessage
  <2>1. /\ Len(stack') = Len(stack)
        /\ \A i \in Position :
             /\ stack'[i].loaded = stack[i].loaded /\ stack[i].shown \subseteq stack'[i].shown
             /\ stack[i].id = Closure.to => Closure.m \in stack'[i].shown
        /\ messages' = messages /\ adding' = adding
        /\ Closures = Closures' \union {Closure}
    BY <1>0, <1>12, MessageAdded DEF storage
  <2>2. TopKept
    BY <2>1 DEF TopKept
  <2>3. /\ stack # <<>> /\ Len(stack) \in Position /\ stack'[Len(stack)].id = Top.id
        /\ \/ \E t \in Thread : adding[t].m = m
           \/ \E q \in Closures : q.kind = "added" /\ q.to = Top.id /\ q.m = m
    BY <1>0, <2>1, <2>2, MissesBefore DEF Misses
  <2>4. ~(Closure.to = Top.id /\ Closure.m = m)
    BY <1>0, <2>1, <2>3, TopOfStack DEF Misses
  <2> QED
    BY <2>1, <2>3, <2>4 DEF Comes
<1>13. ASSUME NEW i \in Position, Resends(i) PROVE Comes(m)
  <2>1. /\ SameButConnAndWaiting(i) /\ AddStarts(stack[i].waiting) /\ adding["main"] = Idle
        /\ messages' = messages /\ mainQueue' = Tail(mainQueue) /\ Takes("connected")
    BY <1>13, TextResent
  <2>2. \A q \in Closures : q.kind = "added" => q \in Closures'
    BY <1>0, <2>1, ClosureTaken DEF Closures
  <2> QED
    BY <1>0, <1>2, <2>1, <2>2, AddStarted, StillComes
<1>14. CASE SwitchesButton
  <2>1. /\ TopKept /\ messages' = messages /\ adding' = adding
        /\ mainQueue' = Tail(mainQueue)
    BY <1>14 DEF SwitchesButton, TopKept, storage
  <2>2. \A q \in Closures : q.kind = "added" => q \in Closures'
    <3>1. PICK kind \in {"connected", "disconnected", "notAvailable"} : Takes(kind)
      BY <1>14 DEF SwitchesButton
    <3> QED
      BY <1>0, <2>1, <3>1, ClosureTaken DEF Closures
  <2> QED
    BY <1>0, <2>1, <2>2, StillComes
<1>15. CASE ListShows
  BY <1>0, <1>3, <1>15 DEF ListShows, Shape
<1>16. CASE Pops
  <2>1. /\ Len(stack') = Len(stack) - 1 /\ stack' \in Seq(ChatView)
        /\ \A i \in Position' : stack'[i].loaded = (stack[i].loaded /\ i # Len(stack) - 1)
    BY <1>0, <1>16, PopDrops DEF Pops
  <2>2. Len(stack') \in Position'
    BY <2>1, EmptySeq DEF Misses, Position
  <2> QED
    BY <2>1, <2>2 DEF Misses
<1>17. CASE UNCHANGED vars \/ Appears
  BY <1>0, <1>1, <1>17, StillComes DEF vars, Appears, views, storage, Closures
<1> QED
  BY <1>0, <1>4, <1>5, <1>6, <1>7, <1>8, <1>9, <1>10, <1>11, <1>12, <1>13, <1>14, <1>15, <1>16,
     <1>17, StepKinds

LEMMA NothingIsMissed ==
  ASSUME IInv, [Next]_vars
  PROVE  NoMessageIsMissed'
<1>1. ASSUME stack' # <<>>, Top'.loaded, NEW m \in MessagesOf(peerOf[Top.conn])', m \notin Top'.shown,
             m \notin erased'
      PROVE  \/ \E t \in Thread : adding'[t].m = m
             \/ \E q \in ToSet(mainQueue') : q.kind = "added" /\ q.to = Top'.id /\ q.m = m
  <2>1. Top' = stack'[Len(stack')]
    BY DEF Top, Last
  <2>2. Misses(m)
    BY <1>1, <2>1 DEF Misses, MessagesOf
  <2>3. Comes(m)
    BY <2>2, MissedComes
  <2> QED
    BY <2>1, <2>3 DEF Comes, Closures
<1> QED
  BY <1>1 DEF NoMessageIsMissed

-----------------------------------------------------------------------------
(* The invariant holds initially and is preserved.                         *)
LEMMA InvInit == Init => IInv
<1> SUFFICES ASSUME Init PROVE IInv
  OBVIOUS
<1>1. (CHOOSE p \in Peer : TRUE) \in Peer
  BY PeerAssumption
<1>2. Shape
  BY <1>1 DEF Init, Shape, Add, Idle, NoConn, NoMessage
<1>3. Position = {} /\ Closures = {} /\ ToSet(messages) = {} /\ 1 .. Len(sends) = {}
  BY NoElements DEF Init, Position, Closures
<1>4. /\ stack = <<>> /\ waitingConnection = NoConn /\ delegate = 0 /\ chats = 0
      /\ erased = {} /\ \A t \in Thread : adding[t].stage = "idle"
  BY DEF Init, Idle
<1>5. MessagesAreBorn /\ ViewsInOrder /\ ConnectionsInUse /\ WaitingAndQueued
  BY <1>3, <1>4 DEF MessagesAreBorn, ViewsInOrder, ConnectionsInUse, WaitingAndQueued
<1>6. PeersAreKeptApart /\ SentAtMostOnce /\ WaitingIsNotSent
  BY <1>3 DEF PeersAreKeptApart, SentToItsPeer, ShowsItsPeerOnly, ChatsAreChosen,
              SentAtMostOnce, WaitingIsNotSent, Position
<1>7. NoMessageIsMissed
  BY <1>4 DEF NoMessageIsMissed
<1> QED
  BY <1>2, <1>5, <1>6, <1>7 DEF IInv

LEMMA InvStep ==
  ASSUME IInv, [Next]_vars
  PROVE  IInv'
<1>1. Stays
  BY EverythingStays
<1> QED
  BY <1>1, ShapeStays, MessagesStayBorn, ViewsStayInOrder, ConnectionsStayInUse, PeersStayApart,
     QueuedStaysOfPeer, SendsStaySingle, NothingIsMissed DEF IInv

(* Views, closures, messages and connections fit together between any two  *)
(* steps of the two threads: the invariant the other theorems follow from. *)
THEOREM InvariantHolds == Spec => []IInv
<1>1. IInv /\ [Next]_vars => IInv'
  BY InvStep
<1> QED
  BY <1>1, InvInit, PTL DEF Spec

-----------------------------------------------------------------------------
(* Every variable keeps its type: connections, messages and views refer to *)
(* ones there are, and only the view on top may be appearing or hold a     *)
(* waiting text, whatever the two threads do.                              *)
THEOREM ChatTyped == Spec => []TypeOK
<1>1. IInv => TypeOK
  <2> SUFFICES ASSUME IInv PROVE TypeOK
    OBVIOUS
  <2>1. Shape /\ MessagesAreBorn /\ ViewsInOrder
    BY DEF IInv
  <2>2. \A i \in 1 .. Len(stack) : stack[i].id \in 1 .. chats /\ stack[i].conn \in Conn
    BY <2>1, StackShape DEF ViewsInOrder, Position, Shape
  <2>3. \A k \in 1 .. Len(mainQueue) :
          mainQueue[k].kind \in {"connected", "disconnected", "notAvailable", "added"}
    <3>1. \A k \in 1 .. Len(mainQueue) : mainQueue[k] \in Queued
      BY <2>1, ElementOfSeq DEF Shape
    <3> QED
      BY <3>1 DEF Queued, Kind
  <2>4. /\ \A t \in Thread : adding[t].stage \in {"idle", "read", "write", "notify"}
        /\ delegate \in 0 .. chats
    BY <2>1 DEF Shape, Add, ViewsInOrder
  <2> QED
    BY <2>1, <2>2, <2>3, <2>4 DEF TypeOK, Shape, MessagesAreBorn, ViewsInOrder, Position, Born
<1> QED
  BY <1>1, InvariantHolds, PTL

(* A message is given to the library at most once, however often sending   *)
(* fails, the peer reconnects and the waiting text is sent again.          *)
THEOREM MessagesSentOnce == Spec => []SentAtMostOnce
<1>1. IInv => SentAtMostOnce
  BY DEF IInv
<1> QED
  BY <1>1, InvariantHolds, PTL

(* No message goes to or is shown with another peer than its own, and no   *)
(* chat is with a peer the user did not choose, though views change their  *)
(* connections and closures come late.                                     *)
THEOREM NoPeerIsMistaken == Spec => []PeersAreKeptApart
<1>1. IInv => PeersAreKeptApart
  BY DEF IInv
<1> QED
  BY <1>1, InvariantHolds, PTL

(* The visible chat misses no stored message of its peer, whichever of its *)
(* loading and the library's thread came first.                            *)
THEOREM VisibleChatComplete == Spec => []NoMessageIsMissed
<1>1. IInv => NoMessageIsMissed
  BY DEF IInv
<1> QED
  BY <1>1, InvariantHolds, PTL
=============================================================================
