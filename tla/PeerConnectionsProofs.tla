------------------------ MODULE PeerConnectionsProofs -----------------------
(***************************************************************************)
(* Proofs about PeerConnections, for every set of peers, every set of      *)
(* connection ids and all bounds: what the client has of a connection is   *)
(* right while calls come and go, fail, are closed and revoked.            *)
(***************************************************************************)
EXTENDS PeerConnections, SequenceTheorems, TLAPS

(* Calls are counted up, ids in use are different calls, and a call yet to *)
(* come has no history.                                                    *)
CallsAreCounted == \A c \in Conn : call[c] <= calls
CallsAreDistinct == \A c, d \in Conn : call[c] = call[d] /\ call[c] # 0 => c = d
FutureIsBlank ==
  \A n \in 1 .. MaxCalls : n > calls => handled[n] = <<>> /\ arrived[n] = <<>>

(* What is handled of a call is a beginning of what arrived.               *)
HandledFirst == \A n \in 1 .. MaxCalls : IsPrefix(handled[n], arrived[n])

(* A connection that is not open has neither callback nor packets, and     *)
(* only one with a stranger is without a pairing; at an open one the packets not yet handled wait.            *)
Consistent(c) ==
  /\ armed[c] <=> state[c] = "open" /\ ~deaf[c]
  /\ deaf[c] => state[c] = "open" /\ handled[call[c]] = <<>>
  /\ state[c] # "open" => inbox[c] = <<>>
  /\ state[c] = "calling" => handled[call[c]] = <<>> /\ arrived[call[c]] = <<>>
  /\ state[c] = "open" => handled[call[c]] \o inbox[c] = arrived[call[c]]
  /\ state[c] = "open" /\ ~stranger[c] => peer[c] \in paired

IInv ==
  /\ TypeOK
  /\ CallsAreCounted /\ CallsAreDistinct /\ FutureIsBlank /\ HandledFirst
  /\ \A c \in Conn : Consistent(c)

USE PeerAssumption, BoundAssumption

-----------------------------------------------------------------------------
(* What the library frees is clean, and well typed.                        *)
LEMMA ReleaseTypes ==
  ASSUME TypeOK, NEW C \in SUBSET Conn, Release(C)
  PROVE  /\ state' \in [Conn -> {"free", "calling", "open"}]
         /\ peer' \in [Conn -> Peer \union {NoPeer}]
         /\ call' \in [Conn -> 0 .. MaxCalls]
         /\ protocol' \in [Conn -> Protocol]
         /\ stranger' \in [Conn -> BOOLEAN]
         /\ armed' \in [Conn -> BOOLEAN]
         /\ deaf' \in [Conn -> BOOLEAN]
         /\ inbox' \in [Conn -> Seq(Packet)]
         /\ shown' \in [Conn -> 0 .. MaxCalls]
         /\ \A c \in Conn : state'[c] = "free" <=> call'[c] = 0
         /\ \A c \in Conn : state'[c] = "free" <=> peer'[c] = NoPeer
<1> USE DEF TypeOK
<1>1. /\ state' \in [Conn -> {"free", "calling", "open"}]
      /\ peer' \in [Conn -> Peer \union {NoPeer}]
      /\ call' \in [Conn -> 0 .. MaxCalls]
      /\ shown' \in [Conn -> 0 .. MaxCalls]
  BY DEF Release
<1>2. /\ protocol' \in [Conn -> Protocol]
      /\ inbox' \in [Conn -> Seq(Packet)]
  <2>1. <<>> \in Seq(Packet)
    OBVIOUS
  <2> QED
    BY <2>1 DEF Release, Protocol
<1>3. /\ stranger' \in [Conn -> BOOLEAN]
      /\ armed' \in [Conn -> BOOLEAN]
      /\ deaf' \in [Conn -> BOOLEAN]
  BY Zenon DEF Release
<1>4. /\ \A c \in Conn : state'[c] = "free" <=> call'[c] = 0
      /\ \A c \in Conn : state'[c] = "free" <=> peer'[c] = NoPeer
  BY DEF Release
<1> QED
  BY <1>1, <1>2, <1>3, <1>4

(* A new call gets a free id and the next number.                          *)
LEMMA NewCallTypes ==
  ASSUME TypeOK, NEW c \in Conn, NEW p \in Peer, NEW proto \in Protocol,
         NEW st \in {"calling", "open"}, NewCall(c, p, proto, st)
  PROVE  /\ state' \in [Conn -> {"free", "calling", "open"}]
         /\ peer' \in [Conn -> Peer \union {NoPeer}]
         /\ call' \in [Conn -> 0 .. MaxCalls]
         /\ protocol' \in [Conn -> Protocol]
         /\ calls' \in 0 .. MaxCalls
         /\ \A d \in Conn : state'[d] = "free" <=> call'[d] = 0
         /\ \A d \in Conn : state'[d] = "free" <=> peer'[d] = NoPeer
<1>1. calls + 1 \in 1 .. MaxCalls /\ calls' = calls + 1
  BY DEF NewCall, TypeOK
<1> QED
  BY <1>1 DEF NewCall, TypeOK

(* The callback that reports a connection leaves well-typed flags.         *)
LEMMA RoutingTypes ==
  ASSUME TypeOK, NEW c \in Conn, NEW n \in 0 .. MaxCalls, RoutingConnected(c, n)
  PROVE  /\ armed' \in [Conn -> BOOLEAN]
         /\ deaf' \in [Conn -> BOOLEAN]
         /\ shown' \in [Conn -> 0 .. MaxCalls]
<1>1. PICK success \in BOOLEAN :
        /\ armed' = [armed EXCEPT ![c] = success]
        /\ deaf' = [deaf EXCEPT ![c] = ~success]
  BY DEF RoutingConnected
<1>2. armed' \in [Conn -> BOOLEAN] /\ deaf' \in [Conn -> BOOLEAN]
  BY <1>1 DEF TypeOK
<1>3. shown' \in [Conn -> 0 .. MaxCalls]
  BY DEF RoutingConnected, TypeOK
<1> QED
  BY <1>2, <1>3

(* Every step keeps the types.                                             *)
LEMMA TypeStep == TypeOK /\ [Next]_vars => TypeOK'
<1> SUFFICES ASSUME TypeOK, [Next]_vars PROVE TypeOK'
  OBVIOUS
<1> USE DEF user, history, link
<1>1. ASSUME NEW c \in Conn, NEW p \in Peer, NEW proto \in Protocol, NEW local \in BOOLEAN,
             PlaceCall(c, p, proto, local)
      PROVE  TypeOK'
  <2>1. NewCall(c, p, proto, "calling") /\ UNCHANGED <<armed, deaf, shown>>
    BY <1>1 DEF PlaceCall
  <2>2. stranger' \in [Conn -> BOOLEAN]
    BY <1>1 DEF PlaceCall, TypeOK
  <2> QED
    BY <2>1, <2>2, NewCallTypes DEF NewCall, TypeOK
<1>2. ASSUME NEW c \in Conn, CallIsAnswered(c) PROVE TypeOK'
  <2>1. RoutingConnected(c, call[c]) /\ call[c] \in 0 .. MaxCalls
    BY <1>2 DEF CallIsAnswered, TypeOK
  <2>2. /\ state[c] = "calling"
        /\ state' = [state EXCEPT ![c] = "open"]
        /\ UNCHANGED <<peer, call, protocol, inbox, calls, paired, apMode,
                       aim, sent, history, toggles>>
    BY <1>2 DEF CallIsAnswered
  <2>3. stranger' \in [Conn -> BOOLEAN]
    <3>1. stranger' = [stranger EXCEPT ![c] = peer[c] \notin paired]
      BY <1>2 DEF CallIsAnswered
    <3>2. (peer[c] \notin paired) \in BOOLEAN
      OBVIOUS
    <3> QED
      BY <3>1, <3>2, Zenon DEF TypeOK
  <2> QED
    BY <2>1, <2>2, <2>3, RoutingTypes DEF TypeOK
<1>3. ASSUME NEW C \in SUBSET Conn, Release(C), aim' \in [conn : Conn, call : 1 .. MaxCalls] \union {NoAim},
             paired' \in SUBSET Peer, toggles' \in 0 .. MaxToggles,
             handled' \in [1 .. MaxCalls -> Seq(Packet)],
             UNCHANGED <<calls, apMode, sent, arrived>>
      PROVE  TypeOK'
  BY <1>3, ReleaseTypes DEF TypeOK
<1>4. ASSUME NEW c \in Conn, CallFails(c) PROVE TypeOK'
  BY <1>4, <1>3 DEF CallFails, TypeOK
<1>5. ASSUME NEW c \in Conn, NEW p \in Peer, NEW proto \in Protocol,
             IncomingCall(c, p, proto)
      PROVE  TypeOK'
  <2>1. /\ NewCall(c, p, proto, "open")
        /\ stranger' = [stranger EXCEPT ![c] = p \notin paired]
        /\ RoutingConnected(c, calls + 1)
    BY <1>5 DEF IncomingCall
  <2>2. calls + 1 \in 0 .. MaxCalls
    BY <2>1 DEF NewCall, TypeOK
  <2>3. stranger' \in [Conn -> BOOLEAN]
    <3>1. (p \notin paired) \in BOOLEAN
      OBVIOUS
    <3> QED
      BY <2>1, <3>1, Zenon DEF TypeOK
  <2> QED
    BY <2>1, <2>2, <2>3, NewCallTypes, RoutingTypes DEF NewCall, TypeOK
<1>6. ASSUME NEW c \in Conn, NEW d \in Packet, PeerSends(c, d) PROVE TypeOK'
  <2>1. inbox' \in [Conn -> Seq(Packet)]
    BY <1>6 DEF PeerSends, TypeOK
  <2>2. arrived' \in [1 .. MaxCalls -> Seq(Packet)]
    <3>1. call[c] \in 1 .. MaxCalls
      BY <1>6 DEF PeerSends, TypeOK
    <3>2. Append(arrived[call[c]], d) \in Seq(Packet)
      BY <3>1 DEF TypeOK
    <3>3. arrived' = [arrived EXCEPT ![call[c]] = Append(arrived[call[c]], d)]
      BY <1>6 DEF PeerSends
    <3> QED
      BY <3>1, <3>2, <3>3 DEF TypeOK
  <2> QED
    BY <1>6, <2>1, <2>2 DEF PeerSends, TypeOK
<1>7. ASSUME NEW c \in Conn, DataReceived(c) PROVE TypeOK'
  <2>1. /\ UNCHANGED <<calls, paired, apMode, aim, sent, arrived, toggles>>
        /\ \/ handled' = [handled EXCEPT ![call[c]] = Append(@, Head(inbox[c]))]
           \/ handled' = handled
        /\ inbox[c] # <<>>
    BY <1>7 DEF DataReceived
  <2>2. handled' \in [1 .. MaxCalls -> Seq(Packet)]
    <3>1. Append(handled[call[c]], Head(inbox[c])) \in Seq(Packet)
          \/ call[c] \notin 1 .. MaxCalls
      BY <2>1 DEF TypeOK
    <3> QED
      BY <2>1, <3>1 DEF TypeOK
  <2>3. CASE Release({c})
    BY <2>1, <2>2, <2>3, <1>3 DEF TypeOK
  <2>4. CASE /\ inbox' = [inbox EXCEPT ![c] = Tail(@)]
             /\ armed' = [armed EXCEPT ![c] = TRUE]
             /\ UNCHANGED <<state, peer, call, protocol, stranger, deaf, shown>>
    <3>1. inbox' \in [Conn -> Seq(Packet)]
      BY <2>1, <2>4 DEF TypeOK
    <3>2. armed' \in [Conn -> BOOLEAN]
      BY <2>4 DEF TypeOK
    <3> QED
      BY <2>1, <2>2, <2>4, <3>1, <3>2 DEF TypeOK
  <2> QED
    BY <1>7, <2>3, <2>4 DEF DataReceived
<1>8. ASSUME NEW c \in Conn, PeerDisconnects(c) PROVE TypeOK'
  BY <1>8, <1>3 DEF PeerDisconnects, TypeOK
<1>9. ASSUME NEW c \in Conn, ReadConsole(c) PROVE TypeOK'
  <2>1. shown[c] \in 1 .. MaxCalls
    BY <1>9 DEF ReadConsole, TypeOK
  <2>2. aim' \in [conn : Conn, call : 1 .. MaxCalls]
    BY <1>9, <2>1 DEF ReadConsole
  <2> QED
    BY <1>9, <2>2 DEF ReadConsole, TypeOK
<1>10. NoAim.conn \in Conn
  BY DEF NoAim
<1>11. ASSUME SendCommand PROVE TypeOK'
  <2>1. sent' \in (0 .. MaxCalls) \X (0 .. MaxCalls)
    <3>1. CASE state[aim.conn] = "open"
      <4>1. sent' = <<aim.call, call[aim.conn]>>
        BY <1>11, <3>1 DEF SendCommand
      <4>2. aim \in [conn : Conn, call : 1 .. MaxCalls]
        BY <1>11 DEF SendCommand, TypeOK
      <4>3. call[aim.conn] \in 1 .. MaxCalls
        BY <3>1, <4>2 DEF TypeOK
      <4> QED
        BY <4>1, <4>2, <4>3 DEF TypeOK
    <3>2. CASE state[aim.conn] # "open"
      BY <1>11, <3>2 DEF SendCommand, TypeOK
    <3> QED
      BY <3>1, <3>2
  <2> QED
    BY <1>11, <2>1 DEF SendCommand, TypeOK
<1>12. ASSUME CloseCommand PROVE TypeOK'
  <2> DEFINE C == {c \in {aim.conn} : state[c] # "free"}
  <2>1. C \in SUBSET Conn
    BY <1>10 DEF TypeOK
  <2>2. /\ Release(C) /\ aim' = NoAim
        /\ UNCHANGED <<calls, paired, apMode, sent, history, toggles>>
    BY <1>12 DEF CloseCommand
  <2> QED
    BY <1>3, <2>1, <2>2 DEF TypeOK
<1>13. ASSUME ApModeCommand PROVE TypeOK'
  <2>1. /\ toggles' \in 0 .. MaxToggles /\ apMode' \in BOOLEAN
        /\ UNCHANGED <<link, calls, paired, user, history>>
    BY <1>13 DEF ApModeCommand, Toggle, TypeOK
  <2> QED
    BY <2>1 DEF TypeOK
<1>14. ASSUME NEW p \in Peer, RevokeCommand(p) PROVE TypeOK'
  <2>1. PICK C \in SUBSET {c \in Conn : peer[c] = p} : Release(C)
    BY <1>14 DEF RevokeCommand
  <2>2. /\ C \in SUBSET Conn
        /\ paired' \in SUBSET Peer /\ toggles' \in 0 .. MaxToggles
        /\ UNCHANGED <<calls, apMode, aim, sent, history>>
    BY <1>14 DEF RevokeCommand, Toggle, TypeOK
  <2> QED
    BY <1>3, <2>1, <2>2 DEF TypeOK
<1>15. ASSUME NEW p \in Peer, PairingCompletes(p) PROVE TypeOK'
  <2>1. /\ toggles' \in 0 .. MaxToggles /\ paired' \in SUBSET Peer
        /\ UNCHANGED <<link, calls, apMode, user, history>>
    BY <1>15 DEF PairingCompletes, Toggle, TypeOK
  <2> QED
    BY <2>1 DEF TypeOK
<1>16. CASE UNCHANGED vars
  BY <1>16 DEF vars, TypeOK
<1> QED
  BY <1>1, <1>2, <1>4, <1>5, <1>6, <1>7, <1>8, <1>9, <1>11, <1>12, <1>13,
     <1>14, <1>15, <1>16
  DEF Next, Library, User

LEMMA InitTypeOK == Init => TypeOK
<1> SUFFICES ASSUME Init PROVE TypeOK
  OBVIOUS
<1>1. <<>> \in Seq(Packet) /\ 0 \in 0 .. MaxCalls /\ 0 \in 0 .. MaxToggles
  OBVIOUS
<1>2. /\ inbox \in [Conn -> Seq(Packet)]
      /\ arrived \in [1 .. MaxCalls -> Seq(Packet)]
      /\ handled \in [1 .. MaxCalls -> Seq(Packet)]
  BY <1>1 DEF Init
<1>3. /\ state \in [Conn -> {"free", "calling", "open"}]
      /\ peer \in [Conn -> Peer \union {NoPeer}]
      /\ protocol \in [Conn -> Protocol]
  BY DEF Init, Protocol
<1>4. /\ call \in [Conn -> 0 .. MaxCalls] /\ shown \in [Conn -> 0 .. MaxCalls]
      /\ calls \in 0 .. MaxCalls /\ toggles \in 0 .. MaxToggles
  BY <1>1 DEF Init
<1>5. /\ \A c \in Conn : state[c] = "free" <=> call[c] = 0
      /\ \A c \in Conn : state[c] = "free" <=> peer[c] = NoPeer
  BY DEF Init
<1> QED
  BY <1>2, <1>3, <1>4, <1>5 DEF Init, TypeOK

(* Every reachable state is well typed, and free ids are clean.            *)
THEOREM TypeCorrect == Spec => []TypeOK
  BY InitTypeOK, TypeStep, PTL DEF Spec

-----------------------------------------------------------------------------
(* Handling the packet in front of a queue moves it over.                  *)
LEMMA HeadMoves ==
  ASSUME NEW S, NEW h \in Seq(S), NEW q \in Seq(S), q # <<>>
  PROVE  Append(h, Head(q)) \o Tail(q) = h \o q
<1>1. /\ Head(q) \in S /\ Tail(q) \in Seq(S) /\ q = <<Head(q)>> \o Tail(q)
      /\ <<Head(q)>> \in Seq(S)
  BY HeadTailProperties, ConcatProperties
<1>2. Append(h, Head(q)) = h \o <<Head(q)>>
  BY <1>1, AppendIsConcat
<1>3. (h \o <<Head(q)>>) \o Tail(q) = h \o (<<Head(q)>> \o Tail(q))
  BY <1>1, ConcatAssociative
<1> QED
  BY <1>1, <1>2, <1>3

LEMMA AppendMoves ==
  ASSUME NEW S, NEW h \in Seq(S), NEW q \in Seq(S), NEW e \in S
  PROVE  h \o Append(q, e) = Append(h \o q, e)
<1>1. /\ Append(q, e) = q \o <<e>> /\ Append(h \o q, e) = (h \o q) \o <<e>>
      /\ <<e>> \in Seq(S)
  BY AppendIsConcat, ConcatProperties
<1> QED
  BY <1>1, ConcatAssociative

LEMMA PrefixOfConcat ==
  ASSUME NEW S, NEW h \in Seq(S), NEW q \in Seq(S)
  PROVE  IsPrefix(h, h \o q)
<1>1. /\ h \o q \in Seq(S) /\ Len(h \o q) = Len(h) + Len(q)
      /\ \A i \in 1 .. Len(h) : (h \o q)[i] = h[i]
      /\ Len(h) \in Nat /\ Len(q) \in Nat
  BY ConcatProperties, LenProperties
<1>2. SubSeq(h, 1, Len(h)) = SubSeq(h \o q, 1, Len(h))
  BY <1>1
<1> QED
  BY <1>1, <1>2 DEF IsPrefix

LEMMA PrefixOfAppend ==
  ASSUME NEW S, NEW h \in Seq(S), NEW a \in Seq(S), NEW e \in S, IsPrefix(h, a)
  PROVE  IsPrefix(h, Append(a, e))
<1>1. /\ Len(Append(a, e)) = Len(a) + 1
      /\ \A i \in 1 .. Len(h) : Append(a, e)[i] = a[i]
      /\ Len(h) \in Nat /\ Len(a) \in Nat /\ Len(h) <= Len(a)
  BY LenProperties, AppendProperties DEF IsPrefix
<1>2. SubSeq(Append(a, e), 1, Len(h)) = SubSeq(a, 1, Len(h))
  BY <1>1
<1> QED
  BY <1>1, <1>2 DEF IsPrefix

-----------------------------------------------------------------------------
(* What does not change about a connection stays consistent.               *)
LEMMA Untouched ==
  ASSUME NEW c \in Conn, Consistent(c),
         state'[c] = state[c], peer'[c] = peer[c], call'[c] = call[c],
         stranger'[c] = stranger[c], armed'[c] = armed[c], deaf'[c] = deaf[c],
         inbox'[c] = inbox[c],
         state[c] # "free" => /\ handled'[call[c]] = handled[call[c]]
                              /\ arrived'[call[c]] = arrived[call[c]],
         state[c] = "open" /\ peer[c] \in paired => peer[c] \in paired'
  PROVE  Consistent(c)'
<1>1. /\ armed'[c] <=> state'[c] = "open" /\ ~deaf'[c]
      /\ deaf'[c] => state'[c] = "open" /\ handled'[call'[c]] = <<>>
      /\ state'[c] # "open" => inbox'[c] = <<>>
  BY DEF Consistent
<1>2. /\ state'[c] = "calling" => handled'[call'[c]] = <<>> /\ arrived'[call'[c]] = <<>>
      /\ state'[c] = "open" => handled'[call'[c]] \o inbox'[c] = arrived'[call'[c]]
      /\ state'[c] = "open" /\ ~stranger'[c] => peer'[c] \in paired'
  BY DEF Consistent
<1> QED
  BY <1>1, <1>2 DEF Consistent

(* Connections that are freed are consistent, and leave the others alone.  *)
LEMMA ReleaseKeeps ==
  ASSUME IInv, TypeOK', NEW C \in SUBSET Conn, Release(C),
         UNCHANGED <<calls, arrived>>, HandledFirst',
         \A c \in Conn \ C : state[c] # "free" => handled'[call[c]] = handled[call[c]],
         \A n \in 1 .. MaxCalls : n > calls => handled'[n] = handled[n],
         \A c \in Conn \ C : state[c] = "open" /\ peer[c] \in paired => peer[c] \in paired'
  PROVE  IInv'
<1>1. /\ call' = [c \in Conn |-> IF c \in C THEN 0 ELSE call[c]]
      /\ call \in [Conn -> 0 .. MaxCalls] /\ calls \in 0 .. MaxCalls
  BY DEF Release, IInv, TypeOK
<1>2. CallsAreCounted'
  BY <1>1 DEF IInv, CallsAreCounted
<1>3. CallsAreDistinct'
  BY <1>1 DEF IInv, CallsAreDistinct
<1>4. FutureIsBlank'
  BY <1>1 DEF IInv, FutureIsBlank
<1>5. ASSUME NEW c \in Conn PROVE Consistent(c)'
  <2>1. CASE c \in C
    BY <2>1 DEF Release, Consistent
  <2>2. CASE c \notin C
    <3>1. /\ state'[c] = state[c] /\ peer'[c] = peer[c] /\ call'[c] = call[c]
          /\ stranger'[c] = stranger[c] /\ armed'[c] = armed[c] /\ deaf'[c] = deaf[c]
          /\ inbox'[c] = inbox[c]
      BY <2>2 DEF Release
    <3> QED
      BY <2>2, <3>1, Untouched DEF IInv
  <2> QED
    BY <2>1, <2>2
<1> QED
  BY <1>2, <1>3, <1>4, <1>5 DEF IInv

(* A first receive that is asked for, or fails, fits a new connection.     *)
LEMMA RoutingFits ==
  ASSUME TypeOK, NEW c \in Conn, NEW n, RoutingConnected(c, n)
  PROVE  /\ armed'[c] <=> ~deaf'[c]
         /\ \A d \in Conn \ {c} : armed'[d] = armed[d] /\ deaf'[d] = deaf[d]
<1>1. PICK success \in BOOLEAN :
        /\ armed' = [armed EXCEPT ![c] = success]
        /\ deaf' = [deaf EXCEPT ![c] = ~success]
  BY DEF RoutingConnected
<1> QED
  BY <1>1 DEF TypeOK

(* A new call has a number and no history.                                 *)
LEMMA NewCallFits ==
  ASSUME IInv, NEW c \in Conn, NEW p \in Peer, NEW proto \in Protocol,
         NEW st \in {"calling", "open"}, NewCall(c, p, proto, st)
  PROVE  /\ CallsAreCounted' /\ CallsAreDistinct' /\ FutureIsBlank' /\ HandledFirst'
         /\ state[c] = "free" /\ state'[c] = st /\ peer'[c] = p /\ inbox'[c] = <<>>
         /\ handled'[call'[c]] = <<>> /\ arrived'[call'[c]] = <<>>
         /\ \A d \in Conn \ {c} :
              /\ state'[d] = state[d] /\ call'[d] = call[d] /\ peer'[d] = peer[d]
              /\ handled'[call[d]] = handled[call[d]] /\ arrived'[call[d]] = arrived[call[d]]
         /\ UNCHANGED <<inbox, paired>>
<1>1. /\ state[c] = "free" /\ calls + 1 \in 1 .. MaxCalls /\ calls' = calls + 1
      /\ call' = [call EXCEPT ![c] = calls + 1] /\ calls + 1 > calls
      /\ call \in [Conn -> 0 .. MaxCalls] /\ calls \in 0 .. MaxCalls
      /\ UNCHANGED <<inbox, paired, handled, arrived>>
  BY DEF NewCall, IInv, TypeOK, history
<1>2. /\ state' = [state EXCEPT ![c] = st] /\ peer' = [peer EXCEPT ![c] = p]
      /\ state'[c] = st /\ peer'[c] = p
      /\ \A d \in Conn \ {c} : state'[d] = state[d] /\ peer'[d] = peer[d]
  BY DEF NewCall, IInv, TypeOK
<1>3. call'[c] = calls + 1 /\ \A d \in Conn \ {c} : call'[d] = call[d]
  BY <1>1
<1>4. inbox'[c] = <<>>
  BY <1>1 DEF IInv, Consistent
<1>5. handled'[calls + 1] = <<>> /\ arrived'[calls + 1] = <<>>
  BY <1>1 DEF IInv, FutureIsBlank
<1>6. CallsAreCounted'
  <2> SUFFICES ASSUME NEW d \in Conn PROVE call'[d] <= calls'
    BY DEF CallsAreCounted
  <2>1. call[d] <= calls /\ call[d] \in Nat /\ calls \in Nat
    BY <1>1 DEF IInv, CallsAreCounted
  <2> QED
    BY <1>1, <1>3, <2>1
<1>7. CallsAreDistinct'
  <2> SUFFICES ASSUME NEW d \in Conn, NEW e \in Conn, call'[d] = call'[e], call'[d] # 0
               PROVE  d = e
    BY DEF CallsAreDistinct
  <2>1. /\ call[d] <= calls /\ call[d] \in Nat /\ call[e] <= calls /\ call[e] \in Nat
        /\ calls \in Nat
    BY <1>1 DEF IInv, CallsAreCounted
  <2>2. CASE d # c /\ e # c
    BY <1>3, <2>2 DEF IInv, CallsAreDistinct
  <2>3. CASE d = c \/ e = c
    BY <1>3, <2>1, <2>3
  <2> QED
    BY <2>2, <2>3
<1>8. FutureIsBlank'
  BY <1>1 DEF IInv, FutureIsBlank
<1>9. HandledFirst'
  BY <1>1 DEF IInv, HandledFirst
<1> QED
  BY <1>1, <1>2, <1>3, <1>4, <1>5, <1>6, <1>7, <1>8, <1>9

(* Every step keeps the invariant.                                         *)
LEMMA InvStep == IInv /\ [Next]_vars => IInv'
<1> SUFFICES ASSUME IInv, [Next]_vars PROVE IInv'
  OBVIOUS
<1>0. TypeOK /\ TypeOK'
  BY TypeStep DEF IInv
<1> USE <1>0 DEF user, history, link
<1>1. /\ state \in [Conn -> {"free", "calling", "open"}]
      /\ call \in [Conn -> 0 .. MaxCalls] /\ calls \in 0 .. MaxCalls
      /\ inbox \in [Conn -> Seq(Packet)]
      /\ arrived \in [1 .. MaxCalls -> Seq(Packet)]
      /\ handled \in [1 .. MaxCalls -> Seq(Packet)]
      /\ \A c \in Conn : state[c] = "free" <=> call[c] = 0
  BY DEF TypeOK
<1>2. ASSUME NEW c \in Conn, NEW p \in Peer, NEW proto \in Protocol, NEW local \in BOOLEAN,
             PlaceCall(c, p, proto, local)
      PROVE  IInv'
  <2>1. /\ NewCall(c, p, proto, "calling") /\ UNCHANGED <<armed, deaf, shown>>
        /\ \A d \in Conn \ {c} : stranger'[d] = stranger[d]
    BY <1>2 DEF PlaceCall, TypeOK
  <2>2. Consistent(c)'
    <3>1. ~deaf[c] /\ ~armed[c]
      BY <2>1, NewCallFits DEF IInv, Consistent
    <3> QED
      BY <2>1, <3>1, NewCallFits DEF Consistent
  <2>3. ASSUME NEW d \in Conn, d # c PROVE Consistent(d)'
    BY <2>1, <2>3, NewCallFits, Untouched DEF IInv
  <2> QED
    BY <2>1, <2>2, <2>3, NewCallFits DEF IInv
<1>3. ASSUME NEW c \in Conn, CallIsAnswered(c) PROVE IInv'
  <2>1. /\ RoutingConnected(c, call[c])
        /\ state[c] = "calling"
        /\ state' = [state EXCEPT ![c] = "open"]
        /\ stranger' = [stranger EXCEPT ![c] = peer[c] \notin paired]
        /\ UNCHANGED <<peer, call, protocol, inbox, calls, paired, apMode,
                       aim, sent, history, toggles>>
    BY <1>3 DEF CallIsAnswered
  <2>2. CallsAreCounted' /\ CallsAreDistinct' /\ FutureIsBlank' /\ HandledFirst'
    BY <2>1 DEF IInv, CallsAreCounted, CallsAreDistinct, FutureIsBlank, HandledFirst
  <2>3. state'[c] = "open" /\ \A d \in Conn \ {c} : state'[d] = state[d]
    BY <1>1, <2>1
  <2>6. /\ stranger'[c] = (peer[c] \notin paired)
        /\ \A d \in Conn \ {c} : stranger'[d] = stranger[d]
    BY <2>1, Zenon DEF TypeOK
  <2>4. Consistent(c)'
    <3>1. /\ handled[call[c]] = <<>> /\ arrived[call[c]] = <<>> /\ inbox[c] = <<>>
      BY <2>1 DEF IInv, Consistent
    <3>2. handled'[call'[c]] \o inbox'[c] = arrived'[call'[c]]
      BY <2>1, <3>1
    <3>3. ~stranger'[c] => peer'[c] \in paired'
      BY <2>1, <2>6
    <3> QED
      BY <2>1, <2>3, <3>1, <3>2, <3>3, RoutingFits DEF Consistent
  <2>5. ASSUME NEW d \in Conn, d # c PROVE Consistent(d)'
    BY <2>1, <2>3, <2>5, <2>6, RoutingFits, Untouched DEF IInv
  <2> QED
    BY <2>2, <2>4, <2>5 DEF IInv
<1>4. ASSUME NEW C \in SUBSET Conn, Release(C), UNCHANGED <<calls, history>>,
             \A c \in Conn \ C : state[c] = "open" /\ peer[c] \in paired => peer[c] \in paired'
      PROVE  IInv'
  <2>1. HandledFirst'
    BY <1>4 DEF IInv, HandledFirst
  <2> QED
    BY <1>4, <2>1, ReleaseKeeps
<1>5. ASSUME NEW c \in Conn, CallFails(c) \/ PeerDisconnects(c) PROVE IInv'
  BY <1>4, <1>5 DEF CallFails, PeerDisconnects
<1>6. ASSUME NEW c \in Conn, NEW p \in Peer, NEW proto \in Protocol,
             IncomingCall(c, p, proto)
      PROVE  IInv'
  <2>1. /\ NewCall(c, p, proto, "open") /\ (apMode \/ p \in paired)
        /\ stranger' = [stranger EXCEPT ![c] = p \notin paired]
        /\ RoutingConnected(c, calls + 1)
    BY <1>6 DEF IncomingCall, Verified
  <2>2. /\ stranger'[c] = (p \notin paired)
        /\ \A d \in Conn \ {c} : stranger'[d] = stranger[d]
    BY <2>1, Zenon DEF TypeOK
  <2>3. Consistent(c)'
    <3>1. handled'[call'[c]] \o inbox'[c] = arrived'[call'[c]]
      <4>1. handled'[call'[c]] = <<>> /\ inbox'[c] = <<>> /\ arrived'[call'[c]] = <<>>
        BY <2>1, NewCallFits
      <4>2. <<>> \o <<>> = <<>>
        OBVIOUS
      <4> QED
        BY <4>1, <4>2
    <3>2. /\ state'[c] = "open" /\ peer'[c] = p /\ paired' = paired
          /\ handled'[call'[c]] = <<>>
      BY <2>1, NewCallFits
    <3>3. ~stranger'[c] => peer'[c] \in paired'
      BY <2>2, <3>2
    <3> QED
      BY <2>1, <3>1, <3>2, <3>3, RoutingFits DEF Consistent
  <2>4. ASSUME NEW d \in Conn, d # c PROVE Consistent(d)'
    <3>1. /\ state'[d] = state[d] /\ call'[d] = call[d] /\ peer'[d] = peer[d]
          /\ handled'[call[d]] = handled[call[d]] /\ arrived'[call[d]] = arrived[call[d]]
          /\ UNCHANGED <<inbox, paired>>
      BY <2>1, <2>4, NewCallFits
    <3> QED
      BY <2>1, <2>2, <2>4, <3>1, RoutingFits, Untouched DEF IInv
  <2> QED
    BY <2>1, <2>3, <2>4, NewCallFits DEF IInv
<1>7. ASSUME NEW c \in Conn, NEW d \in Packet, PeerSends(c, d) PROVE IInv'
  <2> DEFINE n == call[c]
  <2>1. /\ state[c] = "open" /\ n \in 1 .. MaxCalls
        /\ inbox' = [inbox EXCEPT ![c] = Append(inbox[c], d)]
        /\ arrived' = [arrived EXCEPT ![n] = Append(arrived[n], d)]
        /\ UNCHANGED <<state, peer, call, protocol, stranger, armed, deaf, calls,
                       paired, apMode, user, handled, toggles>>
    BY <1>1, <1>7 DEF PeerSends
  <2>2. n <= calls /\ \A e \in Conn : e # c => call[e] # n
    BY <1>1, <2>1 DEF IInv, CallsAreCounted, CallsAreDistinct
  <2>3. /\ inbox'[c] = Append(inbox[c], d) /\ arrived'[n] = Append(arrived[n], d)
        /\ inbox[c] \in Seq(Packet) /\ arrived[n] \in Seq(Packet)
        /\ handled[n] \in Seq(Packet)
        /\ \A m \in 1 .. MaxCalls : m # n => arrived'[m] = arrived[m]
        /\ \A e \in Conn : e # c => inbox'[e] = inbox[e]
    BY <1>1, <2>1
  <2>4. CallsAreCounted' /\ CallsAreDistinct'
    BY <2>1 DEF IInv, CallsAreCounted, CallsAreDistinct
  <2>5. FutureIsBlank'
    <3> SUFFICES ASSUME NEW m \in 1 .. MaxCalls, m > calls
                 PROVE  handled'[m] = <<>> /\ arrived'[m] = <<>>
      BY <2>1 DEF FutureIsBlank
    <3>1. m # n
      BY <1>1, <2>1, <2>2
    <3> QED
      BY <2>1, <2>3, <3>1 DEF IInv, FutureIsBlank
  <2>6. HandledFirst'
    <3>1. IsPrefix(handled[n], arrived[n])
      BY <2>1 DEF IInv, HandledFirst
    <3>2. IsPrefix(handled[n], Append(arrived[n], d))
      BY <2>3, <3>1, PrefixOfAppend
    <3> QED
      BY <2>1, <2>3, <3>2 DEF IInv, HandledFirst
  <2>7. Consistent(c)'
    <3>1. handled[n] \o inbox[c] = arrived[n]
      BY <2>1 DEF IInv, Consistent
    <3>2. handled[n] \o Append(inbox[c], d) = Append(handled[n] \o inbox[c], d)
      <4>1. \A h, q \in Seq(Packet) : h \o Append(q, d) = Append(h \o q, d)
        BY AppendMoves
      <4> QED
        BY <2>3, <4>1
    <3>3. handled'[call'[c]] \o inbox'[c] = arrived'[call'[c]]
      BY <2>1, <2>3, <3>1, <3>2
    <3>4. Consistent(c)
      BY DEF IInv
    <3> QED
      BY <2>1, <3>3, <3>4 DEF Consistent
  <2>8. ASSUME NEW e \in Conn, e # c PROVE Consistent(e)'
    <3>1. state[e] # "free" => arrived'[call[e]] = arrived[call[e]]
      <4> SUFFICES ASSUME state[e] # "free" PROVE arrived'[call[e]] = arrived[call[e]]
        OBVIOUS
      <4>1. call[e] # n
        BY <2>2, <2>8
      <4>2. call[e] \in 0 .. MaxCalls /\ call[e] # 0
        BY <1>1, <2>8
      <4>3. call[e] \in 1 .. MaxCalls
        BY <4>2, BoundAssumption
      <4> QED
        BY <2>3, <4>1, <4>3
    <3> QED
      BY <2>1, <2>3, <2>8, <3>1, Untouched DEF IInv
  <2> QED
    BY <2>4, <2>5, <2>6, <2>7, <2>8 DEF IInv
<1>8. ASSUME NEW c \in Conn, DataReceived(c),
             handled' = [handled EXCEPT ![call[c]] = Append(@, Head(inbox[c]))]
      PROVE  IInv'
  <2> DEFINE n == call[c]
  <2>1. /\ armed[c] /\ inbox[c] # <<>>
        /\ handled' = [handled EXCEPT ![n] = Append(handled[n], Head(inbox[c]))]
        /\ UNCHANGED <<calls, paired, apMode, aim, sent, arrived, toggles>>
    BY <1>8 DEF DataReceived
  <2>2. state[c] = "open" /\ ~deaf[c] /\ handled[n] \o inbox[c] = arrived[n]
    BY <2>1 DEF IInv, Consistent
  <2>3. n \in 1 .. MaxCalls /\ n <= calls /\ \A e \in Conn : e # c => call[e] # n
    BY <1>1, <2>2 DEF IInv, CallsAreCounted, CallsAreDistinct
  <2>4. /\ handled'[n] = Append(handled[n], Head(inbox[c]))
        /\ \A m \in 1 .. MaxCalls : m # n => handled'[m] = handled[m]
        /\ handled[n] \in Seq(Packet) /\ inbox[c] \in Seq(Packet)
    BY <1>1, <2>1, <2>3
  <2>5. /\ Head(inbox[c]) \in Packet /\ Tail(inbox[c]) \in Seq(Packet)
        /\ handled'[n] \in Seq(Packet)
    BY <2>1, <2>4, HeadTailProperties
  <2>6. handled'[n] \o Tail(inbox[c]) = arrived[n]
    <3>1. Append(handled[n], Head(inbox[c])) \o Tail(inbox[c]) = handled[n] \o inbox[c]
      BY <2>1, <2>4, HeadMoves
    <3> QED
      BY <2>2, <2>4, <3>1
  <2>7. HandledFirst'
    <3>1. IsPrefix(handled'[n], handled'[n] \o Tail(inbox[c]))
      BY <2>5, PrefixOfConcat
    <3>2. IsPrefix(handled'[n], arrived[n])
      BY <2>6, <3>1
    <3> QED
      BY <2>1, <2>4, <3>2 DEF IInv, HandledFirst
  <2>8. \A e \in Conn \ {c} : state[e] # "free" => handled'[call[e]] = handled[call[e]]
    <3> SUFFICES ASSUME NEW e \in Conn \ {c}, state[e] # "free"
                 PROVE  handled'[call[e]] = handled[call[e]]
      OBVIOUS
    <3>1. call[e] # n
      BY <2>3
    <3>2. call[e] \in 0 .. MaxCalls /\ call[e] # 0
      BY <1>1
    <3>3. call[e] \in 1 .. MaxCalls
      BY <3>2, BoundAssumption
    <3> QED
      BY <2>4, <3>1, <3>3
  <2>9. \A m \in 1 .. MaxCalls : m > calls => handled'[m] = handled[m]
    BY <1>1, <2>3, <2>4
  <2>10. CASE Release({c})
    BY <2>1, <2>7, <2>8, <2>9, <2>10, ReleaseKeeps
  <2>11. CASE /\ inbox' = [inbox EXCEPT ![c] = Tail(@)]
              /\ armed' = [armed EXCEPT ![c] = TRUE]
              /\ UNCHANGED <<state, peer, call, protocol, stranger, deaf, shown>>
    <3>1. CallsAreCounted' /\ CallsAreDistinct'
      BY <2>1, <2>11 DEF IInv, CallsAreCounted, CallsAreDistinct
    <3>2. FutureIsBlank'
      BY <2>1, <2>9 DEF IInv, FutureIsBlank
    <3>3. /\ inbox'[c] = Tail(inbox[c]) /\ armed'[c] = TRUE
          /\ \A e \in Conn \ {c} : inbox'[e] = inbox[e] /\ armed'[e] = armed[e]
      BY <2>11 DEF TypeOK
    <3>4. Consistent(c)'
      <4>1. handled'[call'[c]] \o inbox'[c] = arrived'[call'[c]]
        BY <2>1, <2>6, <2>11, <3>3
      <4>2. Consistent(c)
        BY DEF IInv
      <4> QED
        BY <2>1, <2>2, <2>11, <3>3, <4>1, <4>2 DEF Consistent
    <3>5. ASSUME NEW e \in Conn, e # c PROVE Consistent(e)'
      BY <2>1, <2>8, <2>11, <3>3, <3>5, Untouched DEF IInv
    <3> QED
      BY <2>7, <3>1, <3>2, <3>4, <3>5 DEF IInv
  <2> QED
    BY <1>8, <2>10, <2>11 DEF DataReceived
<1>17. ASSUME NEW c \in Conn, DataReceived(c), Release({c}), handled' = handled
       PROVE  IInv'
  BY <1>4, <1>17 DEF DataReceived
<1>18. ASSUME NEW c \in Conn, DataReceived(c) PROVE IInv'
  <2>1. \/ handled' = [handled EXCEPT ![call[c]] = Append(@, Head(inbox[c]))]
        \/ Release({c}) /\ handled' = handled
    BY <1>18 DEF DataReceived
  <2> QED
    BY <1>8, <1>17, <1>18, <2>1
<1>9. ASSUME UNCHANGED <<link, calls, history>>, paired \subseteq paired'
      PROVE  IInv'
  <2>1. CallsAreCounted' /\ CallsAreDistinct' /\ FutureIsBlank' /\ HandledFirst'
    BY <1>9 DEF IInv, CallsAreCounted, CallsAreDistinct, FutureIsBlank, HandledFirst
  <2>2. ASSUME NEW c \in Conn PROVE Consistent(c)'
    BY <1>9, Untouched DEF IInv
  <2> QED
    BY <2>1, <2>2 DEF IInv
<1>10. ASSUME NEW c \in Conn, ReadConsole(c) PROVE IInv'
  BY <1>9, <1>10 DEF ReadConsole
<1>11. CASE SendCommand
  BY <1>9, <1>11 DEF SendCommand
<1>12. CASE CloseCommand
  <2> DEFINE C == {c \in {aim.conn} : state[c] # "free"}
  <2>1. C \in SUBSET Conn
    <3>1. NoAim.conn \in Conn
      BY DEF NoAim
    <3> QED
      BY <3>1 DEF TypeOK
  <2>2. Release(C) /\ UNCHANGED <<calls, paired, history>>
    BY <1>12 DEF CloseCommand
  <2> QED
    BY <1>4, <2>1, <2>2
<1>13. CASE ApModeCommand
  BY <1>9, <1>13 DEF ApModeCommand
<1>14. ASSUME NEW p \in Peer, RevokeCommand(p) PROVE IInv'
  <2>1. PICK C \in SUBSET {c \in Conn : peer[c] = p} :
          /\ \A c \in Conn : peer[c] = p /\ state[c] = "open" => c \in C
          /\ Release(C)
    BY <1>14 DEF RevokeCommand
  <2>3. paired' = paired \ {p} /\ UNCHANGED <<calls, history>>
    BY <1>14 DEF RevokeCommand
  <2>2. \A c \in Conn \ C : state[c] = "open" /\ peer[c] \in paired => peer[c] \in paired'
    BY <2>1, <2>3
  <2> QED
    BY <1>4, <2>1, <2>2, <2>3
<1>15. ASSUME NEW p \in Peer, PairingCompletes(p) PROVE IInv'
  BY <1>9, <1>15 DEF PairingCompletes
<1>16. CASE UNCHANGED vars
  BY <1>9, <1>16 DEF vars
<1> QED
  BY <1>2, <1>3, <1>5, <1>6, <1>7, <1>18, <1>10, <1>11, <1>12, <1>13, <1>14,
     <1>15, <1>16
  DEF Next, Library, User

LEMMA InitIInv == Init => IInv
<1> SUFFICES ASSUME Init PROVE IInv
  OBVIOUS
<1>1. CallsAreCounted /\ CallsAreDistinct /\ FutureIsBlank
  BY DEF Init, CallsAreCounted, CallsAreDistinct, FutureIsBlank
<1>2. \A c \in Conn : Consistent(c)
  BY DEF Init, Consistent
<1>3. HandledFirst
  <2>1. IsPrefix(<<>>, <<>>)
    BY DEF IsPrefix
  <2> QED
    BY <2>1 DEF Init, HandledFirst
<1> QED
  BY <1>1, <1>2, <1>3, InitTypeOK DEF IInv

(* The invariant holds in every reachable state.                           *)
THEOREM InvariantHolds == Spec => []IInv
  BY InitIInv, InvStep, PTL DEF Spec

(* An open connection has a receive callback, unless the console has said  *)
(* that the first receive failed.                                          *)
THEOREM ReceiveIsRenewed == Spec => []OpenIsArmed
<1>1. IInv => OpenIsArmed
  BY DEF IInv, Consistent, OpenIsArmed
<1> QED
  BY <1>1, InvariantHolds, PTL

(* No connection that was made with a paired peer outlives the pairing.    *)
THEOREM NoneOutlivesPairing == Spec => []PairedStayPaired
<1>1. IInv => PairedStayPaired
  BY DEF IInv, Consistent, PairedStayPaired
<1> QED
  BY <1>1, InvariantHolds, PTL

(* Packets of a call are handled in their order, none twice and none of    *)
(* another call.                                                           *)
THEOREM HandledInOrder == Spec => []PacketsInOrder
<1>1. IInv => PacketsInOrder
  BY DEF IInv, HandledFirst, Consistent, PacketsInOrder
<1> QED
  BY <1>1, InvariantHolds, PTL
=============================================================================
