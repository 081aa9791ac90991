--------------------------- MODULE PeerConnections --------------------------
(***************************************************************************)
(* Connections to other peers as the demo client uses them: the commands   *)
(* that place calls, send, close, revoke and set AP mode, on the input     *)
(* thread, and the callbacks mdguser_incoming_call, mdguser_routing and    *)
(* chatclient_data_received, on a thread of the MDG library.  The library  *)
(* holds its mutex from before a callback until after it, and takes it in  *)
(* every API function, so a callback or an API call is one step here; what *)
(* can come in between is what happens between two API calls of the user.  *)
(*                                                                         *)
(* The library's table of connections is external.  It follows the API     *)
(* document: an id is reused once its connection is gone, one call of      *)
(* mdg_receive_from_peer lets one packet in, a local call may reach a peer *)
(* that is not paired, and a revocation drops the peer's connections.  A   *)
(* call number tells the uses of an id apart.                              *)
(***************************************************************************)
EXTENDS Naturals, Sequences, SequencesExt

CONSTANTS
  Peer,           \* the peers the user and the library name
  NoPeer,         \* the peer of an unused connection id
  Conn,           \* the connection ids
  MaxCalls,       \* bound: calls placed and received
  MaxPackets,     \* bound: packets a peer sends in one call
  MaxToggles      \* bound: AP mode changes, pairings and revocations

ASSUME PeerAssumption == NoPeer \notin Peer /\ Conn # {}
ASSUME BoundAssumption ==
  MaxCalls \in Nat /\ MaxPackets \in Nat /\ MaxToggles \in Nat

VARIABLES
  state,      \* library: each id is "free", "calling" or "open"
  peer,       \* library: the peer at its other end
  call,       \* library: which of all calls uses it
  protocol,   \* library: the protocol it was called with
  stranger,   \* library: a call on its way is a local one, so that its peer need
              \* not be paired; history: an open one was made with such a peer
  armed,      \* library: a receive callback is registered
  deaf,       \* history: the console said that the first receive failed
  inbox,      \* library: packets of the peer not yet delivered
  calls,      \* history: how many calls there have been
  paired,     \* library: the peers it finds in the pairing storage
  apMode,     \* ap_mode; the verifying callback is accept_all_peers
  shown,      \* which call the console showed last as connected on each id
  aim,        \* the call the user has read off the console, and its id
  sent,       \* history: <<call meant, call reached>> of the last message
  arrived,    \* history: what peers sent, per call
  handled,    \* history: what the client handled, per call
  toggles     \* counts the bounded commands

link == <<state, peer, call, protocol, stranger, armed, deaf, inbox>>
user == <<shown, aim, sent>>
history == <<arrived, handled>>
vars == <<link, calls, paired, apMode, user, history, toggles>>

Protocol == {"chat-client", "wifibootstrap"}

(* A packet has the size of mdgdemo_wifi_bootstrap_info or another.        *)
Packet == {"wifi_info", "other"}

NoAim == [conn |-> CHOOSE c \in Conn : TRUE, call |-> 0]

Init ==
  /\ state = [c \in Conn |-> "free"]
  /\ peer = [c \in Conn |-> NoPeer]
  /\ call = [c \in Conn |-> 0]
  /\ protocol = [c \in Conn |-> "chat-client"]
  /\ stranger = [c \in Conn |-> FALSE]
  /\ armed = [c \in Conn |-> FALSE]
  /\ deaf = [c \in Conn |-> FALSE]
  /\ inbox = [c \in Conn |-> <<>>]
  /\ calls = 0
  /\ paired \in SUBSET Peer
  /\ apMode = FALSE
  /\ shown = [c \in Conn |-> 0]
  /\ aim = NoAim
  /\ sent = <<0, 0>>
  /\ arrived = [n \in 1 .. MaxCalls |-> <<>>]
  /\ handled = [n \in 1 .. MaxCalls |-> <<>>]
  /\ toggles = 0

-----------------------------------------------------------------------------
(* The callbacks, as changes of the state they are called in.              *)

RoutingUnarmed(c, n) ==
  /\ UNCHANGED <<armed, deaf>>
  /\ shown' = [shown EXCEPT ![c] = n]

(* mdguser_routing(c, connected) prints, and asks for the first packet; a  *)
(* failure of mdg_receive_from_peer is printed and otherwise ignored.      *)
RoutingConnected(c, n) ==
  /\ \E success \in BOOLEAN :
       /\ armed' = [armed EXCEPT ![c] = success]
       /\ deaf' = [deaf EXCEPT ![c] = ~success]
  /\ shown' = [shown EXCEPT ![c] = n]

(* The library frees ids, and mdguser_routing prints that they are gone.   *)
Release(C) ==
  /\ state' = [c \in Conn |-> IF c \in C THEN "free" ELSE state[c]]
  /\ peer' = [c \in Conn |-> IF c \in C THEN NoPeer ELSE peer[c]]
  /\ call' = [c \in Conn |-> IF c \in C THEN 0 ELSE call[c]]
  /\ protocol' = [c \in Conn |-> IF c \in C THEN "chat-client" ELSE protocol[c]]
  /\ stranger' = [c \in Conn |-> IF c \in C THEN FALSE ELSE stranger[c]]
  /\ armed' = [c \in Conn |-> IF c \in C THEN FALSE ELSE armed[c]]
  /\ deaf' = [c \in Conn |-> IF c \in C THEN FALSE ELSE deaf[c]]
  /\ inbox' = [c \in Conn |-> IF c \in C THEN <<>> ELSE inbox[c]]
  /\ shown' = [c \in Conn |-> IF c \in C THEN 0 ELSE shown[c]]

-----------------------------------------------------------------------------
(* Calls out and in.                                                       *)
NewCall(c, p, proto, st) ==
  /\ state[c] = "free"
  /\ calls < MaxCalls
  /\ calls' = calls + 1
  /\ state' = [state EXCEPT ![c] = st]
  /\ peer' = [peer EXCEPT ![c] = p]
  /\ call' = [call EXCEPT ![c] = calls + 1]
  /\ protocol' = [protocol EXCEPT ![c] = proto]
  /\ UNCHANGED <<inbox, paired, apMode, aim, sent, history, toggles>>

(* place_call_remote_handler, place_call_local_handler: the library picks  *)
(* a free id and works on the call in the background.                      *)
PlaceCall(c, p, proto, local) ==
  /\ NewCall(c, p, proto, "calling")
  /\ stranger' = [stranger EXCEPT ![c] = local]
  /\ UNCHANGED <<armed, deaf, shown>>

(* A remote call needs a paired peer; a local one also reaches a device    *)
(* that takes calls of strangers, one in AP mode.                          *)
CallIsAnswered(c) ==
  /\ state[c] = "calling"
  /\ stranger[c] \/ peer[c] \in paired
  /\ state' = [state EXCEPT ![c] = "open"]
  /\ stranger' = [stranger EXCEPT ![c] = peer[c] \notin paired]
  /\ RoutingConnected(c, call[c])
  /\ UNCHANGED <<peer, call, protocol, inbox, calls, paired, apMode,
                 aim, sent, history, toggles>>

CallFailsHalfway(c) ==
  /\ state[c] = "calling"
  /\ state' = [state EXCEPT ![c] = "free"]
  /\ UNCHANGED <<peer, call, protocol, stranger, armed, deaf, inbox, calls,
                 paired, apMode, user, history, toggles>>

(* Rejected, not available, not paired, or the place-call timeout.         *)
CallFails(c) ==
  /\ state[c] = "calling"
  /\ Release({c})
  /\ UNCHANGED <<calls, paired, apMode, aim, sent, history, toggles>>

(* The verifying callback decides, then mdguser_incoming_call, which       *)
(* always accepts, perhaps after a delay with the mutex held.              *)
Verified(p) == apMode \/ p \in paired

IncomingCall(c, p, proto) ==
  /\ Verified(p)
  /\ NewCall(c, p, proto, "open")
  /\ stranger' = [stranger EXCEPT ![c] = p \notin paired]
  /\ RoutingConnected(c, calls + 1)

-----------------------------------------------------------------------------
(* Data from the peers.                                                    *)
PeerSends(c, d) ==
  /\ state[c] = "open"
  /\ Len(arrived[call[c]]) < MaxPackets
  /\ inbox' = [inbox EXCEPT ![c] = Append(@, d)]
  /\ arrived' = [arrived EXCEPT ![call[c]] = Append(@, d)]
  /\ UNCHANGED <<state, peer, call, protocol, stranger, armed, deaf, calls,
                 paired, apMode, user, handled, toggles>>

(* The handler compares MAX_PROTOCOL_BYTES bytes of a shorter literal, so  *)
(* a bootstrap connection may or may not be recognised; a chat connection  *)
(* never is one.                                                           *)
IsBootstrap(c) == IF protocol[c] = "wifibootstrap" THEN BOOLEAN ELSE {FALSE}

(* chatclient_data_received: mdg_get_connection_info may fail, and the     *)
(* bootstrap handler refuses what has not its size; if the packet was      *)
(* handled, ask for the next; if any of this went wrong, close.            *)
DataPeeked(c) ==
  /\ armed[c] /\ inbox[c] # <<>>
  /\ handled' = [handled EXCEPT ![call[c]] = Append(@, Head(inbox[c]))]
  /\ UNCHANGED <<link, shown>>
  /\ UNCHANGED <<calls, paired, apMode, aim, sent, arrived, toggles>>

DataReceivedOnce(c) ==
  /\ armed[c] /\ inbox[c] # <<>>
  /\ inbox' = [inbox EXCEPT ![c] = Tail(@)]
  /\ handled' = [handled EXCEPT ![call[c]] = Append(@, Head(inbox[c]))]
  /\ armed' = [armed EXCEPT ![c] = FALSE]
  /\ UNCHANGED <<state, peer, call, protocol, stranger, deaf, shown>>
  /\ UNCHANGED <<calls, paired, apMode, aim, sent, arrived, toggles>>

DataReceived(c) ==
  /\ armed[c] /\ inbox[c] # <<>>
  /\ \E known \in BOOLEAN, bootstrap \in IsBootstrap(c), renewed \in BOOLEAN :
       LET good == known /\ (bootstrap => Head(inbox[c]) = "wifi_info") IN
       /\ handled' = IF good THEN [handled EXCEPT ![call[c]] = Append(@, Head(inbox[c]))]
                             ELSE handled
       /\ IF good /\ renewed
            THEN /\ inbox' = [inbox EXCEPT ![c] = Tail(@)]
                 /\ armed' = [armed EXCEPT ![c] = TRUE]
                 /\ UNCHANGED <<state, peer, call, protocol, stranger, deaf, shown>>
            ELSE Release({c})
  /\ UNCHANGED <<calls, paired, apMode, aim, sent, arrived, toggles>>

(* The peer hangs up, or the connection is lost.                           *)
PeerDisconnects(c) ==
  /\ state[c] = "open"
  /\ Release({c})
  /\ UNCHANGED <<calls, paired, apMode, aim, sent, history, toggles>>

-----------------------------------------------------------------------------
(* The user.                                                               *)

(* The user reads an id off the console and starts to type a command.      *)
ReadConsole(c) ==
  /\ shown[c] # 0
  /\ aim' = [conn |-> c, call |-> shown[c]]
  /\ UNCHANGED <<link, calls, paired, apMode, shown, sent, history, toggles>>

(* send_handler and its variants: the data goes to whoever has the id now; *)
(* an invalid id is an error that is printed.                              *)
SendCommand ==
  /\ aim # NoAim
  /\ sent' = IF state[aim.conn] = "open"
               THEN <<aim.call, call[aim.conn]>> ELSE sent
  /\ aim' = NoAim
  /\ UNCHANGED <<link, calls, paired, apMode, shown, history, toggles>>

(* close_conn_handler: closing an id that is not in use does nothing.      *)
CloseCommand ==
  /\ aim # NoAim
  /\ Release({c \in {aim.conn} : state[c] # "free"})
  /\ aim' = NoAim
  /\ UNCHANGED <<calls, paired, apMode, sent, history, toggles>>

Toggle == toggles < MaxToggles /\ toggles' = toggles + 1

(* set_ap_mode_handler swaps the verifying callback of later calls.        *)
ApModeCommand ==
  /\ Toggle
  /\ apMode' = ~apMode
  /\ UNCHANGED <<link, calls, paired, user, history>>

(* remove_pairing_handler: mdg_revoke_pairing drops the open connections   *)
(* with the peer; of a call still on its way the document says nothing.    *)
RevokeInStorageOnly(p) ==
  /\ Toggle
  /\ paired' = paired \ {p}
  /\ UNCHANGED <<link, calls, apMode, user, history>>

RevokeCommand(p) ==
  /\ Toggle
  /\ paired' = paired \ {p}
  /\ \E C \in SUBSET {c \in Conn : peer[c] = p} :
       /\ \A c \in Conn : peer[c] = p /\ state[c] = "open" => c \in C
       /\ Release(C)
  /\ UNCHANGED <<calls, apMode, aim, sent, history>>

PairingCompletes(p) ==
  /\ Toggle
  /\ paired' = paired \union {p}
  /\ UNCHANGED <<link, calls, apMode, user, history>>

-----------------------------------------------------------------------------
Library(c) ==
  \/ CallIsAnswered(c) \/ CallFails(c) \/ DataReceived(c) \/ PeerDisconnects(c)
  \/ \E p \in Peer, proto \in Protocol : IncomingCall(c, p, proto)
  \/ \E d \in Packet : PeerSends(c, d)

User ==
  \/ \E c \in Conn, p \in Peer, proto \in Protocol, local \in BOOLEAN :
       PlaceCall(c, p, proto, local)
  \/ \E c \in Conn : ReadConsole(c)
  \/ SendCommand \/ CloseCommand \/ ApModeCommand
  \/ \E p \in Peer : RevokeCommand(p) \/ PairingCompletes(p)

Next == User \/ \E c \in Conn : Library(c)

Spec == Init /\ [][Next]_vars

(* The library delivers a packet it has to a callback it has.  Peers and   *)
(* the user do what they like.                                             *)
FairSpec == Spec /\ \A c \in Conn : WF_vars(DataReceived(c))

-----------------------------------------------------------------------------
(* Every variable has its type, and a free id keeps nothing of its call.   *)
TypeOK ==
  /\ state \in [Conn -> {"free", "calling", "open"}]
  /\ peer \in [Conn -> Peer \union {NoPeer}]
  /\ call \in [Conn -> 0 .. MaxCalls]
  /\ protocol \in [Conn -> Protocol]
  /\ stranger \in [Conn -> BOOLEAN]
  /\ armed \in [Conn -> BOOLEAN]
  /\ deaf \in [Conn -> BOOLEAN]
  /\ inbox \in [Conn -> Seq(Packet)]
  /\ calls \in 0 .. MaxCalls
  /\ paired \in SUBSET Peer
  /\ apMode \in BOOLEAN
  /\ shown \in [Conn -> 0 .. MaxCalls]
  /\ aim \in [conn : Conn, call : 1 .. MaxCalls] \union {NoAim}
  /\ sent \in (0 .. MaxCalls) \X (0 .. MaxCalls)
  /\ arrived \in [1 .. MaxCalls -> Seq(Packet)]
  /\ handled \in [1 .. MaxCalls -> Seq(Packet)]
  /\ toggles \in 0 .. MaxToggles
  /\ \A c \in Conn : state[c] = "free" <=> call[c] = 0
  /\ \A c \in Conn : state[c] = "free" <=> peer[c] = NoPeer

(* The one-shot receive is renewed on every way through the handler, or    *)
(* the connection closed: an open connection has no receive callback only  *)
(* if the first receive failed, which the console said, and then it never  *)
(* had one.                                                                *)
OpenIsArmed ==
  \A c \in Conn :
    /\ armed[c] <=> state[c] = "open" /\ ~deaf[c]
    /\ deaf[c] => handled[call[c]] = <<>>

(* The client handles the packets of a call in the order they arrived,     *)
(* none twice and none of another call, while ids are reused.              *)
PacketsInOrder ==
  /\ \A n \in 1 .. MaxCalls : IsPrefix(handled[n], arrived[n])
  /\ \A c \in Conn :
       state[c] = "open" => handled[call[c]] \o inbox[c] = arrived[call[c]]

(* What a peer sends is handled unless the connection is deaf or ends.     *)
PacketsAreHandled ==
  \A n \in 1 .. MaxCalls, k \in 1 .. MaxPackets :
    Len(arrived[n]) >= k ~>
      \/ Len(handled[n]) >= k
      \/ \A c \in Conn : call[c] = n => deaf[c]

(* No connection outlives the pairing it was made under: an open one that  *)
(* was made with a paired peer still has a paired peer, also when the call *)
(* was on its way or the id has been reused since.  Those made with a      *)
(* stranger, by a local call or in AP mode, are legal and are left out.    *)
PairedStayPaired ==
  \A c \in Conn : state[c] = "open" /\ ~stranger[c] => peer[c] \in paired

(* A message reaches the call the user read off the console, not a later   *)
(* one under the same id.                                                  *)
SentToTheCallMeant == sent[1] = sent[2]
=============================================================================
