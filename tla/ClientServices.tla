---------------------------- MODULE ClientServices ---------------------------
(***************************************************************************)
(* The parts of the demo client that keep a little state of their own and  *)
(* share none: the private key, the e-mail address and the connection to   *)
(* the grid, the pairing mode, the update demo and the output to a TCP     *)
(* client.  Since they do not interact, a behaviour exercises one of them, *)
(* which Init chooses; the others rest.                                    *)
(***************************************************************************)
EXTENDS PrivateKey, ClientProperties, PairingMode, UpdateDemo, ConsoleOutput

VARIABLE part

Part == {"key", "properties", "mode", "update", "output"}

vars == <<part, keyVars, propertyVars, modeVars, updateVars, outputVars>>

Init ==
  /\ part \in Part
  /\ KeyInit /\ PropertiesInit /\ ModeInit /\ UpdateInit /\ OutputInit

KeyStep == part = "key" /\ KeyNext
           /\ UNCHANGED <<part, propertyVars, modeVars, updateVars, outputVars>>
PropertiesStep == part = "properties" /\ PropertiesNext
                  /\ UNCHANGED <<part, keyVars, modeVars, updateVars, outputVars>>
ModeStep == part = "mode" /\ ModeNext
            /\ UNCHANGED <<part, keyVars, propertyVars, updateVars, outputVars>>
UpdateStep == part = "update" /\ UpdateNext
              /\ UNCHANGED <<part, keyVars, propertyVars, modeVars, outputVars>>
OutputStep == part = "output" /\ OutputNext
              /\ UNCHANGED <<part, keyVars, propertyVars, modeVars, updateVars>>

Next == KeyStep \/ PropertiesStep \/ ModeStep \/ UpdateStep \/ OutputStep

Spec == Init /\ [][Next]_vars

(* A handler that has begun is carried on by the input thread, the library *)
(* goes on connecting and opening for pairing, and a client that is sent   *)
(* to reads on or is lost: send does not block for ever.                   *)
FairSpec ==
  /\ Spec
  /\ WF_vars(PropertiesStep /\ EmailHandler)
  /\ WF_vars(PropertiesStep /\ GridConnects)
  /\ WF_vars(ModeStep /\ OpenCommand)
  /\ WF_vars(ModeStep /\ LoadPreset)
  /\ WF_vars(OutputStep /\ SendLoop)

-----------------------------------------------------------------------------
(* Each part's variables have their types.                                 *)
TypeOK ==
  /\ keyStage \in {"down", "load", "save", "write", "up"}
  /\ given \in BOOLEAN /\ keyFault \in BOOLEAN
  /\ pk \in 0 .. MaxKeys + 1 /\ keyFile \in -1 .. MaxKeys /\ made \in 0 .. MaxKeys
  /\ identity \in 0 .. MaxKeys
  /\ emailStage \in {"down", "idle", "copy", "disconnect", "connect", "save", "write"}
  /\ {client_email, emailFile, serverEmail} \subseteq -1 .. MaxEmails
  /\ typing \in 0 .. emails /\ saved \in 0 .. emails
  /\ grid \in {"off", "connecting", "on"} /\ wanted = (grid # "off")
  /\ handler \in {"idle", "terminate", "disable", "enable"}
  /\ mode \in {"off", "opening", "loading", "open"}
  /\ {preset, asked, seen, otp} \subseteq -1 .. MaxPasswords
  /\ init \in 0 .. 2 /\ initCalls \in 0 .. 1
  /\ serverStage \in {"listen", "accept", "serve", "close", "ended"}
  /\ {io_socket, listen_socket} \subseteq Descriptor \union {None}
  /\ held \in [Handle -> Descriptor \union {None}]
  /\ owner \in [Descriptor -> {"free", "listen", "leaked", "client", "library"}]

(* Without a key on the command line a process has the identity of the     *)
(* last one, though processes may end at any point of loading, making and  *)
(* saving the key, unless a file operation has failed.                     *)
IdentityIsKept ==
  keyStage = "up" /\ ~given /\ ~keyFault /\ identity # NoKey => pk = identity

(* Once the handler is done and the connection stands, the server has the  *)
(* address the user has set, whole, though the library connects while the  *)
(* address is being copied and the handler works, unless a call failed.    *)
ServerKnowsEmail ==
  emailStage = "idle" /\ grid = "on" /\ ~emailFault => serverEmail = client_email

(* The address outlives the process: what was set last and saved is the    *)
(* address, unless a file operation failed or the process ended while the  *)
(* file was being written.                                                 *)
EmailIsKept ==
  emailStage = "idle" /\ ~emailFault => client_email = saved

(* An address the user sets reaches the server, unless something fails,    *)
(* another one is set, or the connection is not wanted any more.           *)
EmailReachesServer ==
  \A e \in 1 .. MaxEmails :
    typing = e /\ emailStage = "copy" ~>
      \/ serverEmail = e
      \/ typing # e \/ emailFault \/ emailStage = "down" \/ (emailStage = "idle" /\ ~wanted)

(* Between commands, a client that is open for pairing is so with the      *)
(* password asked for last, though the library may have loaded another     *)
(* one, or parts of two, while it was being typed.                         *)
OpenWithPasswordAsked ==
  handler = "idle" /\ mode = "open" => otp = asked

(* A pairing mode with a password of parts of two is closed again.         *)
TornPasswordIsWithdrawn == mode = "open" /\ otp = Torn ~> mode # "open"

(* From accept until its connection is closed, io_socket is the client's;  *)
(* while a client is waited for it may be anyone's.                        *)
SocketIsTheClients ==
  serverStage = "serve" \/ (serverStage = "close" /\ ~listenFault) =>
    io_socket # None /\ owner[io_socket] = "client"

(* While the main loop waits no earlier client's socket is open, nor a     *)
(* listening one, except where setsockopt has failed.                      *)
NothingIsLeftOpen ==
  serverStage = "listen" => \A d \in Descriptor : owner[d] \notin {"listen", "client"}

(* What the library has opened and not closed is its own, each number once.*)
LibraryHasItsOwn ==
  /\ \A h \in Handle : held[h] # None => owner[held[h]] = "library"
  /\ \A g, h \in Handle : held[g] = held[h] /\ held[g] # None => g = h

-----------------------------------------------------------------------------
(* Between commands the address is the one set last, here, in the file and *)
(* at the server.                                                          *)
EmailIsCurrent == ServerKnowsEmail /\ EmailIsKept

(* Main loop and library each have their own sockets, and nothing is kept  *)
(* of an earlier client, whatever connections come and go, fail and reuse  *)
(* numbers, until the main loop closes a socket of the library, which it   *)
(* can only when waiting for a client has failed.  From then on either may *)
(* close or use the other's, and nothing is claimed.                       *)
SocketsAreInOrder ==
  ~crossed => SocketIsTheClients /\ NothingIsLeftOpen /\ LibraryHasItsOwn

(* A text that has been begun is sent to its end, however little each send *)
(* takes, is given up or ends the process: with a client that reads on, no *)
(* callback stays in the loop, where it would hold the library's mutex.    *)
PrintingEnds == printing # Quiet ~> printing = Quiet

(* What the user has asked for comes about in the end.                     *)
ServicesSettle == EmailReachesServer /\ TornPasswordIsWithdrawn
=============================================================================
