------------------------ MODULE ClientServicesProofs ------------------------
(***************************************************************************)
(* Proofs about ClientServices, for all bounds.  The parts share nothing,  *)
(* so each has an invariant of its own, which its own steps keep.          *)
(***************************************************************************)
EXTENDS ClientServices, WellFoundedInduction, TLAPS

-----------------------------------------------------------------------------
(* The key.  A process that still has to make a file continues no identity;*)
(* one that has not got so far finds the key of the identity in the file.  *)
KeySwitches == given \in BOOLEAN /\ keyFault \in BOOLEAN

KeyTypes ==
  /\ keyStage \in {"down", "load", "save", "write", "up"}
  /\ pk \in 0 .. MaxKeys + 1 /\ keyFile \in -1 .. MaxKeys /\ made \in 0 .. MaxKeys
  /\ identity \in 0 .. MaxKeys

FileHasIdentity == ~keyFault /\ (identity # NoKey => keyFile = identity)

BeforeTheFile == keyStage \in {"down", "load"} => FileHasIdentity

WhileItIsMade ==
  keyStage \in {"save", "write"} => pk \in 1 .. MaxKeys /\ (~keyFault => identity = NoKey)

WithTypedKey == given => keyStage = "up" /\ FileHasIdentity

WithOwnKey ==
  keyStage = "up" /\ ~given /\ ~keyFault =>
    /\ pk = keyFile /\ pk \in 1 .. MaxKeys
    /\ identity # NoKey => pk = identity

KeyInv ==
  KeySwitches /\ KeyTypes /\ BeforeTheFile /\ WhileItIsMade /\ WithTypedKey /\ WithOwnKey

(* The e-mail address.  The file and the server follow it with the steps   *)
(* of the handler.                                                         *)
PropertiesTypes ==
  /\ emailStage \in {"down", "idle", "copy", "disconnect", "connect", "save", "write"}
  /\ emails \in 0 .. MaxEmails
  /\ {client_email, emailFile, serverEmail} \subseteq -1 .. MaxEmails
  /\ typing \in 0 .. emails /\ saved \in 0 .. emails
  /\ grid \in {"off", "connecting", "on"} /\ wanted = (grid # "off")

EmailInPlace ==
  /\ emailStage = "down" => grid = "off"
  /\ ~emailFault =>
       /\ emailStage # "write" => emailFile = saved
       /\ emailStage = "idle" => client_email = saved
       /\ emailStage \in {"disconnect", "connect", "save", "write"} => client_email = typing
       /\ emailStage = "connect" => grid = "off"
       /\ emailStage \in {"save", "write", "idle"} /\ grid = "on" =>
            serverEmail = client_email

PropertiesInv == PropertiesTypes /\ EmailInPlace

(* The pairing mode.  The buffer is what was asked for whenever the        *)
(* handler does not write it, and a mode that has survived the handler has *)
(* been opened after it wrote.                                             *)
ModeTypes ==
  /\ handler \in {"idle", "terminate", "disable", "enable"}
  /\ mode \in {"off", "opening", "loading", "open"}
  /\ passwords \in 0 .. MaxPasswords
  /\ asked \in 0 .. passwords
  /\ {preset, seen, otp} \subseteq -1 .. MaxPasswords

ModeInv ==
  /\ ModeTypes
  /\ preset = IF handler = "terminate" THEN Torn ELSE asked
  /\ handler = "enable" => mode = "off"
  /\ handler = "idle" /\ mode = "loading" => seen = asked
  /\ handler = "idle" /\ mode = "open" => otp = asked

(* The update demo: the first command initialises.                         *)
UpdateInv ==
  init \in 0 .. 2 /\ initCalls = (IF init = 0 THEN 0 ELSE 1) /\ downloading \in BOOLEAN

(* The sockets: until the main loop closes one of the library's, one       *)
(* listens only before accept, one is a client's only while it is served,  *)
(* and the library's numbers are its own and distinct.                     *)
Serving == serverStage = "serve" \/ (serverStage = "close" /\ ~listenFault)

SocketTypes ==
  /\ serverStage \in {"listen", "accept", "serve", "close", "ended"}
  /\ {io_socket, listen_socket} \subseteq Descriptor \union {None}
  /\ owner \in [Descriptor -> {"free", "listen", "leaked", "client", "library"}]
  /\ held \in [Handle -> Descriptor \union {None}]
  /\ serverStage = "accept" => listen_socket \in Descriptor

SocketOwners ==
  /\ serverStage = "serve" => ~listenFault
  /\ Serving => io_socket \in Descriptor /\ owner[io_socket] = "client"
  /\ \A d \in Descriptor : owner[d] = "client" => Serving /\ d = io_socket
  /\ \A d \in Descriptor : owner[d] = "listen" => serverStage = "accept" /\ d = listen_socket
  /\ serverStage = "accept" => owner[listen_socket] = "listen"

SocketInv == SocketTypes /\ (~crossed => SocketOwners /\ LibraryHasItsOwn)

IInv ==
  /\ part \in Part
  /\ KeyInv /\ PropertiesInv /\ ModeInv /\ UpdateInv /\ SocketInv

-----------------------------------------------------------------------------
(* Each part keeps its invariant.                                          *)
LEMMA KeyKeeps == KeyInv /\ KeyNext => KeyInv'
<1> SUFFICES ASSUME KeySwitches, KeyTypes, BeforeTheFile, WhileItIsMade, WithTypedKey,
                    WithOwnKey, KeyNext
             PROVE  KeyInv'
  BY DEF KeyInv
<1> USE KeyAssumption
    DEF NoKey, Truncated, TypedKey, FileHasIdentity, KeySwitches, KeyTypes,
        BeforeTheFile, WhileItIsMade, WithTypedKey, WithOwnKey
<1>1. ASSUME NEW arg \in BOOLEAN, ParseCmdArgs(arg) PROVE KeyInv'
  <2>1. KeySwitches'
    BY <1>1, Zenon DEF ParseCmdArgs
  <2>2. KeyTypes'
    BY <1>1 DEF ParseCmdArgs
  <2>3. BeforeTheFile' /\ WhileItIsMade'
    BY <1>1 DEF ParseCmdArgs
  <2>4. WithTypedKey' /\ WithOwnKey'
    BY <1>1 DEF ParseCmdArgs
  <2> QED
    BY <2>1, <2>2, <2>3, <2>4 DEF KeyInv
<1>2. CASE KeyIsLoaded
  <2>1. KeySwitches'
    BY <1>2, Zenon DEF KeyIsLoaded
  <2>2. KeyTypes'
    BY <1>2 DEF KeyIsLoaded
  <2>3. BeforeTheFile' /\ WhileItIsMade'
    BY <1>2 DEF KeyIsLoaded
  <2>4. WithTypedKey' /\ WithOwnKey'
    BY <1>2 DEF KeyIsLoaded
  <2> QED
    BY <2>1, <2>2, <2>3, <2>4 DEF KeyInv
<1>3. CASE KeyIsMade
  <2>1. KeySwitches' /\ KeyTypes'
    BY <1>3 DEF KeyIsMade
  <2>2. keyFile \in {NoKey, Truncated} => identity = NoKey
    BY <1>3 DEF KeyIsMade
  <2>3. WhileItIsMade'
    <3>1. pk' \in 1 .. MaxKeys /\ identity' = identity
      BY <1>3 DEF KeyIsMade
    <3>2. ~keyFault' => keyFile \in {NoKey, Truncated}
      BY <1>3, Zenon DEF KeyIsMade
    <3> QED
      BY <2>2, <3>1, <3>2
  <2>4. BeforeTheFile'
    BY <1>3 DEF KeyIsMade
  <2>5. WithTypedKey' /\ WithOwnKey'
    BY <1>3 DEF KeyIsMade
  <2> QED
    BY <2>1, <2>3, <2>4, <2>5 DEF KeyInv
<1>4. CASE OpenKeyFile
  <2>1. KeySwitches'
    BY <1>4, Zenon DEF OpenKeyFile
  <2>2. KeyTypes'
    BY <1>4 DEF OpenKeyFile
  <2>3. BeforeTheFile' /\ WhileItIsMade'
    BY <1>4 DEF OpenKeyFile
  <2>4. WithTypedKey' /\ WithOwnKey'
    BY <1>4 DEF OpenKeyFile
  <2> QED
    BY <2>1, <2>2, <2>3, <2>4 DEF KeyInv
<1>5. CASE WriteKeyFile
  <2>1. KeySwitches'
    BY <1>5, Zenon DEF WriteKeyFile
  <2>2. KeyTypes'
    BY <1>5 DEF WriteKeyFile
  <2>3. BeforeTheFile' /\ WhileItIsMade'
    BY <1>5 DEF WriteKeyFile
  <2>4. WithTypedKey' /\ WithOwnKey'
    BY <1>5 DEF WriteKeyFile
  <2> QED
    BY <2>1, <2>2, <2>3, <2>4 DEF KeyInv
<1>6. CASE KeyProcessEnds
  <2>1. KeySwitches'
    BY <1>6, Zenon DEF KeyProcessEnds
  <2>2. KeyTypes'
    BY <1>6 DEF KeyProcessEnds
  <2>3. BeforeTheFile' /\ WhileItIsMade'
    BY <1>6 DEF KeyProcessEnds
  <2>4. WithTypedKey' /\ WithOwnKey'
    BY <1>6 DEF KeyProcessEnds
  <2> QED
    BY <2>1, <2>2, <2>3, <2>4 DEF KeyInv
<1> QED
  BY <1>1, <1>2, <1>3, <1>4, <1>5, <1>6 DEF KeyNext

LEMMA PropertiesKeep == PropertiesInv /\ PropertiesNext => PropertiesInv'
<1> SUFFICES ASSUME PropertiesTypes, EmailInPlace, PropertiesNext PROVE PropertiesInv'
  BY DEF PropertiesInv
<1> USE EmailAssumption
    DEF PropertiesTypes, EmailInPlace, NoEmail, MixedEmail, Connect, Disconnect, Step
<1>1. CASE StartWithEmail
  <2>1. PropertiesTypes'
    <3>1. wanted' = (grid' # "off")
      <4>1. CASE wanted' = TRUE /\ grid' = "connecting"
        BY <4>1
      <4>2. CASE UNCHANGED <<wanted, grid>>
        BY <4>2
      <4>3. CASE Connect
        BY <4>3
      <4> QED
        BY <1>1, <4>1, <4>2, <4>3 DEF StartWithEmail
    <3>2. client_email' \in -1 .. MaxEmails /\ grid' \in {"off", "connecting", "on"}
      BY <1>1 DEF StartWithEmail
    <3> QED
      BY <1>1, <3>1, <3>2 DEF StartWithEmail
  <2>2. EmailInPlace'
    BY <1>1 DEF StartWithEmail
  <2> QED
    BY <2>1, <2>2 DEF PropertiesInv
<1>2. CASE EmailProcessEnds
  <2>1. PropertiesTypes'
    <3>1. wanted' = FALSE /\ grid' = "off"
      BY <1>2 DEF EmailProcessEnds
    <3>2. wanted' = (grid' # "off")
      BY <3>1
    <3> QED
      BY <1>2, <3>2 DEF EmailProcessEnds
  <2>2. EmailInPlace'
    BY <1>2 DEF EmailProcessEnds
  <2> QED
    BY <2>1, <2>2 DEF PropertiesInv
<1>3. CASE ConnectCommand
  <2>1. PropertiesTypes'
    BY <1>3 DEF ConnectCommand
  <2>2. EmailInPlace'
    BY <1>3 DEF ConnectCommand
  <2> QED
    BY <2>1, <2>2 DEF PropertiesInv
<1>4. CASE DisconnectCommand
  <2>1. PropertiesTypes'
    BY <1>4 DEF DisconnectCommand
  <2>2. EmailInPlace'
    BY <1>4 DEF DisconnectCommand
  <2> QED
    BY <2>1, <2>2 DEF PropertiesInv
<1>5. CASE CopyEmail
  <2>1. PropertiesTypes'
    BY <1>5 DEF CopyEmail
  <2>2. EmailInPlace'
    BY <1>5 DEF CopyEmail
  <2> QED
    BY <2>1, <2>2 DEF PropertiesInv
<1>6. CASE EmailIsCopied
  <2>1. PropertiesTypes'
    BY <1>6 DEF EmailIsCopied
  <2>2. EmailInPlace'
    BY <1>6 DEF EmailIsCopied
  <2> QED
    BY <2>1, <2>2 DEF PropertiesInv
<1>7. CASE EmailDisconnects
  <2>1. PropertiesTypes'
    BY <1>7 DEF EmailDisconnects
  <2>2. EmailInPlace'
    BY <1>7 DEF EmailDisconnects
  <2> QED
    BY <2>1, <2>2 DEF PropertiesInv
<1>8. CASE EmailConnects
  <2>1. PropertiesTypes'
    BY <1>8 DEF EmailConnects
  <2>2. EmailInPlace'
    BY <1>8 DEF EmailConnects
  <2> QED
    BY <2>1, <2>2 DEF PropertiesInv
<1>9. CASE OpenEmailFile
  <2>1. PropertiesTypes'
    BY <1>9 DEF OpenEmailFile
  <2>2. EmailInPlace'
    BY <1>9 DEF OpenEmailFile
  <2> QED
    BY <2>1, <2>2 DEF PropertiesInv
<1>10. CASE WriteEmailFile
  <2>1. PropertiesTypes'
    BY <1>10 DEF WriteEmailFile
  <2>2. EmailInPlace'
    BY <1>10 DEF WriteEmailFile
  <2> QED
    BY <2>1, <2>2 DEF PropertiesInv
<1>11. CASE GridConnects
  <2>1. PropertiesTypes'
    BY <1>11 DEF GridConnects
  <2>2. EmailInPlace'
    BY <1>11 DEF GridConnects
  <2> QED
    BY <2>1, <2>2 DEF PropertiesInv
<1>12. CASE GridIsLost
  <2>1. PropertiesTypes'
    BY <1>12 DEF GridIsLost
  <2>2. EmailInPlace'
    BY <1>12 DEF GridIsLost
  <2> QED
    BY <2>1, <2>2 DEF PropertiesInv
<1> QED
  BY <1>1, <1>2, <1>3, <1>4, <1>5, <1>6, <1>7, <1>8, <1>9, <1>10, <1>11, <1>12
  DEF PropertiesNext, EmailHandler

LEMMA ModeKeeps == ModeInv /\ ModeNext => ModeInv'
<1> SUFFICES ASSUME ModeInv, ModeNext PROVE ModeInv'
  OBVIOUS
<1> USE PasswordAssumption DEF ModeInv, ModeTypes, Random, Torn, MutexIsFree
<1>1. CASE OpenForPairing
  BY <1>1 DEF OpenForPairing
<1>2. CASE PresetIsCopied
  BY <1>2 DEF PresetIsCopied
<1>3. CASE PresetIsTerminated
  BY <1>3 DEF PresetIsTerminated
<1>4. CASE DisablePairingMode
  BY <1>4 DEF DisablePairingMode
<1>5. CASE EnablePairingMode
  BY <1>5 DEF EnablePairingMode
<1>6. CASE PairingModeEnds
  BY <1>6 DEF PairingModeEnds
<1>7. CASE PresetIsMeasured
  BY <1>7 DEF PresetIsMeasured
<1>8. CASE PresetIsLoaded
  BY <1>8 DEF PresetIsLoaded
<1> QED
  BY <1>1, <1>2, <1>3, <1>4, <1>5, <1>6, <1>7, <1>8
  DEF ModeNext, OpenCommand, LoadPreset

LEMMA UpdateKeeps == UpdateInv /\ UpdateNext => UpdateInv'
<1> SUFFICES ASSUME UpdateInv, OtaDemo PROVE UpdateInv'
  BY DEF UpdateNext
<1> USE DEF UpdateInv
<1>1. ASSUME NEW i \in 1 .. 2, Toggle(i) PROVE init' \in 1 .. 2 /\ downloading' \in BOOLEAN
  <2>1. PICK success \in BOOLEAN :
          /\ init' = IF i = 1 THEN 2 ELSE 1
          /\ downloading' = IF success THEN i = 1 ELSE downloading
    BY <1>1 DEF Toggle
  <2>2. (i = 1) \in BOOLEAN
    OBVIOUS
  <2>3. downloading' \in BOOLEAN
    BY <2>1, <2>2
  <2> QED
    BY <2>1, <2>3
<1>2. CASE init # 0
  BY <1>1, <1>2 DEF OtaDemo
<1>3. CASE init = 0
  BY <1>1, <1>3 DEF OtaDemo
<1> QED
  BY <1>2, <1>3

(* The operating system finds the lowest free descriptor.                  *)
LEMMA LowestIsFree == FreeDescriptors # {} => Lowest \in FreeDescriptors
<1> SUFFICES ASSUME FreeDescriptors # {} PROVE Lowest \in FreeDescriptors
  OBVIOUS
<1>1. FreeDescriptors \subseteq Nat
  BY OutputAssumption DEF FreeDescriptors, Descriptor
<1>2. PICK x \in FreeDescriptors :
        \A y \in FreeDescriptors : ~(<<y, x>> \in OpToRel(<, Nat))
  BY <1>1, NatLessThanWellFounded, WFMin
<1>3. \A y \in FreeDescriptors : <<y, x>>[1] = y /\ <<y, x>>[2] = x /\ <<y, x>> \in Nat \X Nat
  BY <1>1
<1>4. \A y \in FreeDescriptors : ~(y < x)
  BY <1>2, <1>3 DEF OpToRel
<1>5. \A y \in FreeDescriptors : x <= y
  BY <1>1, <1>4
<1> QED
  BY <1>5 DEF Lowest, Min

LEMMA SocketTypesKeep == SocketTypes /\ OutputNext => SocketTypes'
<1> SUFFICES ASSUME SocketTypes, OutputNext PROVE SocketTypes'
  OBVIOUS
<1> USE OutputAssumption DEF SocketTypes
<1>0. FreeDescriptors # {} => Lowest \in Descriptor
  BY LowestIsFree DEF FreeDescriptors
<1>1. CASE OpenListenSocket
  BY <1>0, <1>1 DEF OpenListenSocket
<1>2. CASE ListenOnSocketFails
  BY <1>0, <1>2 DEF ListenOnSocketFails
<1>3. CASE Accept
  BY <1>0, <1>3 DEF Accept
<1>4. CASE ReadEnds
  BY <1>4 DEF ReadEnds, sockets
<1>5. CASE ClosesIoSocket
  BY <1>5 DEF ClosesIoSocket
<1>6. ASSUME NEW h \in Handle, LibraryOpens(h) PROVE SocketTypes'
  BY <1>0, <1>6 DEF LibraryOpens
<1>7. ASSUME NEW h \in Handle, LibraryCloses(h) PROVE SocketTypes'
  BY <1>7 DEF LibraryCloses
<1>8. ASSUME UNCHANGED <<serverStage, sockets>> PROVE SocketTypes'
  BY <1>8 DEF sockets
<1>9. CASE BeginText \/ SendSocketFails \/ \E k \in 1 .. TextLength : SendPart(k)
  BY <1>8, <1>9 DEF BeginText, SendSocketFails, SendPart
<1>10. CASE SendEndsProcess
  BY <1>10 DEF SendEndsProcess
<1> QED
  BY <1>1, <1>2, <1>3, <1>4, <1>5, <1>6, <1>7, <1>9, <1>10 DEF OutputNext, SendLoop

LEMMA SocketsKeep == SocketInv /\ OutputNext => SocketInv'
<1> SUFFICES ASSUME SocketInv, OutputNext PROVE SocketInv'
  OBVIOUS
<1>t. SocketTypes /\ SocketTypes'
  BY SocketTypesKeep DEF SocketInv
<1> SUFFICES ASSUME ~crossed' PROVE SocketOwners' /\ LibraryHasItsOwn'
  BY <1>t DEF SocketInv
<1>c. ~crossed
  BY DEF OutputNext, OpenListenSocket, ListenOnSocketFails, Accept, ReadEnds, ClosesIoSocket,
         LibraryOpens, LibraryCloses, BeginText, SendLoop, SendSocketFails, SendEndsProcess,
         SendPart
<1>i. SocketOwners /\ LibraryHasItsOwn
  BY <1>c DEF SocketInv
<1> USE <1>t, <1>i, OutputAssumption DEF SocketTypes, SocketOwners, Serving, LibraryHasItsOwn
<1>0. /\ FreeDescriptors # {} => Lowest \in Descriptor /\ owner[Lowest] = "free"
      /\ None \notin Descriptor
  BY LowestIsFree DEF FreeDescriptors, Descriptor, None
<1>1. CASE OpenListenSocket
  BY <1>0, <1>1 DEF OpenListenSocket
<1>2. CASE ListenOnSocketFails
  BY <1>0, <1>2 DEF ListenOnSocketFails
<1>3. CASE Accept
  BY <1>0, <1>3 DEF Accept
<1>4. CASE ReadEnds
  BY <1>4 DEF ReadEnds, sockets
<1>5. CASE ClosesIoSocket
  <2>1. io_socket # None => owner[io_socket] # "library"
    BY <1>5 DEF ClosesIoSocket
  <2> QED
    BY <1>0, <1>5, <2>1 DEF ClosesIoSocket
<1>6. ASSUME NEW h \in Handle, LibraryOpens(h) PROVE SocketOwners' /\ LibraryHasItsOwn'
  BY <1>0, <1>6 DEF LibraryOpens
<1>7. ASSUME NEW h \in Handle, LibraryCloses(h) PROVE SocketOwners' /\ LibraryHasItsOwn'
  BY <1>0, <1>7 DEF LibraryCloses
<1>8. ASSUME UNCHANGED <<serverStage, sockets, listenFault>>
      PROVE  SocketOwners' /\ LibraryHasItsOwn'
  BY <1>8 DEF sockets
<1>9. CASE BeginText \/ SendSocketFails \/ \E k \in 1 .. TextLength : SendPart(k)
  BY <1>8, <1>9 DEF BeginText, SendSocketFails, SendPart
<1>10. CASE SendEndsProcess
  BY <1>0, <1>10 DEF SendEndsProcess
<1> QED
  BY <1>1, <1>2, <1>3, <1>4, <1>5, <1>6, <1>7, <1>9, <1>10 DEF OutputNext, SendLoop

-----------------------------------------------------------------------------
(* A step is a step of one part; the others rest.                          *)
LEMMA InvStep == IInv /\ [Next]_vars => IInv'
<1> SUFFICES ASSUME IInv, [Next]_vars PROVE IInv'
  OBVIOUS
<1>1. UNCHANGED keyVars => KeyInv'
  BY DEF IInv, KeyInv, KeySwitches, KeyTypes, BeforeTheFile, WhileItIsMade, WithTypedKey,
         WithOwnKey, FileHasIdentity, keyVars
<1>2. UNCHANGED propertyVars => PropertiesInv'
  BY DEF IInv, PropertiesInv, PropertiesTypes, EmailInPlace, propertyVars
<1>3. UNCHANGED modeVars => ModeInv'
  BY DEF IInv, ModeInv, ModeTypes, modeVars
<1>4. UNCHANGED updateVars => UpdateInv'
  BY DEF IInv, UpdateInv, updateVars
<1>5. UNCHANGED outputVars => SocketInv'
  BY DEF IInv, SocketInv, SocketTypes, SocketOwners, Serving, LibraryHasItsOwn, outputVars
<1>6. CASE KeyStep
  BY <1>2, <1>3, <1>4, <1>5, <1>6, KeyKeeps DEF KeyStep, IInv
<1>7. CASE PropertiesStep
  BY <1>1, <1>3, <1>4, <1>5, <1>7, PropertiesKeep DEF PropertiesStep, IInv
<1>8. CASE ModeStep
  BY <1>1, <1>2, <1>4, <1>5, <1>8, ModeKeeps DEF ModeStep, IInv
<1>9. CASE UpdateStep
  BY <1>1, <1>2, <1>3, <1>5, <1>9, UpdateKeeps DEF UpdateStep, IInv
<1>10. CASE OutputStep
  BY <1>1, <1>2, <1>3, <1>4, <1>10, SocketsKeep DEF OutputStep, IInv
<1>11. CASE UNCHANGED vars
  <2>1. UNCHANGED part /\ UNCHANGED keyVars /\ UNCHANGED propertyVars
        /\ UNCHANGED modeVars /\ UNCHANGED updateVars /\ UNCHANGED outputVars
    BY <1>11 DEF vars
  <2> QED
    BY <1>1, <1>2, <1>3, <1>4, <1>5, <2>1 DEF IInv
<1> QED
  BY <1>6, <1>7, <1>8, <1>9, <1>10, <1>11 DEF Next

LEMMA InitIInv == Init => IInv
<1> SUFFICES ASSUME part \in Part, KeyInit, PropertiesInit, ModeInit, UpdateInit, OutputInit
             PROVE  IInv
  BY DEF Init
<1>1. KeyInv
  <2>1. KeySwitches
    BY Zenon DEF KeyInit, KeySwitches
  <2>2. KeyTypes
    BY KeyAssumption DEF KeyInit, KeyTypes, NoKey
  <2>3. BeforeTheFile /\ WhileItIsMade /\ WithTypedKey /\ WithOwnKey
    BY DEF KeyInit, BeforeTheFile, WhileItIsMade, WithTypedKey, WithOwnKey, FileHasIdentity
  <2> QED
    BY <2>1, <2>2, <2>3 DEF KeyInv
<1>2. PropertiesInv
  <2>1. wanted = (grid # "off")
    BY DEF PropertiesInit
  <2>2. PropertiesTypes
    BY <2>1, EmailAssumption DEF PropertiesInit, PropertiesTypes, NoEmail
  <2>3. EmailInPlace
    BY DEF PropertiesInit, EmailInPlace
  <2> QED
    BY <2>2, <2>3 DEF PropertiesInv
<1>3. ModeInv
  BY PasswordAssumption DEF ModeInit, ModeInv, ModeTypes, Random
<1>4. UpdateInv
  <2>1. downloading \in BOOLEAN
    BY Zenon DEF UpdateInit
  <2> QED
    BY <2>1 DEF UpdateInit, UpdateInv
<1>5. SocketInv
  <2>1. None \notin Descriptor
    BY DEF None, Descriptor
  <2> QED
    BY <2>1, OutputAssumption
    DEF OutputInit, SocketInv, SocketTypes, SocketOwners, Serving, LibraryHasItsOwn
<1> QED
  BY <1>1, <1>2, <1>3, <1>4, <1>5 DEF IInv

(* The invariants of all parts hold in every reachable state.              *)
THEOREM InvariantHolds == Spec => []IInv
  BY InitIInv, InvStep, PTL DEF Spec

(* Every reachable state is well typed.                                    *)
THEOREM TypeCorrect == Spec => []TypeOK
<1>1. IInv => TypeOK
  <2>1. ASSUME IInv PROVE initCalls \in 0 .. 1 /\ asked \in -1 .. MaxPasswords
    BY <2>1, PasswordAssumption DEF IInv, UpdateInv, ModeInv, ModeTypes
  <2> QED
    BY <2>1 DEF IInv, KeyInv, KeySwitches, KeyTypes, PropertiesInv, PropertiesTypes,
                ModeInv, ModeTypes, UpdateInv, SocketInv, SocketTypes, TypeOK
<1> QED
  BY <1>1, InvariantHolds, PTL

(* The identity outlives every process that has no key of its own on the   *)
(* command line, however many are ended on their way.                      *)
THEOREM IdentityKept == Spec => []IdentityIsKept
<1>1. IInv => IdentityIsKept
  BY DEF IInv, KeyInv, WithOwnKey, IdentityIsKept
<1> QED
  BY <1>1, InvariantHolds, PTL

(* Between commands the address is the same in memory, in the file and at  *)
(* the server.                                                             *)
THEOREM EmailStaysCurrent == Spec => []EmailIsCurrent
<1>1. IInv => EmailIsCurrent
  BY DEF IInv, PropertiesInv, EmailInPlace, EmailIsCurrent, ServerKnowsEmail, EmailIsKept
<1> QED
  BY <1>1, InvariantHolds, PTL

(* An open pairing mode has the password asked for last, whole.            *)
THEOREM PasswordAsked == Spec => []OpenWithPasswordAsked
<1>1. IInv => OpenWithPasswordAsked
  BY DEF IInv, ModeInv, OpenWithPasswordAsked
<1> QED
  BY <1>1, InvariantHolds, PTL

(* Main loop and library keep to their own sockets until the main loop has *)
(* closed one of the library's.                                            *)
THEOREM SocketsOrdered == Spec => []SocketsAreInOrder
<1>1. IInv => SocketsAreInOrder
  <2>1. None \notin Descriptor
    BY DEF None, Descriptor
  <2> QED
    BY <2>1 DEF IInv, SocketInv, SocketOwners, Serving, SocketsAreInOrder,
                SocketIsTheClients, NothingIsLeftOpen
<1> QED
  BY <1>1, InvariantHolds, PTL
=============================================================================
