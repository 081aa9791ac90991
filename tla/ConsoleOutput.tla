---------------------------- MODULE ConsoleOutput ----------------------------
(***************************************************************************)
(* The output side of the unix demo when its console is a TCP client: the  *)
(* send loop of socket_mdg_chat_output_fprintf, run by a callback on the   *)
(* library's thread, beside the main loop, which waits for a client, serves*)
(* it and closes io_socket.  Descriptors are numbers, of which an operating*)
(* system gives out the lowest that is free.  Main loop and library know   *)
(* their sockets by number only: a closed io_socket keeps its number, which*)
(* may be given to a socket of the library and closed under it.            *)
(***************************************************************************)
EXTENDS Integers, FiniteSetsExt

CONSTANTS
  MaxDescriptor,  \* bound: open sockets
  MaxHeld,        \* bound: of them the library's
  TextLength,     \* the length of a text after the conversion of line ends
  MaxPrints       \* bound: texts printed

ASSUME OutputAssumption ==
  /\ MaxDescriptor \in Nat \ {0} /\ MaxHeld \in Nat
  /\ TextLength \in Nat \ {0} /\ MaxPrints \in Nat

VARIABLES
  serverStage,    \* the main loop: "listen", "accept", "serve", "close"; "ended"
  io_socket,      \* a descriptor, or None before the first client
  listen_socket,  \* the local variable of wait_for_connection
  owner,          \* what a descriptor is: "free", "listen", "leaked", "client", "library"
  held,           \* the numbers of the sockets that the library has opened
  printing,       \* the send loop: its sum and the last result of send, or Quiet
  prints,         \* counts the texts
  listenFault,    \* history: wait_for_connection failed since the last client
  crossed         \* history: the main loop has closed a socket of the library

outputVars == <<serverStage, io_socket, listen_socket, owner, held, printing,
                prints, listenFault, crossed>>
sockets == <<io_socket, listen_socket, owner, held>>

Descriptor == 1 .. MaxDescriptor
Handle == 1 .. MaxHeld
None == 0
Quiet == [total |-> TextLength, last |-> TextLength]

OutputInit ==
  /\ serverStage = "listen"
  /\ io_socket = None /\ listen_socket = None
  /\ owner = [d \in Descriptor |-> "free"]
  /\ held = [h \in Handle |-> None]
  /\ printing = Quiet /\ prints = 0
  /\ listenFault = FALSE /\ crossed = FALSE

FreeDescriptors == {d \in Descriptor : owner[d] = "free"}
Lowest == Min(FreeDescriptors)

-----------------------------------------------------------------------------
(* wait_for_connection, up to accept.  Where setsockopt fails the socket   *)
(* is not closed.                                                          *)
OpenListenSocket ==
  /\ serverStage = "listen"
  /\ FreeDescriptors # {}
  /\ listen_socket' = Lowest
  /\ owner' = [owner EXCEPT ![Lowest] = "listen"]
  /\ serverStage' = "accept"
  /\ UNCHANGED <<io_socket, held, printing, prints, listenFault, crossed>>

ListenOnSocketFails ==
  /\ serverStage = "listen"
  /\ \/ UNCHANGED owner
     \/ FreeDescriptors # {} /\ owner' = [owner EXCEPT ![Lowest] = "leaked"]
  /\ listenFault' = TRUE
  /\ serverStage' = "close"
  /\ UNCHANGED <<io_socket, listen_socket, held, printing, prints, crossed>>

(* accept sets io_socket, to -1 if it fails; the listening socket is closed*)
(* in both cases.                                                          *)
AcceptClosingNone ==
  /\ serverStage = "accept"
  /\ FreeDescriptors # {}
  /\ io_socket' = Lowest
  /\ owner' = [owner EXCEPT ![Lowest] = "client"]
  /\ serverStage' = "serve" /\ listenFault' = FALSE
  /\ UNCHANGED <<listen_socket, held, printing, prints, crossed>>

Accept ==
  /\ serverStage = "accept"
  /\ \/ /\ FreeDescriptors # {}
        /\ io_socket' = Lowest
        /\ owner' = [owner EXCEPT ![Lowest] = "client", ![listen_socket] = "free"]
        /\ serverStage' = "serve" /\ listenFault' = FALSE
     \/ /\ io_socket' = None
        /\ owner' = [owner EXCEPT ![listen_socket] = "free"]
        /\ serverStage' = "close" /\ listenFault' = TRUE
  /\ UNCHANGED <<listen_socket, held, printing, prints, crossed>>

ReadEnds ==
  /\ serverStage = "serve"
  /\ serverStage' = "close"
  /\ UNCHANGED <<sockets, printing, prints, listenFault, crossed>>

(* close(io_socket), whatever has the number.                              *)
ClosesIoSocket ==
  /\ serverStage = "close"
  /\ IF io_socket = None
       THEN UNCHANGED <<owner, crossed>>
       ELSE /\ owner' = [owner EXCEPT ![io_socket] = "free"]
            /\ crossed' = (crossed \/ owner[io_socket] = "library")
  /\ serverStage' = "listen"
  /\ UNCHANGED <<io_socket, listen_socket, held, printing, prints, listenFault>>

-----------------------------------------------------------------------------
(* Sockets of the library come and go, on its thread when it prints not.   *)
(* It too closes whatever has the number.                                  *)
LibraryOpens(h) ==
  /\ serverStage # "ended" /\ printing = Quiet
  /\ held[h] = None /\ FreeDescriptors # {}
  /\ held' = [held EXCEPT ![h] = Lowest]
  /\ owner' = [owner EXCEPT ![Lowest] = "library"]
  /\ UNCHANGED <<serverStage, io_socket, listen_socket, printing, prints, listenFault, crossed>>

LibraryCloses(h) ==
  /\ printing = Quiet
  /\ held[h] # None
  /\ held' = [held EXCEPT ![h] = None]
  /\ owner' = [owner EXCEPT ![held[h]] = "free"]
  /\ UNCHANGED <<serverStage, io_socket, listen_socket, printing, prints, listenFault, crossed>>

(* A callback prints; before the first client it prints to stdout.         *)
BeginText ==
  /\ printing = Quiet /\ prints < MaxPrints
  /\ io_socket # None
  /\ prints' = prints + 1
  /\ printing' = [total |-> 0, last |-> 0]
  /\ UNCHANGED <<serverStage, sockets, listenFault, crossed>>

(* Each send starts at the beginning of the text, and asks for its length  *)
(* without the last result; it takes k bytes, if the number is that of a   *)
(* connected socket, the client's or not.                                  *)
Asked == TextLength - printing.last
Connected == io_socket # None /\ owner[io_socket] \in {"client", "library"}

SendPartAlone(k) ==
  /\ printing # Quiet /\ Connected
  /\ k <= Asked
  /\ printing' = IF k >= TextLength THEN Quiet ELSE [total |-> k, last |-> k]
  /\ UNCHANGED <<serverStage, sockets, prints, listenFault, crossed>>

SendPart(k) ==
  /\ printing # Quiet /\ Connected
  /\ k <= Asked
  /\ printing' = IF printing.total + k >= TextLength THEN Quiet
                 ELSE [total |-> printing.total + k, last |-> k]
  /\ UNCHANGED <<serverStage, sockets, prints, listenFault, crossed>>

SendSocketFails ==
  /\ printing # Quiet
  /\ printing' = Quiet
  /\ UNCHANGED <<serverStage, sockets, prints, listenFault, crossed>>

(* A send without MSG_NOSIGNAL to a peer that has gone raises SIGPIPE,     *)
(* which nothing handles: the process ends, and its sockets are closed.    *)
SendEndsProcess ==
  /\ printing # Quiet /\ Connected
  /\ serverStage' = "ended"
  /\ io_socket' = None /\ listen_socket' = None
  /\ owner' = [d \in Descriptor |-> "free"] /\ held' = [h \in Handle |-> None]
  /\ printing' = Quiet
  /\ UNCHANGED <<prints, listenFault, crossed>>

SendLoop == SendSocketFails \/ SendEndsProcess \/ \E k \in 1 .. TextLength : SendPart(k)

OutputNext ==
  \/ OpenListenSocket \/ ListenOnSocketFails \/ Accept \/ ReadEnds \/ ClosesIoSocket
  \/ \E h \in Handle : LibraryOpens(h) \/ LibraryCloses(h)
  \/ BeginText \/ SendLoop
=============================================================================
