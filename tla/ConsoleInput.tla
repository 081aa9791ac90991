---------------------------- MODULE ConsoleInput ----------------------------
(***************************************************************************)
(* The input side of the unix demo, mdg_unix_main.c: the main loop, which  *)
(* reads commands from standard input or from one TCP client after the     *)
(* other, and read_from_sock, which collects bytes in stdin_buf and hands  *)
(* each line to mdg_chat_client_input.  WindowsConsole adds the other main *)
(* loop, Consoles composes the two and states their properties.            *)
(*                                                                         *)
(* A byte is what read_from_sock tells apart: a line feed, a carriage      *)
(* return, or any other.  The buffer keeps of each byte who typed it,      *)
(* because rp is a static variable that outlives the client.  A client is  *)
(* a number, in the order in which they connect; without a port there is   *)
(* one, the user at the terminal, who is connected from the start.         *)
(***************************************************************************)
EXTENDS Integers, Sequences, SequencesExt

CONSTANTS
  BufferLength,   \* BUFFER_LENGTH: the bytes of stdin_buf
  MaxClients,     \* bound: how many clients connect
  MaxBytes        \* bound: how many bytes they type together

ASSUME BufferAssumption == BufferLength \in Nat \ {0}
ASSUME BoundAssumption == MaxClients \in Nat \ {0} /\ MaxBytes \in Nat

VARIABLES
  port,       \* io_port # -1: a port was given on the command line
  buf,        \* stdin_buf up to rp: who typed each byte
  loop,       \* the main loop: "listen", "read", "close", "exited" or
              \* "overrun" (it has written behind stdin_buf)
  lines,      \* the lines handed to mdg_chat_client_input
  client,     \* the client that is or was connected last; 0 before the first
  link,       \* its connection: "none", "open", "eof" (hung up) or "reset"
  wire,       \* what it typed and was not read yet
  typed,      \* history: all bytes typed so far, each with its client
  left        \* history: the clients that left within a line

vars == <<port, buf, loop, lines, client, link, wire, typed, left>>

Byte == {"lf", "cr", "other"}

Init ==
  /\ port \in BOOLEAN
  /\ buf = <<>>
  /\ lines = <<>>
  /\ loop = IF port THEN "listen" ELSE "read"
  /\ client = IF port THEN 0 ELSE 1
  /\ link = IF port THEN "none" ELSE "open"
  /\ wire = <<>>
  /\ typed = <<>>
  /\ left = {}

-----------------------------------------------------------------------------
(* The other end: a user at the terminal or a TCP client.  A reset is      *)
(* modelled when nothing is unread, since it may discard what is.          *)
ClientTypes(b) ==
  /\ link = "open"
  /\ Len(typed) < MaxBytes
  /\ wire' = Append(wire, b)
  /\ typed' = Append(typed, <<b, client>>)
  /\ UNCHANGED <<port, buf, loop, lines, client, link, left>>

WithinLine == typed # <<>> /\ Last(typed)[1] # "lf" /\ Last(typed)[2] = client

ClientHangsUp ==
  /\ link = "open"
  /\ \/ link' = "eof"
     \/ link' = "reset" /\ port /\ wire = <<>>
  /\ left' = IF WithinLine THEN left \union {client} ELSE left
  /\ UNCHANGED <<port, buf, loop, lines, client, wire, typed>>

-----------------------------------------------------------------------------
(* wait_for_connection: a new listening socket, one accept.                *)
WaitForConnection ==
  /\ loop = "listen"
  /\ client < MaxClients
  /\ loop' = "read"
  /\ client' = client + 1
  /\ link' = "open"
  /\ wire' = <<>>
  /\ UNCHANGED <<port, buf, lines, typed, left>>

(* Any of its socket calls may fail; the loop then closes io_socket anyway.*)
ListenFails ==
  /\ loop = "listen"
  /\ loop' = "close"
  /\ UNCHANGED <<port, buf, lines, client, link, wire, typed, left>>

(* What follows when read_from_sock returns: in stdin mode only its 1, for *)
(* end of file, ends the program; in socket mode every result closes.      *)
AfterRead(result) ==
  IF port THEN "close" ELSE IF result = 1 THEN "exited" ELSE "read"

HasRoomForLineEnd == Len(buf) <= BufferLength
HasRoomButOne == Len(buf) < BufferLength - 1

HasRoom == Len(buf) < BufferLength

(* read_from_sock reads one byte at rp while rp is inside the buffer.      *)
Reads(b) ==
  /\ loop = "read" /\ HasRoom
  /\ wire # <<>> /\ Head(wire) = b
  /\ wire' = Tail(wire)
  /\ UNCHANGED <<port, loop, client, link, typed, left>>

ReadLineEndKeeping ==
  /\ Reads("lf")
  /\ lines' = Append(lines, buf)
  /\ UNCHANGED buf

ReadLineEnd ==
  /\ Reads("lf")
  /\ lines' = Append(lines, buf)
  /\ buf' = <<>>

ReadCarriageReturnKeeping ==
  /\ Reads("cr")
  /\ buf' = Append(buf, client)
  /\ UNCHANGED lines

ReadCarriageReturn ==
  /\ Reads("cr")
  /\ UNCHANGED <<buf, lines>>

ReadOther ==
  /\ Reads("other")
  /\ buf' = Append(buf, client)
  /\ UNCHANGED lines

ReadEndOfFileAgain ==
  /\ loop = "read" /\ HasRoom
  /\ wire = <<>> /\ link = "eof"
  /\ UNCHANGED vars

ReadEndOfFile ==
  /\ loop = "read" /\ HasRoom
  /\ wire = <<>> /\ link = "eof"
  /\ loop' = AfterRead(1)
  /\ UNCHANGED <<port, buf, lines, client, link, wire, typed, left>>

ReadError ==
  /\ loop = "read" /\ HasRoom
  /\ link = "reset"
  /\ loop' = AfterRead(-1)
  /\ UNCHANGED <<port, buf, lines, client, link, wire, typed, left>>

(* With the buffer full the loop does not read at all.                     *)
ReadFull ==
  /\ loop = "read" /\ ~HasRoom
  /\ loop' = AfterRead(0)
  /\ UNCHANGED <<port, buf, lines, client, link, wire, typed, left>>

(* close(io_socket): what was not read is lost, rp stays where it is.      *)
CloseSocket ==
  /\ loop = "close"
  /\ loop' = "listen"
  /\ link' = "none"
  /\ wire' = <<>>
  /\ UNCHANGED <<port, buf, lines, client, typed, left>>

-----------------------------------------------------------------------------
MainLoop ==
  \/ WaitForConnection \/ ListenFails
  \/ ReadLineEnd \/ ReadCarriageReturn \/ ReadOther
  \/ ReadEndOfFile \/ ReadError \/ ReadFull
  \/ CloseSocket
=============================================================================
