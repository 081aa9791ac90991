--------------------------- MODULE WindowsConsole ---------------------------
(***************************************************************************)
(* The input side of the Windows demo, mdg_windows_main.c, over the state  *)
(* of ConsoleInput.  On a socket it receives up to BUFFER_LENGTH bytes and *)
(* handles them one by one, which is the same as receiving one at a time:  *)
(* only the client acts in between, and only at the far end of the wire.   *)
(* At the terminal it reads whole lines with fgets.                        *)
(***************************************************************************)
EXTENDS ConsoleInput

(* fgets needs room for a byte and the terminator.                         *)
ASSUME FgetsAssumption == BufferLength > 1

(* An attempt that fails is repeated at once and changes nothing.          *)
AcceptConnection == WaitForConnection

(* socket_handle_input while rp is inside the buffer.                      *)
HandleInput == port /\ (ReadLineEnd \/ ReadCarriageReturn \/ ReadOther)

(* Nothing compares rp with the end of stdin_buf.                          *)
HandleInputBehindBuffer ==
  /\ port /\ loop = "read" /\ ~HasRoom
  /\ wire # <<>>
  /\ wire' = Tail(wire)
  /\ loop' = "overrun"
  /\ UNCHANGED <<port, buf, lines, client, link, typed, left>>

(* recv returns 0 or an error: the socket is closed at once.               *)
RecvEnds ==
  /\ port /\ loop = "read"
  /\ wire = <<>> /\ link \in {"eof", "reset"}
  /\ loop' = "listen"
  /\ link' = "none"
  /\ UNCHANGED <<port, buf, lines, client, wire, typed, left>>

(* fgets returns with the bytes up to a line feed, with as many as fit, or *)
(* with the rest of the input; all but the last byte are handed on.  At    *)
(* the end of the input it returns nothing and the loop tries for ever.    *)
LineEnds == {i \in 1 .. Len(wire) : wire[i] = "lf"}
FgetsCount ==
  IF \E i \in LineEnds : i < BufferLength
    THEN CHOOSE i \in LineEnds : \A j \in LineEnds : i <= j
    ELSE IF Len(wire) < BufferLength THEN Len(wire) ELSE BufferLength - 1

FgetsDone ==
  \/ \E i \in LineEnds : i < BufferLength
  \/ Len(wire) >= BufferLength - 1
  \/ link = "eof" /\ wire # <<>>

FgetsAll ==
  /\ ~port /\ loop = "read" /\ FgetsDone
  /\ lines' = Append(lines, [i \in 1 .. FgetsCount |-> client])
  /\ wire' = SubSeq(wire, FgetsCount + 1, Len(wire))
  /\ UNCHANGED <<port, buf, loop, client, link, typed, left>>

Fgets ==
  /\ ~port /\ loop = "read" /\ FgetsDone
  /\ lines' = Append(lines, [i \in 1 .. FgetsCount - 1 |-> client])
  /\ wire' = SubSeq(wire, FgetsCount + 1, Len(wire))
  /\ UNCHANGED <<port, buf, loop, client, link, typed, left>>

WindowsLoop ==
  \/ AcceptConnection
  \/ HandleInput \/ HandleInputBehindBuffer \/ RecvEnds
  \/ Fgets
=============================================================================
