---------------------------- MODULE ConsolesInv -----------------------------
(***************************************************************************)
(* The inductive invariant behind the safety properties of Consoles: how   *)
(* the wire, the buffer, the lines handed on and the connection relate     *)
(* between any two steps, on either platform.                              *)
(***************************************************************************)
EXTENDS Consoles

(* The wire is the end of what was typed, by the client of the moment.     *)
WireIsUnread ==
  /\ Len(wire) <= Len(typed)
  /\ \A k \in 1 .. Len(wire) :
       typed[Len(typed) - Len(wire) + k] = <<wire[k], client>>

(* Where the loop is when there is a connection, and when there is none.   *)
Connected ==
  /\ loop = "read" \/ link # "none" => client >= 1
  /\ loop = "listen" => link = "none" /\ wire = <<>>
  /\ link = "reset" => wire = <<>>
  /\ loop = "close" /\ HasRoom => link # "open" /\ wire = <<>>
  /\ loop = "overrun" => platform = "windows" /\ port
  /\ ~port => loop \in {"read", "exited"}

(* fgets has a buffer of its own, and sees no carriage return.             *)
TerminalInput ==
  AtWindowsTerminal =>
    /\ buf = <<>>
    /\ \A k \in 1 .. Len(typed) : typed[k][1] # "cr"

(* Of whom the buffer holds bytes: of the client of the moment, who is     *)
(* within a line when all its bytes are read, and of those that left so.   *)
Typists ==
  /\ ToSet(buf) \subseteq 1 .. client
  /\ HasRoom =>
       /\ ToSet(buf) \subseteq {client} \union left
       /\ client \in ToSet(buf) /\ wire = <<>> => WithinLine
       /\ link # "open" /\ WithinLine => client \in left

(* The Windows socket loop fills the buffer and is still right; the next   *)
(* byte is written behind it.                                              *)
WindowsSocket == platform = "windows" /\ port

LinesAreRead ==
  /\ HasRoom \/ (WindowsSocket /\ loop # "overrun")
  /\ AtWindowsTerminal => FitsFgets
  => Splits(lines, buf, HasBeenRead)

LongLine(n) == Unended(SubSeq(typed, 1, n)) >= BufferLength

OverrunAfterLongLine ==
  WindowsSocket =>
    (loop = "overrun" <=> \E n \in 0 .. Len(HasBeenRead) - 1 : LongLine(n))

(* The conjunction, with the types, is preserved by every step.            *)
IInv ==
  /\ TypeOK
  /\ WireIsUnread
  /\ Connected
  /\ TerminalInput
  /\ Typists
  /\ LinesAreRead
  /\ OverrunAfterLongLine
=============================================================================
