------------------------------ MODULE Consoles ------------------------------
(***************************************************************************)
(* The demo at its console, on either platform: which main loop runs is    *)
(* chosen when the program is built.                                       *)
(***************************************************************************)
EXTENDS WindowsConsole, Positions

VARIABLE platform    \* mdg_chat_platform: "unix" or "windows"

consoleVars == <<vars, platform>>

ConsoleInit == Init /\ platform \in {"unix", "windows"}

AtWindowsTerminal == platform = "windows" /\ ~port

(* The text mode of the Windows terminal drops carriage returns.           *)
Typing ==
  \/ \E b \in Byte : ClientTypes(b) /\ ~(AtWindowsTerminal /\ b = "cr")
  \/ ClientHangsUp

Reading ==
  \/ platform = "unix" /\ MainLoop
  \/ platform = "windows" /\ WindowsLoop

Next == (Typing \/ Reading) /\ UNCHANGED platform

(* The main thread keeps running; a client types and leaves as it likes.   *)
Spec == ConsoleInit /\ [][Next]_consoleVars
FairSpec == Spec /\ WF_consoleVars(Reading /\ UNCHANGED platform)

-----------------------------------------------------------------------------
(* The state is well typed, and what is kept fits stdin_buf.               *)
TypeOK ==
  /\ platform \in {"unix", "windows"}
  /\ port \in BOOLEAN
  /\ buf \in Seq(1 .. MaxClients) /\ Len(buf) <= BufferLength
  /\ loop \in {"listen", "read", "close", "exited", "overrun"}
  /\ lines \in Seq(Seq(1 .. MaxClients))
  /\ client \in 0 .. MaxClients
  /\ link \in {"none", "open", "eof", "reset"}
  /\ wire \in Seq(Byte)
  /\ typed \in Seq(Byte \X (1 .. MaxClients))
  /\ left \subseteq 1 .. MaxClients

(* What the loop has read; in a text, its line ends and the bytes of a line *)
(* behind the last of them; l spells the latter by who typed them.         *)
HasBeenRead == SubSeq(typed, 1, Len(typed) - Len(wire))
Ends(s) == {i \in 1 .. Len(s) : s[i][1] = "lf"}
UnendedAt(s) ==
  {i \in 1 .. Len(s) : s[i][1] = "other" /\ \A j \in i .. Len(s) : s[j][1] # "lf"}
Unended(s) == Cardinality(UnendedAt(s))
Spells(l, s) ==
  /\ Len(l) = Unended(s)
  /\ \A i \in UnendedAt(s) : l[Rank(UnendedAt(s), i)] = s[i][2]

(* The n-th line of ls is what stands between two line ends of s, b what   *)
(* follows the last of them.                                               *)
Splits(ls, b, s) ==
  /\ Len(ls) = Cardinality(Ends(s))
  /\ \A e \in Ends(s) : Spells(ls[Rank(Ends(s), e)], SubSeq(s, 1, e - 1))
  /\ Spells(b, s)

(* Lines that fgets reads whole: with their ends, and room for each.       *)
FitsFgets ==
  /\ \A n \in 1 .. Len(typed) : Unended(SubSeq(typed, 1, n)) < BufferLength - 1
  /\ link = "eof" => Unended(typed) = 0

(* Until the buffer is full no byte is lost, doubled or reordered on its   *)
(* way into a command, or gets into another line: the n-th line handed on  *)
(* is what stands between two line feeds of what was typed and is no       *)
(* longer on the wire, over all clients, and the buffer is the rest.  The  *)
(* Windows terminal keeps this for lines of at most BUFFER_LENGTH - 2      *)
(* bytes that are ended.                                                   *)
LinesAreWhatWasTyped ==
  HasRoom /\ (AtWindowsTerminal => FitsFgets) => Splits(lines, buf, HasBeenRead)

(* A command consists of bytes of the client that is connected when it is  *)
(* handed on, and of earlier ones only if they left within a line.         *)
OneTypistPerLine ==
  [][lines' # lines => ToSet(Last(lines')) \subseteq {client} \union left]_consoleVars

(* Every line a client ends is handed to mdg_chat_client_input, unless the *)
(* buffer is full before that.                                             *)
EveryLineIsHandled ==
  \A k \in 1 .. MaxBytes :
    Cardinality(Ends(typed)) >= k ~> Len(lines) >= k \/ Len(buf) = BufferLength

(* After a client has gone the main loop waits for the next one; at the    *)
(* end of standard input the unix loop exits, unless the buffer is full.   *)
NextClientIsAwaited ==
  link \in {"eof", "reset"} ~>
    \/ loop \in {"listen", "exited", "overrun"}
    \/ AtWindowsTerminal
    \/ ~port /\ Len(buf) = BufferLength

(* What stops the unix loop, and what it has done by then.  The buffer is   *)
(* full exactly when BUFFER_LENGTH bytes other than carriage returns, of   *)
(* one client or of several, have been read without a line feed; the       *)
(* commands and the buffer are then still what was typed up to the byte    *)
(* that filled it, and nothing behind that byte is ever taken in.          *)
UnixStopsInLongLine ==
  platform = "unix" =>
    IF HasRoom
      THEN \A n \in 0 .. Len(HasBeenRead) : Unended(SubSeq(typed, 1, n)) < BufferLength
      ELSE \E n \in 0 .. Len(HasBeenRead) : Splits(lines, buf, SubSeq(typed, 1, n))

(* The Windows loop writes behind stdin_buf exactly when BUFFER_LENGTH     *)
(* bytes, of one client or of several, are followed by another one and no  *)
(* line feed has come in between; the unix loop never does.                *)
OverrunByLongLineOnly ==
  loop = "overrun" <=>
    /\ platform = "windows" /\ port
    /\ \E n \in 0 .. Len(HasBeenRead) - 1 :
         Unended(SubSeq(typed, 1, n)) >= BufferLength
=============================================================================
