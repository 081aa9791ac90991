--------------------------- MODULE ConsolesProofs ---------------------------
(***************************************************************************)
(* Proofs about Consoles, for every size of the buffer and every number of *)
(* clients and bytes: that the state is well typed, that commands are what *)
(* was typed, whose they are, what a full buffer does, and when the        *)
(* Windows loop leaves its buffer.                                         *)
(***************************************************************************)
EXTENDS ConsolesInv, PositionsTheorems

Client == 1 .. MaxClients
Text == Seq(Byte \X Client)

-----------------------------------------------------------------------------
(* Texts.  The positions of line ends and of the unended line are finitely *)
(* many, and a byte that is appended is at the position behind the last.   *)
LEMMA PositionsFinite ==
  ASSUME NEW s \in Text
  PROVE  /\ IsFiniteSet(Ends(s)) /\ Cardinality(Ends(s)) \in Nat
         /\ IsFiniteSet(UnendedAt(s)) /\ Unended(s) \in Nat
<1>1. IsFiniteSet(1 .. Len(s))
  BY FS_Interval DEF Text
<1>2. Ends(s) \in SUBSET (1 .. Len(s)) /\ UnendedAt(s) \in SUBSET (1 .. Len(s))
  BY DEF Ends, UnendedAt
<1> QED
  BY <1>1, <1>2, FS_Subset, FS_CardinalityType DEF Unended

LEMMA ByteAppended ==
  ASSUME NEW s \in Text, NEW b \in Byte, NEW c \in Client
  PROVE  LET t == Append(s, <<b, c>>)
         IN  /\ t \in Text /\ Len(t) = Len(s) + 1 /\ Len(s) \in Nat
             /\ \A i \in 1 .. Len(s) : t[i] = s[i]
             /\ t[Len(s) + 1] = <<b, c>>
             /\ t[Len(s) + 1][1] = b /\ t[Len(s) + 1][2] = c
             /\ \A n \in 0 .. Len(s) : SubSeq(t, 1, n) = SubSeq(s, 1, n)
             /\ SubSeq(t, 1, Len(s)) = s
  BY AppendProperties DEF Text

LEMMA EmptySpells ==
  ASSUME NEW s \in Text, UnendedAt(s) = {}
  PROVE  Spells(<<>>, s)
  BY FS_EmptySet DEF Spells, Unended

(* The unended line and the line ends after a byte of each kind.           *)
LEMMA UnendedAfterOther ==
  ASSUME NEW s \in Text, NEW c \in Client
  PROVE  LET t == Append(s, <<"other", c>>)
         IN  /\ UnendedAt(t) = UnendedAt(s) \union {Len(s) + 1}
             /\ Unended(t) = Unended(s) + 1
             /\ Ends(t) = Ends(s)
<1> DEFINE t == Append(s, <<"other", c>>)
<1>1. "other" \in Byte
  BY DEF Byte
<1>2. /\ Len(t) = Len(s) + 1 /\ Len(s) \in Nat /\ \A i \in 1 .. Len(s) : t[i] = s[i]
      /\ t[Len(s) + 1][1] = "other"
  BY <1>1, ByteAppended
<1> HIDE DEF t
<1>3. UnendedAt(t) = UnendedAt(s) \union {Len(s) + 1}
  BY <1>2 DEF UnendedAt
<1>4. Ends(t) = Ends(s)
  BY <1>2 DEF Ends
<1>5. IsFiniteSet(UnendedAt(s)) /\ Len(s) + 1 \notin UnendedAt(s)
  <2>1. Len(s) + 1 \notin UnendedAt(s)
    BY <1>2 DEF UnendedAt
  <2> QED
    BY <2>1, PositionsFinite
<1>6. Unended(t) = Unended(s) + 1
  BY <1>3, <1>5, FS_AddElement DEF Unended
<1> QED
  BY <1>3, <1>4, <1>6 DEF t

LEMMA UnendedAfterReturn ==
  ASSUME NEW s \in Text, NEW c \in Client
  PROVE  LET t == Append(s, <<"cr", c>>)
         IN  UnendedAt(t) = UnendedAt(s) /\ Ends(t) = Ends(s)
<1> DEFINE t == Append(s, <<"cr", c>>)
<1>1. "cr" \in Byte
  BY DEF Byte
<1>2. /\ Len(t) = Len(s) + 1 /\ Len(s) \in Nat /\ \A i \in 1 .. Len(s) : t[i] = s[i]
      /\ t[Len(s) + 1][1] = "cr"
  BY <1>1, ByteAppended
<1> HIDE DEF t
<1>3. UnendedAt(t) = UnendedAt(s)
  BY <1>2 DEF UnendedAt
<1>4. Ends(t) = Ends(s)
  BY <1>2 DEF Ends
<1> QED
  BY <1>3, <1>4 DEF t

LEMMA UnendedAfterLineEnd ==
  ASSUME NEW s \in Text, NEW c \in Client
  PROVE  LET t == Append(s, <<"lf", c>>)
         IN  /\ UnendedAt(t) = {}
             /\ Ends(t) = Ends(s) \union {Len(s) + 1}
             /\ Cardinality(Ends(t)) = Cardinality(Ends(s)) + 1
<1> DEFINE t == Append(s, <<"lf", c>>)
<1>1. "lf" \in Byte
  BY DEF Byte
<1>2. /\ Len(t) = Len(s) + 1 /\ Len(s) \in Nat /\ \A i \in 1 .. Len(s) : t[i] = s[i]
      /\ t[Len(s) + 1][1] = "lf"
  BY <1>1, ByteAppended
<1> HIDE DEF t
<1>3. UnendedAt(t) = {}
  BY <1>2 DEF UnendedAt
<1>4. Ends(t) = Ends(s) \union {Len(s) + 1}
  BY <1>2 DEF Ends
<1>5. IsFiniteSet(Ends(s)) /\ Len(s) + 1 \notin Ends(s)
  BY <1>2, PositionsFinite DEF Ends
<1>6. Cardinality(Ends(t)) = Cardinality(Ends(s)) + 1
  BY <1>4, <1>5, FS_AddElement
<1> QED
  BY <1>3, <1>4, <1>6 DEF t

-----------------------------------------------------------------------------
(* How lines and buffer follow the text, byte by byte: another byte goes   *)
(* behind the buffer, a carriage return nowhere, and a line end makes the  *)
(* buffer the next line.                                                   *)
LEMMA SplitsOther ==
  ASSUME NEW s \in Text, NEW c \in Client, NEW ls, NEW b \in Seq(Client), Splits(ls, b, s)
  PROVE  Splits(ls, Append(b, c), Append(s, <<"other", c>>))
<1> DEFINE t == Append(s, <<"other", c>>)
           I == UnendedAt(s)
<1>1. "other" \in Byte
  BY DEF Byte
<1>2. /\ t \in Text /\ Len(t) = Len(s) + 1 /\ Len(s) \in Nat
      /\ \A i \in 1 .. Len(s) : t[i] = s[i]
      /\ t[Len(s) + 1][2] = c
      /\ \A n \in 0 .. Len(s) : SubSeq(t, 1, n) = SubSeq(s, 1, n)
  BY <1>1, ByteAppended
<1>3. UnendedAt(t) = I \union {Len(s) + 1} /\ Unended(t) = Unended(s) + 1 /\ Ends(t) = Ends(s)
  BY UnendedAfterOther
<1>4. I \in SUBSET (1 .. Len(s)) /\ Unended(s) = Cardinality(I) /\ IsFiniteSet(I)
  BY PositionsFinite DEF UnendedAt, Unended
<1> HIDE DEF t, I
<1>5. Len(b) = Cardinality(I) /\ \A i \in I : b[Rank(I, i)] = s[i][2]
  BY <1>4 DEF Splits, Spells, I
<1>6. Len(Append(b, c)) = Unended(t)
  BY <1>3, <1>4, <1>5, AppendProperties
<1>7. ASSUME NEW i \in UnendedAt(t) PROVE Append(b, c)[Rank(UnendedAt(t), i)] = t[i][2]
  <2>1. CASE i = Len(s) + 1
    <3>1. Rank(UnendedAt(t), i) = Len(b) + 1
      BY <1>2, <1>3, <1>4, <1>5, <2>1, RankBelow
    <3> QED
      BY <1>2, <2>1, <3>1, AppendProperties
  <2>2. CASE i \in I
    <3>1. Rank(UnendedAt(t), i) = Rank(I, i)
      <4>1. i \in 1 .. Len(s) /\ Len(s) \in Nat
        BY <1>2, <1>4, <2>2
      <4>2. Rank(I \union {Len(s) + 1}, i) = Rank(I, i)
        BY <1>4, <4>1, RankBelow
      <4>3. UnendedAt(t) = I \union {Len(s) + 1}
        BY <1>3
      <4> QED
        BY <4>2, <4>3
    <3>2. Rank(I, i) \in 1 .. Len(b)
      BY <1>4, <1>5, <2>2, RankInRange, <1>2
    <3> QED
      BY <1>2, <1>4, <1>5, <2>2, <3>1, <3>2, AppendProperties
  <2> QED
    BY <1>3, <1>7, <2>1, <2>2
<1>8. ASSUME NEW e \in Ends(t)
      PROVE  Spells(ls[Rank(Ends(t), e)], SubSeq(t, 1, e - 1))
  <2>1. e \in Ends(s) /\ e - 1 \in 0 .. Len(s)
    BY <1>2, <1>3 DEF Ends
  <2>2. SubSeq(t, 1, e - 1) = SubSeq(s, 1, e - 1)
    BY <1>2, <2>1
  <2> QED
    BY <1>3, <2>1, <2>2 DEF Splits
<1> QED
  BY <1>3, <1>6, <1>7, <1>8 DEF Splits, Spells, t

LEMMA SplitsReturn ==
  ASSUME NEW s \in Text, NEW c \in Client, NEW ls, NEW b, Splits(ls, b, s)
  PROVE  Splits(ls, b, Append(s, <<"cr", c>>))
<1> DEFINE t == Append(s, <<"cr", c>>)
<1>1. "cr" \in Byte
  BY DEF Byte
<1>2. /\ t \in Text /\ Len(t) = Len(s) + 1 /\ Len(s) \in Nat
      /\ \A i \in 1 .. Len(s) : t[i] = s[i]
      /\ \A n \in 0 .. Len(s) : SubSeq(t, 1, n) = SubSeq(s, 1, n)
  BY <1>1, ByteAppended
<1>3. UnendedAt(t) = UnendedAt(s) /\ Ends(t) = Ends(s)
  BY UnendedAfterReturn
<1> HIDE DEF t
<1>4. Spells(b, t)
  <2>1. \A i \in UnendedAt(s) : i \in 1 .. Len(s)
    BY DEF UnendedAt
  <2> QED
    BY <1>2, <1>3, <2>1 DEF Splits, Spells, Unended
<1>5. ASSUME NEW e \in Ends(t)
      PROVE  Spells(ls[Rank(Ends(t), e)], SubSeq(t, 1, e - 1))
  <2>1. e \in Ends(s) /\ e - 1 \in 0 .. Len(s)
    BY <1>2, <1>3 DEF Ends
  <2>2. SubSeq(t, 1, e - 1) = SubSeq(s, 1, e - 1)
    BY <1>2, <2>1
  <2> QED
    BY <1>3, <2>1, <2>2 DEF Splits
<1> QED
  BY <1>3, <1>4, <1>5 DEF Splits, t

LEMMA SplitsLineEnd ==
  ASSUME NEW s \in Text, NEW c \in Client, NEW ls \in Seq(Seq(Client)),
         NEW b \in Seq(Client), Splits(ls, b, s)
  PROVE  Splits(Append(ls, b), <<>>, Append(s, <<"lf", c>>))
<1> DEFINE t == Append(s, <<"lf", c>>)
           E == Ends(s)
<1>1. "lf" \in Byte
  BY DEF Byte
<1>2. /\ t \in Text /\ Len(t) = Len(s) + 1 /\ Len(s) \in Nat
      /\ \A n \in 0 .. Len(s) : SubSeq(t, 1, n) = SubSeq(s, 1, n)
      /\ SubSeq(t, 1, Len(s)) = s
  BY <1>1, ByteAppended
<1>3. /\ UnendedAt(t) = {} /\ Ends(t) = E \union {Len(s) + 1}
      /\ Cardinality(Ends(t)) = Cardinality(E) + 1
  BY UnendedAfterLineEnd
<1>4. E \in SUBSET (1 .. Len(s)) /\ IsFiniteSet(E) /\ Cardinality(E) = Len(ls)
  BY PositionsFinite DEF Ends, Splits
<1> HIDE DEF t, E
<1>5. Spells(<<>>, t)
  BY <1>2, <1>3, EmptySpells
<1>6. Len(Append(ls, b)) = Cardinality(Ends(t))
  BY <1>3, <1>4, AppendProperties
<1>7. ASSUME NEW e \in Ends(t)
      PROVE  Spells(Append(ls, b)[Rank(Ends(t), e)], SubSeq(t, 1, e - 1))
  <2>1. CASE e = Len(s) + 1
    <3>1. Rank(Ends(t), e) = Len(ls) + 1
      BY <1>2, <1>3, <1>4, <2>1, RankBelow
    <3>2. SubSeq(t, 1, e - 1) = s
      BY <1>2, <2>1
    <3>3. Append(ls, b)[Len(ls) + 1] = b /\ Spells(b, s)
      BY AppendProperties DEF Splits
    <3> QED
      BY <2>1, <3>1, <3>2, <3>3
  <2>2. CASE e \in E
    <3>1. Rank(Ends(t), e) = Rank(E, e)
      <4>1. e \in 1 .. Len(s) /\ Len(s) \in Nat
        BY <1>2, <1>4, <2>2
      <4>2. Rank(E \union {Len(s) + 1}, e) = Rank(E, e)
        BY <1>4, <4>1, RankBelow
      <4>3. Ends(t) = E \union {Len(s) + 1}
        BY <1>3
      <4> QED
        BY <4>2, <4>3
    <3>2. Rank(E, e) \in 1 .. Len(ls)
      BY <1>2, <1>4, <2>2, RankInRange
    <3>3. SubSeq(t, 1, e - 1) = SubSeq(s, 1, e - 1)
      BY <1>2, <1>4, <2>2
    <3>4. Append(ls, b)[Rank(E, e)] = ls[Rank(E, e)]
      BY <3>2, AppendProperties
    <3>5. Spells(ls[Rank(E, e)], SubSeq(s, 1, e - 1))
      BY <2>2 DEF Splits, E
    <3> QED
      BY <3>1, <3>3, <3>4, <3>5
  <2> QED
    BY <1>3, <1>7, <2>1, <2>2
<1> QED
  BY <1>5, <1>6, <1>7 DEF Splits, t

-----------------------------------------------------------------------------
(* The steps of the specification by what they do to the text: a byte is   *)
(* typed, the client leaves, the loop moves on without reading, it reads a *)
(* byte from a socket or from the terminal of unix, or a line with fgets.  *)
Types(b) == ClientTypes(b) /\ ~(AtWindowsTerminal /\ b = "cr")

UnixMoves == ListenFails \/ ReadEndOfFile \/ ReadError \/ ReadFull \/ CloseSocket
Moves ==
  \/ WaitForConnection
  \/ platform = "unix" /\ UnixMoves
  \/ platform = "windows" /\ RecvEnds

ReadsByte ==
  /\ platform = "unix" \/ port
  /\ ReadLineEnd \/ ReadCarriageReturn \/ ReadOther

LEMMA StepKinds ==
  ASSUME [Next]_consoleVars
  PROVE  /\ platform' = platform /\ port' = port
         /\ \/ \E b \in Byte : Types(b)
            \/ ClientHangsUp
            \/ Moves
            \/ ReadsByte
            \/ platform = "windows" /\ HandleInputBehindBuffer
            \/ platform = "windows" /\ Fgets
            \/ UNCHANGED consoleVars
<1>1. CASE UNCHANGED consoleVars
  BY <1>1 DEF consoleVars, vars
<1>2. CASE Typing /\ UNCHANGED platform
  BY <1>2 DEF Typing, Types, ClientTypes, ClientHangsUp
<1>3. CASE platform = "unix" /\ MainLoop /\ UNCHANGED platform
  BY <1>3 DEF MainLoop, WaitForConnection, ListenFails, ReadLineEnd, ReadCarriageReturn,
              ReadOther, Reads, ReadEndOfFile, ReadError, ReadFull, CloseSocket,
              Moves, UnixMoves, ReadsByte
<1>4. CASE platform = "windows" /\ WindowsLoop /\ UNCHANGED platform
  BY <1>4 DEF WindowsLoop, AcceptConnection, HandleInput, HandleInputBehindBuffer, RecvEnds,
              Fgets, WaitForConnection, ReadLineEnd, ReadCarriageReturn, ReadOther, Reads,
              Moves, ReadsByte
<1> QED
  BY <1>1, <1>2, <1>3, <1>4 DEF Next, Reading

(* What fgets returns is on the wire, fits the buffer with its terminator, *)
(* and ends at the first line feed when there is one.                      *)
LEMMA FgetsTakes ==
  ASSUME TypeOK, FgetsDone
  PROVE  /\ FgetsCount \in 1 .. Len(wire)
         /\ (\E i \in LineEnds : i < BufferLength) =>
              FgetsCount \in LineEnds /\ \A j \in LineEnds : FgetsCount <= j
<1>1. Len(wire) \in Nat /\ BufferLength \in Nat /\ BufferLength > 1
  BY BufferAssumption, FgetsAssumption DEF TypeOK
<1>2. CASE \E i \in LineEnds : i < BufferLength
  <2>1. LineEnds \in SUBSET Nat /\ LineEnds # {}
    BY <1>2 DEF LineEnds
  <2>2. \E i \in LineEnds : \A j \in LineEnds : i <= j
    <3>1. \E i \in LineEnds : \A j \in LineEnds : ~(<<j, i>> \in OpToRel(<, Nat))
      BY <2>1, NatLessThanWellFounded, WFMin
    <3>2. PICK i \in LineEnds : \A j \in LineEnds : ~(<<j, i>> \in OpToRel(<, Nat))
      BY <3>1
    <3>3. \A j \in LineEnds : <<j, i>>[1] = j /\ <<j, i>>[2] = i /\ <<j, i>> \in Nat \X Nat
      BY <2>1
    <3>4. \A j \in LineEnds : ~(j < i)
      BY <3>2, <3>3 DEF OpToRel
    <3> QED
      BY <2>1, <3>4
  <2>3. FgetsCount \in LineEnds /\ \A j \in LineEnds : FgetsCount <= j
    BY <1>2, <2>2 DEF FgetsCount
  <2> QED
    BY <2>3 DEF LineEnds
<1>3. CASE ~\E i \in LineEnds : i < BufferLength
  <2>1. FgetsCount = IF Len(wire) < BufferLength THEN Len(wire) ELSE BufferLength - 1
    BY <1>3 DEF FgetsCount
  <2>2. Len(wire) >= BufferLength - 1 \/ wire # <<>>
    BY <1>3 DEF FgetsDone
  <2>3. Len(wire) # 0
    BY <1>1, <2>2, EmptySeq DEF TypeOK
  <2> QED
    BY <1>1, <1>3, <2>1, <2>3
<1> QED
  BY <1>2, <1>3

(* Types.                                                                  *)
LEMMA InvInit ==
  ASSUME ConsoleInit
  PROVE  IInv
<1> USE DEF ConsoleInit, Init
<1>1. TypeOK
  BY BufferAssumption, BoundAssumption DEF TypeOK
<1>2. WireIsUnread
  BY DEF WireIsUnread
<1>3. Connected
  BY DEF Connected
<1>4. TerminalInput
  BY DEF TerminalInput
<1>5. Typists
  BY DEF Typists, ToSet, WithinLine
<1>6. HasBeenRead = <<>> /\ Len(HasBeenRead) = 0
  BY DEF HasBeenRead
<1>7. Splits(lines, buf, HasBeenRead)
  <2>1. Ends(HasBeenRead) = {} /\ UnendedAt(HasBeenRead) = {}
    BY <1>6 DEF Ends, UnendedAt
  <2> QED
    BY <2>1, FS_EmptySet DEF Splits, Spells, Unended
<1>8. LinesAreRead
  BY <1>7 DEF LinesAreRead
<1>9. OverrunAfterLongLine
  BY <1>6 DEF OverrunAfterLongLine
<1> QED
  BY <1>1, <1>2, <1>3, <1>4, <1>5, <1>8, <1>9 DEF IInv

LEMMA TypeStep ==
  ASSUME TypeOK, Connected, [Next]_consoleVars
  PROVE  TypeOK'
<1> USE DEF TypeOK
<1>0. platform' = platform /\ port' = port
  BY StepKinds
<1>1. ASSUME NEW b \in Byte, Types(b) PROVE TypeOK'
  <2>1. client \in 1 .. MaxClients
    BY <1>1, BoundAssumption DEF Types, ClientTypes, Connected
  <2>2. typed' \in Seq(Byte \X (1 .. MaxClients)) /\ wire' \in Seq(Byte)
    BY <1>1, <2>1 DEF Types, ClientTypes
  <2> QED
    BY <1>0, <1>1, <2>2 DEF Types, ClientTypes
<1>2. CASE ClientHangsUp
  <2>1. left' \subseteq 1 .. MaxClients
    BY <1>2, BoundAssumption DEF ClientHangsUp, Connected
  <2> QED
    BY <1>0, <1>2, <2>1 DEF ClientHangsUp
<1>3. CASE Moves
  <2>1. CASE WaitForConnection
    BY <1>0, <2>1, BoundAssumption DEF WaitForConnection
  <2>2. CASE UnixMoves
    <3>1. UNCHANGED <<buf, lines, client, typed, left>>
      BY <2>2 DEF UnixMoves, ListenFails, ReadEndOfFile, ReadError, ReadFull, CloseSocket
    <3>2. loop' \in {"listen", "read", "close", "exited"} /\ link' \in {link, "none"}
      BY <2>2 DEF UnixMoves, ListenFails, ReadEndOfFile, ReadError, ReadFull, CloseSocket,
                  AfterRead
    <3>3. wire' \in {wire, <<>>}
      BY <2>2 DEF UnixMoves, ListenFails, ReadEndOfFile, ReadError, ReadFull, CloseSocket
    <3>4. wire' \in Seq(Byte)
      BY <3>3, EmptySeq
    <3>5. loop' \in {"listen", "read", "close", "exited", "overrun"}
      BY <3>2
    <3>6. link' \in {"none", "open", "eof", "reset"}
      BY <3>2
    <3> QED
      BY <1>0, <3>1, <3>4, <3>5, <3>6
  <2>3. CASE RecvEnds
    BY <1>0, <2>3 DEF RecvEnds
  <2> QED
    BY <1>3, <2>1, <2>2, <2>3 DEF Moves
<1>4. CASE ReadsByte
  <2>1. PICK b \in Byte : Reads(b)
    BY <1>4 DEF ReadsByte, ReadLineEnd, ReadCarriageReturn, ReadOther, Byte
  <2>2. client \in 1 .. MaxClients /\ Len(buf) < BufferLength
    BY <2>1, BoundAssumption DEF Reads, Connected, HasRoom
  <2>3. wire' \in Seq(Byte) /\ UNCHANGED <<loop, client, link, typed, left>>
    BY <2>1 DEF Reads
  <2>4. buf' \in {buf, <<>>, Append(buf, client)}
    BY <1>4 DEF ReadsByte, ReadLineEnd, ReadCarriageReturn, ReadOther
  <2>5. buf' \in Seq(1 .. MaxClients) /\ Len(buf') <= BufferLength
    <3>1. CASE buf' = Append(buf, client)
      BY <2>2, <3>1, BufferAssumption, AppendProperties
    <3>2. CASE buf' = <<>>
      BY <3>2, BufferAssumption
    <3> QED
      BY <2>4, <3>1, <3>2
  <2>6. lines' \in {lines, Append(lines, buf)}
    BY <1>4 DEF ReadsByte, ReadLineEnd, ReadCarriageReturn, ReadOther
  <2>7. lines' \in Seq(Seq(1 .. MaxClients))
    <3>1. lines \in Seq(Seq(1 .. MaxClients)) /\ buf \in Seq(1 .. MaxClients)
      OBVIOUS
    <3>2. Append(lines, buf) \in Seq(Seq(1 .. MaxClients))
      BY <3>1, AppendProperties
    <3> QED
      BY <2>6, <3>1, <3>2
  <2> QED
    BY <1>0, <2>3, <2>5, <2>7
<1>5. CASE HandleInputBehindBuffer
  BY <1>0, <1>5 DEF HandleInputBehindBuffer
<1>6. CASE Fgets
  <2> DEFINE line == [i \in 1 .. FgetsCount - 1 |-> client]
  <2>1. client \in 1 .. MaxClients
    BY <1>6, BoundAssumption DEF Fgets, Connected
  <2>2. FgetsCount \in 1 .. Len(wire)
    BY <1>6, FgetsTakes DEF Fgets
  <2>3. line \in Seq(1 .. MaxClients)
    BY <2>1, <2>2
  <2>4. wire' \in Seq(Byte)
    BY <1>6, <2>2 DEF Fgets
  <2> HIDE DEF line
  <2>5. lines' \in Seq(Seq(1 .. MaxClients))
    BY <1>6, <2>3 DEF Fgets, line
  <2> QED
    BY <1>0, <1>6, <2>4, <2>5 DEF Fgets
<1>7. CASE UNCHANGED consoleVars
  BY <1>7 DEF consoleVars, vars
<1> QED
  BY <1>1, <1>2, <1>3, <1>4, <1>5, <1>6, <1>7, StepKinds

-----------------------------------------------------------------------------
(* What was typed and read.  Typing and leaving do not change what has     *)
(* been read, and reading adds the first byte on the wire.                 *)
LEMMA ClientIsThere ==
  ASSUME TypeOK, Connected, loop = "read" \/ link = "open"
  PROVE  client \in Client
  BY BoundAssumption DEF TypeOK, Connected, Client

LEMMA ReadIsText ==
  ASSUME TypeOK, WireIsUnread
  PROVE  /\ typed \in Text /\ Len(wire) \in Nat /\ Len(typed) \in Nat
         /\ Len(wire) <= Len(typed)
         /\ HasBeenRead \in Text /\ Len(HasBeenRead) = Len(typed) - Len(wire)
         /\ \A n \in 0 .. Len(typed) : SubSeq(typed, 1, n) \in Text
<1>1. typed \in Text /\ Len(wire) \in Nat /\ Len(typed) \in Nat /\ Len(wire) <= Len(typed)
  BY DEF TypeOK, Text, Client, WireIsUnread
<1>2. ASSUME NEW n \in 0 .. Len(typed)
      PROVE  SubSeq(typed, 1, n) \in Text /\ Len(SubSeq(typed, 1, n)) = n
  BY <1>1, <1>2 DEF Text
<1> QED
  BY <1>1, <1>2 DEF HasBeenRead

LEMMA ByteTyped ==
  ASSUME TypeOK, WireIsUnread, Connected, NEW b \in Byte, ClientTypes(b)
  PROVE  /\ HasBeenRead' = HasBeenRead
         /\ Len(typed') = Len(typed) + 1
         /\ typed'[Len(typed) + 1] = <<b, client>>
         /\ \A k \in 1 .. Len(typed) : typed'[k] = typed[k]
         /\ \A n \in 0 .. Len(typed) : SubSeq(typed', 1, n) = SubSeq(typed, 1, n)
         /\ WireIsUnread'
<1>1. /\ client \in Client /\ client' = client
      /\ typed' = Append(typed, <<b, client>>) /\ wire' = Append(wire, b)
  BY ClientIsThere DEF ClientTypes
<1>2. /\ typed \in Text /\ Len(wire) \in Nat /\ Len(typed) \in Nat /\ Len(wire) <= Len(typed)
  BY ReadIsText
<1>3. /\ Len(typed') = Len(typed) + 1 /\ typed'[Len(typed) + 1] = <<b, client>>
      /\ \A k \in 1 .. Len(typed) : typed'[k] = typed[k]
      /\ \A n \in 0 .. Len(typed) : SubSeq(typed', 1, n) = SubSeq(typed, 1, n)
  BY <1>1, <1>2, ByteAppended
<1>4. /\ Len(wire') = Len(wire) + 1 /\ wire'[Len(wire) + 1] = b
      /\ \A k \in 1 .. Len(wire) : wire'[k] = wire[k]
  BY <1>1, AppendProperties DEF TypeOK
<1>5. HasBeenRead' = HasBeenRead
  <2>1. Len(typed) - Len(wire) \in 0 .. Len(typed)
    BY <1>2
  <2>2. Len(typed') - Len(wire') = Len(typed) - Len(wire)
    BY <1>2, <1>3, <1>4
  <2> QED
    BY <1>3, <2>1, <2>2 DEF HasBeenRead
<1>6. WireIsUnread'
  <2>1. Len(wire') <= Len(typed')
    BY <1>2, <1>3, <1>4
  <2>2. ASSUME NEW k \in 1 .. Len(wire')
        PROVE  typed'[Len(typed') - Len(wire') + k] = <<wire'[k], client'>>
    <3>1. Len(typed') - Len(wire') + k = Len(typed) - Len(wire) + k
      BY <1>2, <1>3, <1>4
    <3>2. CASE k = Len(wire) + 1
      BY <1>1, <1>2, <1>3, <1>4, <3>1, <3>2
    <3>3. CASE k \in 1 .. Len(wire)
      <4>1. typed[Len(typed) - Len(wire) + k] = <<wire[k], client>>
        BY <3>3 DEF WireIsUnread
      <4>2. Len(typed) - Len(wire) + k \in 1 .. Len(typed)
        BY <1>2, <3>3
      <4> QED
        BY <1>1, <1>3, <1>4, <3>1, <3>3, <4>1, <4>2
    <3> QED
      BY <1>2, <1>4, <3>2, <3>3
  <2> QED
    BY <2>1, <2>2 DEF WireIsUnread
<1> QED
  BY <1>3, <1>5, <1>6

LEMMA ByteRead ==
  ASSUME TypeOK, WireIsUnread, wire # <<>>, wire' = Tail(wire), UNCHANGED <<typed, client>>
  PROVE  /\ HasBeenRead' = Append(HasBeenRead, <<Head(wire), client>>)
         /\ Head(wire) \in Byte
         /\ WireIsUnread'
<1> DEFINE n == Len(typed) - Len(wire)
<1>1. /\ typed \in Text /\ Len(wire) \in Nat \ {0} /\ Len(typed) \in Nat
      /\ Len(wire) <= Len(typed) /\ Len(HasBeenRead) = n
  BY ReadIsText, EmptySeq DEF TypeOK
<1>2. /\ Len(wire') = Len(wire) - 1 /\ Head(wire) \in Byte /\ Head(wire) = wire[1]
      /\ \A k \in 1 .. Len(wire') : wire'[k] = wire[k + 1]
  BY <1>1, HeadTailProperties DEF TypeOK
<1>3. typed[n + 1] = <<Head(wire), client>> /\ n + 1 \in 1 .. Len(typed)
  BY <1>1, <1>2 DEF WireIsUnread
<1>4. HasBeenRead' = Append(HasBeenRead, <<Head(wire), client>>)
  <2>1. HasBeenRead' = SubSeq(typed, 1, n + 1)
    BY <1>1, <1>2 DEF HasBeenRead
  <2>2. SubSeq(typed, 1, n + 1) = Append(SubSeq(typed, 1, n), typed[n + 1])
    BY <1>1, <1>3 DEF Text
  <2> QED
    BY <1>3, <2>1, <2>2 DEF HasBeenRead
<1>5. WireIsUnread'
  <2>1. ASSUME NEW k \in 1 .. Len(wire')
        PROVE  typed[Len(typed) - Len(wire') + k] = <<wire'[k], client>>
    <3>1. Len(typed) - Len(wire') + k = Len(typed) - Len(wire) + (k + 1)
      BY <1>1, <1>2
    <3>2. k + 1 \in 1 .. Len(wire)
      BY <1>1, <1>2
    <3> QED
      BY <1>2, <3>1, <3>2 DEF WireIsUnread
  <2> QED
    BY <1>1, <1>2, <2>1 DEF WireIsUnread
<1> QED
  BY <1>2, <1>4, <1>5

LEMMA FgetsReads ==
  ASSUME TypeOK, WireIsUnread, Fgets
  PROVE  /\ HasBeenRead' = SubSeq(typed, 1, Len(HasBeenRead) + FgetsCount)
         /\ WireIsUnread'
<1> DEFINE k == FgetsCount
<1>1. /\ Len(wire) \in Nat /\ Len(typed) \in Nat /\ Len(wire) <= Len(typed)
      /\ Len(HasBeenRead) = Len(typed) - Len(wire)
  BY ReadIsText
<1>2. k \in 1 .. Len(wire)
  BY FgetsTakes DEF Fgets
<1>3. wire' = SubSeq(wire, k + 1, Len(wire)) /\ UNCHANGED <<typed, client>>
  BY DEF Fgets
<1> HIDE DEF k
<1>4. Len(wire') = Len(wire) - k /\ \A i \in 1 .. Len(wire') : wire'[i] = wire[k + i]
  BY <1>1, <1>2, <1>3 DEF TypeOK
<1>5. HasBeenRead' = SubSeq(typed, 1, Len(HasBeenRead) + k)
  BY <1>1, <1>2, <1>3, <1>4 DEF HasBeenRead
<1>6. WireIsUnread'
  <2>1. ASSUME NEW i \in 1 .. Len(wire')
        PROVE  typed[Len(typed) - Len(wire') + i] = <<wire'[i], client>>
    <3>1. Len(typed) - Len(wire') + i = Len(typed) - Len(wire) + (k + i)
      BY <1>1, <1>2, <1>4
    <3>2. k + i \in 1 .. Len(wire)
      BY <1>1, <1>2, <1>4
    <3> QED
      BY <1>4, <3>1, <3>2 DEF WireIsUnread
  <2>2. Len(wire') <= Len(typed)
    BY <1>1, <1>2, <1>4
  <2> QED
    BY <1>3, <2>1, <2>2 DEF WireIsUnread
<1> QED
  BY <1>5, <1>6 DEF k

LEMMA MovesKeepText ==
  ASSUME TypeOK, WireIsUnread, Connected, Moves
  PROVE  /\ UNCHANGED <<port, buf, lines, typed, left>>
         /\ WireIsUnread'
         /\ (HasRoom \/ platform = "windows") => HasBeenRead' = HasBeenRead
<1>1. UNCHANGED <<port, buf, lines, typed, left>>
  BY DEF Moves, WaitForConnection, UnixMoves, ListenFails, ReadEndOfFile, ReadError, ReadFull,
         CloseSocket, RecvEnds
<1>2. \/ wire' = wire /\ client' = client
      \/ wire' = <<>>
  BY DEF Moves, WaitForConnection, UnixMoves, ListenFails, ReadEndOfFile, ReadError, ReadFull,
         CloseSocket, RecvEnds
<1>3. (HasRoom \/ platform = "windows") => wire' = wire
  BY DEF Moves, WaitForConnection, UnixMoves, ListenFails, ReadEndOfFile, ReadError, ReadFull,
         CloseSocket, RecvEnds, Connected
<1>4. WireIsUnread'
  <2>1. CASE wire' = wire /\ client' = client
    BY <1>1, <2>1 DEF WireIsUnread
  <2>2. CASE wire' = <<>>
    <3>1. Len(wire') = 0 /\ 1 .. 0 = {} /\ Len(typed') \in Nat
      BY <1>1, <2>2 DEF TypeOK
    <3> QED
      BY <3>1 DEF WireIsUnread
  <2> QED
    BY <1>2, <2>1, <2>2
<1> QED
  BY <1>1, <1>3, <1>4 DEF HasBeenRead

LEMMA LeavingKeepsText ==
  ASSUME ClientHangsUp \/ UNCHANGED consoleVars
  PROVE  /\ UNCHANGED <<port, buf, lines, typed, loop, wire, client>>
         /\ HasBeenRead' = HasBeenRead /\ WireIsUnread' = WireIsUnread
  BY DEF ClientHangsUp, consoleVars, vars, HasBeenRead, WireIsUnread

LEMMA WireStep ==
  ASSUME TypeOK, WireIsUnread, Connected, [Next]_consoleVars
  PROVE  WireIsUnread'
<1>1. ASSUME NEW b \in Byte, Types(b) PROVE WireIsUnread'
  BY <1>1, ByteTyped DEF Types
<1>2. CASE ClientHangsUp \/ UNCHANGED consoleVars
  BY <1>2, LeavingKeepsText
<1>3. CASE Moves
  BY <1>3, MovesKeepText
<1>4. CASE ReadsByte \/ HandleInputBehindBuffer
  <2>1. wire # <<>> /\ wire' = Tail(wire) /\ UNCHANGED <<typed, client>>
    BY <1>4 DEF ReadsByte, ReadLineEnd, ReadCarriageReturn, ReadOther, Reads,
                HandleInputBehindBuffer
  <2> QED
    BY <2>1, ByteRead
<1>5. CASE Fgets
  BY <1>5, FgetsReads
<1> QED
  BY <1>1, <1>2, <1>3, <1>4, <1>5, StepKinds

-----------------------------------------------------------------------------
(* The connection, the terminal and who the buffer is of.                  *)
LEMMA ConnectedStep ==
  ASSUME TypeOK, Connected, [Next]_consoleVars
  PROVE  Connected'
<1> USE DEF Connected
<1>0. platform' = platform /\ port' = port
  BY StepKinds
<1>1. ASSUME NEW b \in Byte, Types(b) PROVE Connected'
  BY <1>0, <1>1 DEF Types, ClientTypes, HasRoom
<1>2. CASE ClientHangsUp
  BY <1>0, <1>2 DEF ClientHangsUp, HasRoom
<1>3. CASE WaitForConnection
  <2>1. client' >= 1
    BY <1>3 DEF WaitForConnection, TypeOK
  <2> QED
    BY <1>0, <1>3, <2>1 DEF WaitForConnection
<1>4. CASE platform = "unix" /\ UnixMoves
  BY <1>0, <1>4 DEF UnixMoves, ListenFails, ReadEndOfFile, ReadError, ReadFull, CloseSocket,
                    AfterRead, HasRoom
<1>5. CASE RecvEnds
  BY <1>0, <1>5 DEF RecvEnds
<1>6. CASE ReadsByte
  <2>1. loop = "read" /\ wire # <<>> /\ UNCHANGED <<loop, client, link>>
    BY <1>6 DEF ReadsByte, ReadLineEnd, ReadCarriageReturn, ReadOther, Reads
  <2> QED
    BY <1>0, <2>1
<1>7. CASE platform = "windows" /\ HandleInputBehindBuffer
  BY <1>0, <1>7 DEF HandleInputBehindBuffer
<1>8. CASE Fgets
  <2>1. link # "reset"
    BY <1>8, FgetsTakes, EmptySeq DEF Fgets
  <2> QED
    BY <1>0, <1>8, <2>1 DEF Fgets
<1>9. CASE UNCHANGED consoleVars
  BY <1>9 DEF consoleVars, vars, HasRoom
<1> QED
  BY <1>1, <1>2, <1>3, <1>4, <1>5, <1>6, <1>7, <1>8, <1>9, StepKinds DEF Moves

LEMMA TerminalStep ==
  ASSUME TypeOK, WireIsUnread, Connected, TerminalInput, [Next]_consoleVars
  PROVE  TerminalInput'
<1>0. platform' = platform /\ port' = port /\ AtWindowsTerminal' = AtWindowsTerminal
  BY StepKinds DEF AtWindowsTerminal
<1>1. ASSUME NEW b \in Byte, Types(b) PROVE TerminalInput'
  <2>1. /\ Len(typed') = Len(typed) + 1 /\ Len(typed) \in Nat
        /\ typed'[Len(typed) + 1] = <<b, client>>
        /\ \A k \in 1 .. Len(typed) : typed'[k] = typed[k]
    BY <1>1, ByteTyped DEF Types, TypeOK
  <2>2. AtWindowsTerminal => b # "cr"
    BY <1>1 DEF Types
  <2>3. buf' = buf
    BY <1>1 DEF Types, ClientTypes
  <2> QED
    BY <1>0, <2>1, <2>2, <2>3 DEF TerminalInput
<1>2. CASE ClientHangsUp \/ Moves \/ Fgets \/ UNCHANGED consoleVars
  <2>1. buf' = buf /\ typed' = typed
    BY <1>2, LeavingKeepsText, MovesKeepText DEF Fgets
  <2> QED
    BY <1>0, <2>1 DEF TerminalInput
<1>3. CASE ReadsByte \/ HandleInputBehindBuffer
  <2>1. ~AtWindowsTerminal
    BY <1>3 DEF ReadsByte, HandleInputBehindBuffer, AtWindowsTerminal
  <2> QED
    BY <1>0, <2>1 DEF TerminalInput
<1> QED
  BY <1>1, <1>2, <1>3, StepKinds

LEMMA TypistsStep ==
  ASSUME TypeOK, WireIsUnread, Connected, TerminalInput, Typists, [Next]_consoleVars
  PROVE  Typists'
<1>0. platform' = platform /\ port' = port
  BY StepKinds
<1>1. ASSUME NEW b \in Byte, Types(b) PROVE Typists'
  <2>1. /\ wire' # <<>> /\ link' = "open"
        /\ UNCHANGED <<buf, client, left>>
    <3>1. /\ wire' = Append(wire, b) /\ link' = "open"
          /\ UNCHANGED <<buf, client, left>>
      BY <1>1 DEF Types, ClientTypes
    <3>2. wire \in Seq(Byte)
      BY DEF TypeOK
    <3>3. Append(wire, b) # <<>>
      BY <1>1, <3>2, AppendProperties, EmptySeq
    <3> QED
      BY <3>1, <3>3
  <2> QED
    BY <2>1 DEF Typists, HasRoom
<1>2. CASE ClientHangsUp
  <2>1. UNCHANGED <<buf, client, typed, wire>> /\ left \subseteq left'
    BY <1>2 DEF ClientHangsUp
  <2>2. WithinLine' = WithinLine
    BY <2>1 DEF WithinLine
  <2>3. WithinLine => client \in left'
    BY <1>2 DEF ClientHangsUp
  <2> QED
    BY <2>1, <2>2, <2>3 DEF Typists, HasRoom
<1>3. CASE WaitForConnection
  <2>1. /\ link = "none" /\ wire = <<>> /\ client' = client + 1 /\ client \in Nat
        /\ link' = "open" /\ UNCHANGED <<buf, left>>
    BY <1>3 DEF WaitForConnection, Connected, TypeOK
  <2>2. client + 1 \notin ToSet(buf) /\ ToSet(buf) \subseteq 1 .. client + 1
    BY <2>1 DEF Typists
  <2>3. HasRoom => ToSet(buf) \subseteq left
    BY <2>1 DEF Typists
  <2> QED
    BY <2>1, <2>2, <2>3 DEF Typists, HasRoom
<1>4. CASE platform = "unix" /\ UnixMoves
  <2>1. CASE CloseSocket
    <3>1. link' = "none" /\ UNCHANGED <<buf, client, typed, left>>
      BY <2>1 DEF CloseSocket
    <3>2. HasRoom => link # "open" /\ wire = <<>>
      BY <2>1 DEF CloseSocket, Connected
    <3> QED
      BY <3>1, <3>2 DEF Typists, HasRoom, WithinLine
  <2>2. CASE ListenFails \/ ReadEndOfFile \/ ReadError \/ ReadFull
    <3>1. UNCHANGED <<buf, client, link, wire, typed, left>>
      BY <2>2 DEF ListenFails, ReadEndOfFile, ReadError, ReadFull
    <3> QED
      BY <3>1 DEF Typists, HasRoom, WithinLine
  <2> QED
    BY <1>4, <2>1, <2>2 DEF UnixMoves
<1>5. CASE RecvEnds
  <2>1. link # "open" /\ UNCHANGED <<buf, client, wire, typed, left>>
    BY <1>5 DEF RecvEnds
  <2> QED
    BY <2>1 DEF Typists, HasRoom, WithinLine
<1>6. CASE ReadsByte
  <2>1. PICK b \in Byte : Reads(b)
    BY <1>6 DEF ReadsByte, ReadLineEnd, ReadCarriageReturn, ReadOther, Byte
  <2>2. HasRoom /\ client \in Client /\ UNCHANGED <<client, link, typed, left>>
    BY <2>1, ClientIsThere DEF Reads
  <2>3. CASE ReadLineEnd
    <3>1. ToSet(buf') = {}
      BY <2>3 DEF ReadLineEnd, ToSet
    <3>2. WithinLine' = WithinLine
      BY <2>2 DEF WithinLine
    <3> QED
      BY <2>2, <3>1, <3>2 DEF Typists
  <2>4. CASE ReadCarriageReturn \/ ReadOther
    <3>1. Reads("cr") \/ Reads("other")
      BY <2>4 DEF ReadCarriageReturn, ReadOther
    <3>2. wire' = <<>> => WithinLine'
      <4>1. /\ wire # <<>> /\ wire' = Tail(wire) /\ wire[1] # "lf"
        BY <3>1 DEF Reads
      <4>2. SUFFICES ASSUME wire' = <<>> PROVE WithinLine
        BY <2>2 DEF WithinLine
      <4>3. Len(wire) = 1
        <5> DEFINE rest == Tail(wire)
        <5>1. Len(wire) \in Nat \ {0} /\ Len(rest) = Len(wire) - 1
          BY <4>1, HeadTailProperties, EmptySeq DEF TypeOK
        <5>2. rest = <<>>
          BY <4>1, <4>2
        <5> HIDE DEF rest
        <5>3. Len(rest) = 0
          BY <5>2
        <5> QED
          BY <5>1, <5>3
      <4>4. Len(typed) \in Nat \ {0} /\ typed[Len(typed)] = <<wire[1], client>>
        BY <4>3 DEF WireIsUnread, TypeOK
      <4> QED
        BY <4>1, <4>4 DEF WithinLine, Last
    <3>3. ToSet(buf') \subseteq ToSet(buf) \union {client}
      <4>1. CASE buf' = buf
        BY <4>1
      <4>2. CASE buf' = Append(buf, client)
        BY <2>2, <4>2, AppendProperties DEF ToSet, TypeOK, Client
      <4> QED
        BY <2>4, <4>1, <4>2 DEF ReadCarriageReturn, ReadOther
    <3>4. WithinLine' = WithinLine
      BY <2>2 DEF WithinLine
    <3>5. ToSet(buf') \subseteq 1 .. client
      BY <2>2, <3>3 DEF Typists, Client
    <3> QED
      BY <2>2, <3>2, <3>3, <3>4, <3>5 DEF Typists
  <2> QED
    BY <1>6, <2>3, <2>4 DEF ReadsByte
<1>7. CASE HandleInputBehindBuffer
  <2>1. ~HasRoom /\ UNCHANGED <<buf, client>>
    BY <1>7 DEF HandleInputBehindBuffer
  <2> QED
    BY <2>1 DEF Typists, HasRoom
<1>8. CASE platform = "windows" /\ Fgets
  <2>1. buf = <<>> /\ UNCHANGED <<buf, client, link, typed, left>>
    BY <1>8 DEF Fgets, TerminalInput, AtWindowsTerminal
  <2>2. ToSet(buf') = {} /\ HasRoom
    BY <2>1, BufferAssumption DEF ToSet, HasRoom
  <2> QED
    BY <2>1, <2>2 DEF Typists, WithinLine
<1>9. CASE UNCHANGED consoleVars
  BY <1>9 DEF consoleVars, vars, Typists, HasRoom, WithinLine
<1> QED
  BY <1>1, <1>2, <1>3, <1>4, <1>5, <1>6, <1>7, <1>8, <1>9, StepKinds DEF Moves

-----------------------------------------------------------------------------
(* A line that fgets returns whole: a block of bytes behind the last line  *)
(* end is the unended line, and grows past what fits unless a line end     *)
(* comes in time.                                                          *)
LEMMA IntervalSize ==
  ASSUME NEW n \in Nat, NEW m \in 0 .. n
  PROVE  Cardinality(m + 1 .. n) = n - m
<1>1. m + 1 \in Int /\ n \in Int /\ (m + 1 > n <=> m = n)
  OBVIOUS
<1>2. Cardinality(m + 1 .. n) = IF m + 1 > n THEN 0 ELSE n - (m + 1) + 1
  BY <1>1, FS_Interval
<1> QED
  BY <1>1, <1>2

LEMMA UnendedBlock ==
  ASSUME NEW t \in Text, NEW m \in 0 .. Len(t),
         \A i \in m + 1 .. Len(t) : t[i][1] = "other"
  PROVE  (m + 1 .. Len(t)) \subseteq UnendedAt(t) /\ Unended(t) >= Len(t) - m
<1>1. Len(t) \in Nat
  BY DEF Text
<1>2. (m + 1 .. Len(t)) \subseteq UnendedAt(t)
  BY <1>1 DEF UnendedAt
<1>3. Cardinality(m + 1 .. Len(t)) = Len(t) - m
  BY <1>1, IntervalSize
<1>4. Cardinality(m + 1 .. Len(t)) <= Cardinality(UnendedAt(t))
  BY <1>2, PositionsFinite, FS_Subset
<1> QED
  BY <1>2, <1>3, <1>4 DEF Unended

LEMMA SplitsBlock ==
  ASSUME NEW t \in Text, NEW m \in 0 .. Len(t), NEW c \in Client, NEW ls,
         Splits(ls, <<>>, SubSeq(t, 1, m)),
         \A i \in m + 1 .. Len(t) : t[i] = <<"other", c>>
  PROVE  Splits(ls, [i \in 1 .. Len(t) - m |-> c], t)
<1> DEFINE s == SubSeq(t, 1, m)
           b == [i \in 1 .. Len(t) - m |-> c]
<1>1. /\ Len(t) \in Nat /\ s \in Text /\ Len(s) = m
      /\ \A i \in 1 .. m : s[i] = t[i]
      /\ \A n \in 0 .. m : SubSeq(s, 1, n) = SubSeq(t, 1, n)
  BY DEF Text
<1>2. Unended(s) = 0
  BY DEF Splits, Spells
<1>3. UnendedAt(s) = {}
  BY <1>1, <1>2, PositionsFinite, FS_EmptySet DEF Unended
<1>4. /\ b \in Seq(Client) /\ Len(b) = Len(t) - m
      /\ \A i \in 1 .. Len(t) - m : b[i] = c
  BY <1>1
<1>5. \A i \in m + 1 .. Len(t) : t[i][1] = "other" /\ t[i][2] = c
  OBVIOUS
<1>6. UnendedAt(t) = m + 1 .. Len(t)
  <2>1. ASSUME NEW i \in UnendedAt(t), i <= m PROVE FALSE
    <3>1. i \in 1 .. Len(s) /\ s[i][1] = "other" /\ \A j \in i .. Len(s) : s[j][1] # "lf"
      BY <1>1, <2>1 DEF UnendedAt
    <3> QED
      BY <1>3, <3>1 DEF UnendedAt
  <2>2. (m + 1 .. Len(t)) \subseteq UnendedAt(t)
    BY <1>5, UnendedBlock
  <2>3. ASSUME NEW i \in UnendedAt(t) PROVE i \in m + 1 .. Len(t)
    <3>1. i \in 1 .. Len(t)
      BY DEF UnendedAt
    <3> QED
      BY <1>1, <2>1, <3>1
  <2> QED
    BY <2>2, <2>3
<1>7. Ends(t) = Ends(s)
  <2>1. \A i \in 1 .. Len(t) : t[i][1] = "lf" => i \in 1 .. m
    BY <1>1, <1>5
  <2> QED
    BY <1>1, <2>1 DEF Ends
<1>8. Unended(t) = Len(t) - m
  BY <1>1, <1>6, IntervalSize DEF Unended
<1> HIDE DEF s, b
<1>9. ASSUME NEW i \in UnendedAt(t) PROVE b[Rank(UnendedAt(t), i)] = t[i][2]
  <2>1. UnendedAt(t) \in SUBSET (1 .. Len(t))
    BY DEF UnendedAt
  <2>2. Rank(UnendedAt(t), i) \in 1 .. Len(t) - m
    BY <1>1, <1>8, <2>1, RankInRange DEF Unended
  <2> QED
    BY <1>4, <1>5, <1>6, <2>2
<1>10. ASSUME NEW e \in Ends(t) PROVE Spells(ls[Rank(Ends(t), e)], SubSeq(t, 1, e - 1))
  <2>1. e \in Ends(s) /\ e - 1 \in 0 .. m
    BY <1>1, <1>7 DEF Ends
  <2>2. SubSeq(t, 1, e - 1) = SubSeq(s, 1, e - 1)
    BY <1>1, <2>1
  <2> QED
    BY <1>7, <2>1, <2>2 DEF Splits, s
<1> QED
  BY <1>4, <1>7, <1>8, <1>9, <1>10 DEF Splits, Spells, s, b

LEMMA FgetsFindsLineEnd ==
  ASSUME TypeOK, WireIsUnread, TerminalInput, AtWindowsTerminal, FitsFgets, FgetsDone
  PROVE  \E i \in LineEnds : i < BufferLength
<1> SUFFICES ASSUME ~\E i \in LineEnds : i < BufferLength PROVE FALSE
  OBVIOUS
<1> DEFINE m == Len(typed) - Len(wire)
<1>1. /\ typed \in Text /\ Len(wire) \in Nat /\ Len(typed) \in Nat
      /\ Len(wire) <= Len(typed) /\ BufferLength \in Nat /\ BufferLength > 1
  BY ReadIsText, BufferAssumption, FgetsAssumption
<1>2. ASSUME NEW n \in m .. Len(typed), n < m + BufferLength
      PROVE  Unended(SubSeq(typed, 1, n)) >= n - m
  <2> DEFINE t == SubSeq(typed, 1, n)
  <2>1. t \in Text /\ Len(t) = n /\ \A i \in 1 .. n : t[i] = typed[i]
    BY <1>1 DEF Text
  <2>2. ASSUME NEW i \in m + 1 .. n PROVE t[i][1] = "other"
    <3>1. i - m \in 1 .. Len(wire) /\ i - m < BufferLength /\ i \in 1 .. Len(typed)
      BY <1>1, <1>2
    <3>2. i - m \notin LineEnds
      BY <3>1
    <3>3. wire[i - m] # "lf"
      BY <3>1, <3>2 DEF LineEnds
    <3>4. typed[m + (i - m)] = <<wire[i - m], client>>
      BY <3>1 DEF WireIsUnread
    <3>5. typed[i][1] # "lf" /\ typed[i][1] # "cr"
      <4>1. m + (i - m) = i
        BY <1>1
      <4> QED
        BY <3>1, <3>3, <3>4, <4>1 DEF TerminalInput
    <3>6. typed[i] \in Byte \X Client
      BY <1>1, <3>1 DEF Text
    <3>7. t[i] = typed[i]
      BY <1>1, <2>1
    <3> QED
      BY <3>5, <3>6, <3>7 DEF Byte
  <2>3. m \in 0 .. Len(t)
    BY <1>1, <1>2, <2>1
  <2> HIDE DEF t, m
  <2>4. Unended(t) >= Len(t) - m
    BY <2>1, <2>2, <2>3, UnendedBlock
  <2> QED
    BY <2>1, <2>4 DEF t
<1>3. CASE Len(wire) >= BufferLength - 1
  <2>1. m + BufferLength - 1 \in 1 .. Len(typed)
    BY <1>1, <1>3
  <2>2. Unended(SubSeq(typed, 1, m + BufferLength - 1)) >= BufferLength - 1
    BY <1>1, <1>2, <2>1
  <2>3. Unended(SubSeq(typed, 1, m + BufferLength - 1)) \in Nat
    BY <2>1, ReadIsText, PositionsFinite
  <2>4. Unended(SubSeq(typed, 1, m + BufferLength - 1)) < BufferLength - 1
    BY <2>1 DEF FitsFgets
  <2> QED
    BY <1>1, <2>2, <2>3, <2>4
<1>4. CASE link = "eof" /\ wire # <<>> /\ Len(wire) < BufferLength - 1
  <2>1. Len(wire) >= 1
    BY <1>4, EmptySeq DEF TypeOK
  <2>2. SubSeq(typed, 1, Len(typed)) = typed
    BY <1>1 DEF Text
  <2>3. Unended(typed) >= Len(typed) - m
    <3>1. Len(typed) \in m .. Len(typed) /\ Len(typed) < m + BufferLength
      BY <1>1, <1>4
    <3> HIDE DEF m
    <3> QED
      BY <1>2, <2>2, <3>1
  <2>4. Unended(typed) = 0
    BY <1>4 DEF FitsFgets
  <2> QED
    BY <1>1, <2>1, <2>2, <2>3, <2>4
<1> QED
  BY <1>1, <1>3, <1>4 DEF FgetsDone

-----------------------------------------------------------------------------
(* Lines and buffer follow what is read.                                   *)
MayBeRead == HasRoom \/ (WindowsSocket /\ loop # "overrun")

LEMMA LinesAfterByte ==
  ASSUME IInv, ReadsByte
  PROVE  Splits(lines, buf, HasBeenRead)'
<1>1. PICK b \in Byte : Reads(b)
  BY DEF ReadsByte, ReadLineEnd, ReadCarriageReturn, ReadOther, Byte
<1>2. HasRoom /\ ~AtWindowsTerminal /\ wire # <<>> /\ wire' = Tail(wire)
  BY <1>1 DEF Reads, ReadsByte, AtWindowsTerminal
<1>3. HasBeenRead' = Append(HasBeenRead, <<Head(wire), client>>)
  BY <1>1, ByteRead DEF Reads, IInv
<1>4. /\ client \in Client /\ HasBeenRead \in Text
      /\ lines \in Seq(Seq(Client)) /\ buf \in Seq(Client)
  BY <1>1, ClientIsThere, ReadIsText DEF Reads, IInv, TypeOK, Client
<1>5. Splits(lines, buf, HasBeenRead)
  BY <1>2 DEF IInv, LinesAreRead
<1>6. CASE ReadLineEnd
  <2>1. lines' = Append(lines, buf) /\ buf' = <<>> /\ Head(wire) = "lf"
    BY <1>6 DEF ReadLineEnd, Reads
  <2>2. Splits(Append(lines, buf), <<>>, Append(HasBeenRead, <<"lf", client>>))
    BY <1>4, <1>5, SplitsLineEnd
  <2> QED
    BY <1>3, <2>1, <2>2
<1>7. CASE ReadCarriageReturn
  <2>1. lines' = lines /\ buf' = buf /\ Head(wire) = "cr"
    BY <1>7 DEF ReadCarriageReturn, Reads
  <2>2. Splits(lines, buf, Append(HasBeenRead, <<"cr", client>>))
    BY <1>4, <1>5, SplitsReturn
  <2> QED
    BY <1>3, <2>1, <2>2
<1>8. CASE ReadOther
  <2>1. lines' = lines /\ buf' = Append(buf, client) /\ Head(wire) = "other"
    BY <1>8 DEF ReadOther, Reads
  <2>2. Splits(lines, Append(buf, client), Append(HasBeenRead, <<"other", client>>))
    BY <1>4, <1>5, SplitsOther
  <2> QED
    BY <1>3, <2>1, <2>2
<1> QED
  BY <1>6, <1>7, <1>8 DEF ReadsByte

LEMMA LinesAfterFgets ==
  ASSUME IInv, AtWindowsTerminal, FitsFgets, Fgets
  PROVE  Splits(lines, buf, HasBeenRead)'
<1> DEFINE k == FgetsCount
           m == Len(HasBeenRead)
           t == SubSeq(typed, 1, m + k - 1)
<1>1. TypeOK /\ WireIsUnread /\ TerminalInput /\ FgetsDone /\ loop = "read"
  BY DEF IInv, Fgets
<1>2. /\ k \in LineEnds /\ k \in 1 .. Len(wire)
      /\ \A j \in LineEnds : k <= j
  BY <1>1, FgetsFindsLineEnd, FgetsTakes
<1>3. /\ buf = <<>> /\ UNCHANGED <<buf, client>>
      /\ lines' = Append(lines, [i \in 1 .. k - 1 |-> client])
      /\ HasBeenRead' = SubSeq(typed, 1, m + k)
      /\ client \in Client
  <2>1. client \in Client
    BY <1>1, ClientIsThere DEF IInv
  <2> QED
    BY <1>1, <2>1, FgetsReads DEF Fgets, TerminalInput
<1> HIDE DEF k
<1>4. /\ typed \in Text /\ Len(wire) \in Nat /\ Len(typed) \in Nat
      /\ Len(wire) <= Len(typed) /\ m = Len(typed) - Len(wire)
      /\ HasBeenRead = SubSeq(typed, 1, m)
  BY <1>1, ReadIsText DEF HasBeenRead
<1> HIDE DEF m
<1>5. m \in Nat /\ k \in Nat \ {0} /\ m + k <= Len(typed)
  BY <1>2, <1>4
<1>6. /\ t \in Text /\ Len(t) = m + k - 1 /\ \A i \in 1 .. m + k - 1 : t[i] = typed[i]
      /\ SubSeq(t, 1, m) = HasBeenRead
      /\ SubSeq(typed, 1, m + k) = Append(t, typed[m + k])
  <2>1. /\ t \in Text /\ Len(t) = m + k - 1
        /\ \A i \in 1 .. m + k - 1 : t[i] = typed[i]
    BY <1>4, <1>5 DEF Text
  <2>2. SubSeq(t, 1, m) = HasBeenRead
    BY <1>4, <1>5 DEF Text
  <2>3. SubSeq(typed, 1, m + k) = Append(t, typed[m + k])
    BY <1>4, <1>5 DEF Text
  <2> QED
    BY <2>1, <2>2, <2>3
<1>7. \A i \in 1 .. Len(wire) : typed[m + i] = <<wire[i], client>>
  BY <1>1, <1>4 DEF WireIsUnread
<1>8. typed[m + k] = <<"lf", client>>
  <2>1. wire[k] = "lf"
    BY <1>2 DEF LineEnds
  <2> QED
    BY <1>2, <1>7, <2>1
<1>9. ASSUME NEW i \in m + 1 .. m + k - 1 PROVE t[i] = <<"other", client>>
  <2>1. i - m \in 1 .. Len(wire) /\ i - m < k /\ m + (i - m) = i /\ i \in 1 .. Len(typed)
    BY <1>2, <1>4, <1>5
  <2>2. typed[i] = <<wire[i - m], client>>
    BY <1>7, <2>1
  <2>3. wire[i - m] # "lf"
    <3>1. i - m \notin LineEnds
      BY <1>2, <1>5, <2>1
    <3> QED
      BY <2>1, <3>1 DEF LineEnds
  <2>4. wire[i - m] # "cr"
    <3>1. typed[i][1] # "cr"
      BY <1>1, <2>1 DEF TerminalInput
    <3> QED
      BY <2>2, <3>1
  <2>5. wire[i - m] \in Byte
    BY <1>1, <2>1 DEF TypeOK
  <2>6. t[i] = typed[i]
    BY <1>5, <1>6
  <2> QED
    BY <2>2, <2>3, <2>4, <2>5, <2>6 DEF Byte
<1>10. Splits(lines, <<>>, HasBeenRead)
  <2>1. HasRoom
    BY <1>3, BufferAssumption DEF HasRoom
  <2> QED
    BY <1>3, <2>1 DEF IInv, LinesAreRead
<1> DEFINE line == [i \in 1 .. k - 1 |-> client]
<1>11. Splits(lines, line, t)
  <2>1. m \in 0 .. Len(t) /\ Len(t) - m = k - 1
    BY <1>5, <1>6
  <2> HIDE DEF t
  <2>2. Splits(lines, [i \in 1 .. Len(t) - m |-> client], t)
    BY <1>3, <1>6, <1>9, <1>10, <2>1, SplitsBlock
  <2> QED
    BY <2>1, <2>2
<1>12. lines \in Seq(Seq(Client)) /\ line \in Seq(Client)
  BY <1>1, <1>3, <1>5 DEF TypeOK, Client
<1> HIDE DEF t, line
<1>13. Splits(Append(lines, line), <<>>, Append(t, <<"lf", client>>))
  BY <1>3, <1>6, <1>11, <1>12, SplitsLineEnd
<1> QED
  BY <1>3, <1>6, <1>8, <1>13 DEF line

LEMMA LinesStep ==
  ASSUME IInv, [Next]_consoleVars
  PROVE  LinesAreRead'
<1> SUFFICES ASSUME MayBeRead', (AtWindowsTerminal => FitsFgets)'
             PROVE  Splits(lines, buf, HasBeenRead)'
  BY DEF LinesAreRead, MayBeRead
<1>0. /\ platform' = platform /\ port' = port /\ AtWindowsTerminal' = AtWindowsTerminal
      /\ WindowsSocket' = WindowsSocket
  BY StepKinds DEF AtWindowsTerminal, WindowsSocket
<1>1. ASSUME NEW b \in Byte, Types(b) PROVE Splits(lines, buf, HasBeenRead)'
  <2>1. /\ HasBeenRead' = HasBeenRead /\ Len(typed') = Len(typed) + 1
        /\ \A n \in 0 .. Len(typed) : SubSeq(typed', 1, n) = SubSeq(typed, 1, n)
    BY <1>1, ByteTyped DEF Types, IInv
  <2>2. UNCHANGED <<buf, lines, loop, link>> /\ link = "open"
    BY <1>1 DEF Types, ClientTypes
  <2>3. FitsFgets' => FitsFgets
    <3>1. Len(typed) \in Nat
      BY DEF IInv, TypeOK
    <3>2. ASSUME FitsFgets', NEW n \in 1 .. Len(typed)
          PROVE  Unended(SubSeq(typed, 1, n)) < BufferLength - 1
      <4>1. n \in 1 .. Len(typed') /\ SubSeq(typed', 1, n) = SubSeq(typed, 1, n)
        BY <2>1, <3>1
      <4>2. Unended(SubSeq(typed', 1, n)) < BufferLength - 1
        BY <3>2, <4>1 DEF FitsFgets
      <4> QED
        BY <4>1, <4>2
    <3> QED
      BY <2>2, <3>2 DEF FitsFgets
  <2> QED
    BY <1>0, <2>1, <2>2, <2>3 DEF IInv, LinesAreRead, MayBeRead, HasRoom
<1>2. CASE ClientHangsUp \/ UNCHANGED consoleVars
  <2>1. UNCHANGED <<buf, lines, typed, loop>> /\ HasBeenRead' = HasBeenRead
    BY <1>2, LeavingKeepsText
  <2>2. link = "open" \/ link' = link
    BY <1>2 DEF ClientHangsUp, consoleVars, vars
  <2>3. FitsFgets' => FitsFgets
    BY <2>1, <2>2 DEF FitsFgets
  <2> QED
    BY <1>0, <2>1, <2>3 DEF IInv, LinesAreRead, MayBeRead, HasRoom
<1>3. CASE Moves
  <2>1. UNCHANGED <<buf, lines>> /\ loop # "overrun" /\ ~AtWindowsTerminal
    BY <1>3, MovesKeepText
       DEF IInv, Moves, WaitForConnection, UnixMoves, ListenFails, ReadEndOfFile, ReadError,
           ReadFull, CloseSocket, RecvEnds, Connected, AtWindowsTerminal
  <2>2. HasRoom \/ WindowsSocket
    BY <1>0, <2>1 DEF MayBeRead, HasRoom
  <2>3. HasBeenRead' = HasBeenRead
    BY <1>3, <2>2, MovesKeepText DEF IInv, WindowsSocket
  <2> QED
    BY <2>1, <2>2, <2>3 DEF IInv, LinesAreRead
<1>4. CASE ReadsByte
  BY <1>4, LinesAfterByte
<1>5. CASE HandleInputBehindBuffer
  BY <1>5 DEF HandleInputBehindBuffer, MayBeRead, HasRoom
<1>6. CASE platform = "windows" /\ Fgets
  <2>1. AtWindowsTerminal /\ UNCHANGED <<typed, link>>
    BY <1>6 DEF Fgets, AtWindowsTerminal
  <2>2. FitsFgets
    BY <1>0, <2>1 DEF FitsFgets
  <2> QED
    BY <1>6, <2>1, <2>2, LinesAfterFgets
<1> QED
  BY <1>1, <1>2, <1>3, <1>4, <1>5, <1>6, StepKinds

LEMMA OverrunStep ==
  ASSUME IInv, [Next]_consoleVars
  PROVE  OverrunAfterLongLine'
<1> SUFFICES ASSUME WindowsSocket
             PROVE  (loop = "overrun" <=> \E n \in 0 .. Len(HasBeenRead) - 1 : LongLine(n))'
  BY StepKinds DEF OverrunAfterLongLine, WindowsSocket
<1>0. loop = "overrun" <=> \E n \in 0 .. Len(HasBeenRead) - 1 : LongLine(n)
  BY DEF IInv, OverrunAfterLongLine
<1>1. /\ TypeOK /\ WireIsUnread /\ Connected
      /\ Len(HasBeenRead) \in Nat /\ Len(HasBeenRead) <= Len(typed)
  BY ReadIsText DEF IInv
<1>2. ASSUME NEW b \in Byte, Types(b)
      PROVE  (loop = "overrun" <=> \E n \in 0 .. Len(HasBeenRead) - 1 : LongLine(n))'
  <2>1. /\ HasBeenRead' = HasBeenRead /\ loop' = loop
        /\ \A n \in 0 .. Len(typed) : SubSeq(typed', 1, n) = SubSeq(typed, 1, n)
    BY <1>1, <1>2, ByteTyped DEF Types, ClientTypes
  <2>2. ASSUME NEW n \in 0 .. Len(HasBeenRead) - 1 PROVE LongLine(n)' <=> LongLine(n)
    <3>1. SubSeq(typed', 1, n) = SubSeq(typed, 1, n)
      BY <1>1, <2>1 DEF TypeOK
    <3> QED
      BY <3>1 DEF LongLine
  <2> QED
    BY <1>0, <2>1, <2>2
<1>3. CASE ClientHangsUp \/ Moves \/ UNCHANGED consoleVars
  <2>1. typed' = typed /\ HasBeenRead' = HasBeenRead
    BY <1>1, <1>3, LeavingKeepsText, MovesKeepText DEF WindowsSocket
  <2>2. loop' = "overrun" <=> loop = "overrun"
    BY <1>3, LeavingKeepsText
       DEF Moves, WaitForConnection, UnixMoves, RecvEnds, WindowsSocket
  <2> QED
    BY <1>0, <2>1, <2>2 DEF LongLine
<1>4. CASE ReadsByte \/ HandleInputBehindBuffer
  <2>1. /\ loop = "read" /\ wire # <<>> /\ wire' = Tail(wire)
        /\ UNCHANGED <<typed, client>>
        /\ loop' = "overrun" <=> ~HasRoom
    BY <1>4 DEF ReadsByte, ReadLineEnd, ReadCarriageReturn, ReadOther, Reads,
                HandleInputBehindBuffer
  <2>2. Len(HasBeenRead') = Len(HasBeenRead) + 1
    <3>1. client \in Client /\ HasBeenRead \in Text
      BY <1>1, <2>1, ClientIsThere, ReadIsText
    <3>2. HasBeenRead' = Append(HasBeenRead, <<Head(wire), client>>) /\ Head(wire) \in Byte
      BY <1>1, <2>1, ByteRead
    <3> QED
      BY <3>1, <3>2, ByteAppended
  <2>3. Unended(HasBeenRead) = Len(buf)
    <3>1. Splits(lines, buf, HasBeenRead)
      BY <2>1 DEF IInv, LinesAreRead, WindowsSocket, AtWindowsTerminal
    <3> QED
      BY <3>1 DEF Splits, Spells
  <2>4. LongLine(Len(HasBeenRead)) <=> ~HasRoom
    <3>1. SubSeq(typed, 1, Len(HasBeenRead)) = HasBeenRead
      BY <1>1, ReadIsText DEF HasBeenRead
    <3>2. Len(buf) \in Nat /\ BufferLength \in Nat
      BY <1>1, BufferAssumption DEF TypeOK
    <3>3. LongLine(Len(HasBeenRead)) <=> Unended(HasBeenRead) >= BufferLength
      BY <3>1 DEF LongLine
    <3> QED
      BY <2>3, <3>2, <3>3 DEF HasRoom
  <2>5. \A n \in 0 .. Len(HasBeenRead) - 1 : ~LongLine(n)
    BY <1>0, <2>1
  <2>6. (\E n \in 0 .. Len(HasBeenRead) : LongLine(n)) <=> ~HasRoom
    BY <1>1, <2>4, <2>5
  <2>7. \A n \in 0 .. Len(HasBeenRead) : LongLine(n)' <=> LongLine(n)
    BY <2>1 DEF LongLine
  <2>8. 0 .. Len(HasBeenRead') - 1 = 0 .. Len(HasBeenRead)
    BY <1>1, <2>2
  <2> QED
    BY <2>1, <2>6, <2>7, <2>8
<1>5. CASE Fgets
  BY <1>5 DEF Fgets, WindowsSocket
<1> QED
  BY <1>2, <1>3, <1>4, <1>5, StepKinds

LEMMA InvStep ==
  ASSUME IInv, [Next]_consoleVars
  PROVE  IInv'
<1>1. TypeOK /\ WireIsUnread /\ Connected /\ TerminalInput /\ Typists
  BY DEF IInv
<1>2. TypeOK' /\ WireIsUnread' /\ Connected' /\ TerminalInput' /\ Typists'
  BY <1>1, TypeStep, WireStep, ConnectedStep, TerminalStep, TypistsStep
<1>3. LinesAreRead' /\ OverrunAfterLongLine'
  BY LinesStep, OverrunStep
<1> QED
  BY <1>2, <1>3 DEF IInv

(* Wire, buffer, commands and connection fit together, on both platforms:  *)
(* the invariant the other theorems follow from.                           *)
THEOREM InvariantHolds == Spec => []IInv
<1>1. ConsoleInit => IInv
  BY InvInit
<1>2. IInv /\ [Next]_consoleVars => IInv'
  BY InvStep
<1> QED
  BY <1>1, <1>2, PTL DEF Spec

-----------------------------------------------------------------------------
(* The state is well typed; no more bytes are kept than stdin_buf has.     *)
THEOREM ConsolesTyped == Spec => []TypeOK
<1>1. IInv => TypeOK
  BY DEF IInv
<1> QED
  BY <1>1, InvariantHolds, PTL

(* The n-th command is what stands between two line feeds of what was      *)
(* typed, until the buffer is full; at the terminal of Windows, when the   *)
(* lines fit what fgets returns at once.                                   *)
THEOREM CommandsAreTyped == Spec => []LinesAreWhatWasTyped
<1>1. IInv => LinesAreWhatWasTyped
  BY DEF IInv, LinesAreRead, LinesAreWhatWasTyped
<1> QED
  BY <1>1, InvariantHolds, PTL

(* The Windows loop writes behind stdin_buf exactly after BUFFER_LENGTH    *)
(* bytes without a line feed, the unix loop and the terminal never.        *)
THEOREM OverrunNeedsLongLine == Spec => []OverrunByLongLineOnly
<1>1. IInv => OverrunByLongLineOnly
  BY DEF IInv, Connected, WindowsSocket, OverrunAfterLongLine, LongLine, OverrunByLongLineOnly
<1> QED
  BY <1>1, InvariantHolds, PTL

(* A command is by the client that is connected, and by such as left       *)
(* within a line.                                                          *)
THEOREM CommandsHaveOneTypist == Spec => OneTypistPerLine
<1>1. ASSUME IInv, [Next]_consoleVars, lines' # lines
      PROVE  ToSet(Last(lines')) \subseteq {client} \union left
  <2>1. TypeOK /\ Connected /\ Typists
    BY <1>1 DEF IInv
  <2>2. CASE ReadsByte
    <3>1. HasRoom /\ lines' = Append(lines, buf)
      BY <1>1, <2>2
         DEF ReadsByte, ReadLineEnd, ReadCarriageReturn, ReadOther, Reads
    <3>2. Last(lines') = buf
      BY <2>1, <3>1, AppendProperties DEF Last, TypeOK
    <3> QED
      BY <2>1, <3>1, <3>2 DEF Typists
  <2>3. CASE Fgets
    <3> DEFINE line == [i \in 1 .. FgetsCount - 1 |-> client]
    <3>1. lines' = Append(lines, line) /\ FgetsDone /\ loop = "read"
      BY <2>3 DEF Fgets
    <3>2. client \in Client /\ FgetsCount \in 1 .. Len(wire)
      BY <2>1, <3>1, ClientIsThere, FgetsTakes
    <3>3. line \in Seq(Client) /\ ToSet(line) \subseteq {client}
      BY <3>2 DEF ToSet
    <3> HIDE DEF line
    <3>4. Last(lines') = line
      BY <2>1, <3>1, <3>3, AppendProperties DEF Last, TypeOK, Client
    <3> QED
      BY <3>3, <3>4
  <2>4. ReadsByte \/ Fgets
    <3>1. ASSUME NEW b \in Byte, Types(b) PROVE FALSE
      BY <1>1, <3>1 DEF Types, ClientTypes
    <3>2. CASE ClientHangsUp \/ UNCHANGED consoleVars
      BY <1>1, <3>2, LeavingKeepsText
    <3>3. CASE Moves
      BY <1>1, <3>3, MovesKeepText DEF IInv
    <3>4. CASE HandleInputBehindBuffer
      BY <1>1, <3>4 DEF HandleInputBehindBuffer
    <3> QED
      BY <1>1, <3>1, <3>2, <3>3, <3>4, StepKinds
  <2> QED
    BY <2>2, <2>3, <2>4
<1>2. IInv /\ [Next]_consoleVars =>
        [lines' # lines => ToSet(Last(lines')) \subseteq {client} \union left]_consoleVars
  BY <1>1
<1> QED
  BY <1>2, InvariantHolds, PTL DEF Spec, OneTypistPerLine

(* The unix loop, step by step: a byte that leaves room ends a text without *)
(* a long line, the byte that fills the buffer leaves lines and buffer as   *)
(* typed, and from then on both stay.                                      *)
LEMMA LongLineStep ==
  ASSUME IInv, UnixStopsInLongLine, [Next]_consoleVars
  PROVE  UnixStopsInLongLine'
<1> SUFFICES ASSUME platform = "unix", platform' = platform PROVE UnixStopsInLongLine'
  BY StepKinds DEF UnixStopsInLongLine
<1> DEFINE prefix(n) == SubSeq(typed, 1, n)
<1>1. /\ TypeOK /\ WireIsUnread /\ Connected /\ ~AtWindowsTerminal
      /\ Len(HasBeenRead) \in Nat /\ Len(HasBeenRead) <= Len(typed)
      /\ Len(typed) \in Nat /\ Len(wire) \in Nat
      /\ Len(HasBeenRead) = Len(typed) - Len(wire)
  BY ReadIsText DEF IInv, AtWindowsTerminal
<1>2. ASSUME NEW b \in Byte, Types(b) PROVE UnixStopsInLongLine'
  <2>1. /\ HasBeenRead' = HasBeenRead /\ UNCHANGED <<buf, lines>> /\ HasRoom' = HasRoom
        /\ \A n \in 0 .. Len(HasBeenRead) : SubSeq(typed', 1, n) = SubSeq(typed, 1, n)
    BY <1>1, <1>2, ByteTyped DEF Types, ClientTypes, HasRoom
  <2>2. \A n \in 0 .. Len(HasBeenRead) :
          /\ Unended(SubSeq(typed', 1, n)) = Unended(SubSeq(typed, 1, n))
          /\ Splits(lines', buf', SubSeq(typed', 1, n)) <=> Splits(lines, buf, SubSeq(typed, 1, n))
    BY <2>1
  <2> QED
    BY <2>1, <2>2 DEF UnixStopsInLongLine
<1>3. CASE ClientHangsUp \/ UNCHANGED consoleVars
  BY <1>3, LeavingKeepsText DEF UnixStopsInLongLine, HasRoom
<1>4. CASE Moves
  <2>1. UNCHANGED <<buf, lines, typed>> /\ HasRoom' = HasRoom /\ (HasRoom => HasBeenRead' = HasBeenRead)
    BY <1>1, <1>4, MovesKeepText DEF HasRoom
  <2>2. Len(HasBeenRead') >= Len(HasBeenRead) /\ Len(HasBeenRead') \in Nat
    <3>1. wire' = wire \/ wire' = <<>>
      BY <1>4 DEF Moves, WaitForConnection, UnixMoves, ListenFails, ReadEndOfFile, ReadError,
                  ReadFull, CloseSocket, RecvEnds
    <3>2. CASE wire' = wire
      BY <1>1, <2>1, <3>2 DEF HasBeenRead
    <3>3. CASE wire' = <<>>
      <4>1. HasBeenRead' = SubSeq(typed, 1, Len(typed))
        BY <1>1, <2>1, <3>3 DEF HasBeenRead
      <4> QED
        BY <1>1, <4>1 DEF TypeOK
    <3> QED
      BY <3>1, <3>2, <3>3
  <2>3. \A n \in 0 .. Len(HasBeenRead) : n \in 0 .. Len(HasBeenRead')
    BY <1>1, <2>2
  <2> QED
    BY <2>1, <2>3 DEF UnixStopsInLongLine
<1>5. CASE ReadsByte
  <2>1. /\ HasRoom /\ wire # <<>> /\ wire' = Tail(wire) /\ UNCHANGED <<typed, client>>
        /\ loop = "read"
    BY <1>5 DEF ReadsByte, ReadLineEnd, ReadCarriageReturn, ReadOther, Reads
  <2>2. Splits(lines', buf', HasBeenRead')
    BY <1>5, LinesAfterByte
  <2>3. Len(HasBeenRead') = Len(HasBeenRead) + 1 /\ HasBeenRead' = SubSeq(typed, 1, Len(HasBeenRead) + 1)
    <3>1. client \in Client /\ HasBeenRead \in Text
      BY <1>1, <2>1, ClientIsThere, ReadIsText
    <3>2. HasBeenRead' = Append(HasBeenRead, <<Head(wire), client>>) /\ Head(wire) \in Byte
      BY <1>1, <2>1, ByteRead
    <3>3. Len(wire') = Len(wire) - 1
      BY <1>1, <2>1, EmptySeq, HeadTailProperties DEF TypeOK
    <3>4. HasBeenRead' = SubSeq(typed, 1, Len(HasBeenRead) + 1)
      BY <1>1, <2>1, <3>3 DEF HasBeenRead
    <3>5. Len(HasBeenRead') = Len(HasBeenRead) + 1
      BY <3>1, <3>2, ByteAppended
    <3> QED
      BY <3>4, <3>5
  <2>4. Unended(prefix(Len(HasBeenRead) + 1)) = Len(buf')
    BY <2>2, <2>3 DEF Splits, Spells
  <2>5. CASE ~HasRoom'
    <3>1. Len(HasBeenRead') \in 0 .. Len(HasBeenRead') /\ typed' = typed
      BY <1>1, <2>1, <2>3
    <3> QED
      BY <2>2, <2>3, <2>5, <3>1 DEF UnixStopsInLongLine
  <2>6. CASE HasRoom'
    <3>1. \A n \in 0 .. Len(HasBeenRead') : n \in 0 .. Len(HasBeenRead) \/ n = Len(HasBeenRead) + 1
      BY <1>1, <2>3
    <3>2. Unended(prefix(Len(HasBeenRead) + 1)) < BufferLength
      BY <2>4, <2>6 DEF HasRoom
    <3> QED
      BY <2>1, <2>6, <3>1, <3>2 DEF UnixStopsInLongLine
  <2> QED
    BY <2>5, <2>6
<1> QED
  BY <1>2, <1>3, <1>4, <1>5, StepKinds

(* The unix loop stops exactly within a line of BUFFER_LENGTH bytes, with   *)
(* every line before it handed on as typed.                                *)
THEOREM UnixStopsExactly == Spec => []UnixStopsInLongLine
<1>1. ConsoleInit => UnixStopsInLongLine
  <2> SUFFICES ASSUME ConsoleInit PROVE UnixStopsInLongLine
    OBVIOUS
  <2>1. typed = <<>> /\ buf = <<>> /\ wire = <<>> /\ HasBeenRead = <<>>
    BY DEF ConsoleInit, Init, HasBeenRead
  <2>2. \A n \in 0 .. Len(HasBeenRead) : SubSeq(typed, 1, n) = <<>>
    BY <2>1
  <2>3. Unended(<<>>) = 0
    <3>1. UnendedAt(<<>>) = {}
      BY DEF UnendedAt
    <3> QED
      BY <3>1, FS_EmptySet DEF Unended
  <2> QED
    <3>1. HasRoom /\ 0 < BufferLength
      BY <2>1, BufferAssumption DEF HasRoom
    <3>2. \A n \in 0 .. Len(HasBeenRead) : Unended(SubSeq(typed, 1, n)) < BufferLength
      BY <2>2, <2>3, <3>1
    <3> QED
      BY <3>1, <3>2 DEF UnixStopsInLongLine
<1>2. IInv /\ UnixStopsInLongLine /\ [Next]_consoleVars => UnixStopsInLongLine'
  BY LongLineStep
<1> QED
  BY <1>1, <1>2, InvariantHolds, PTL DEF Spec
=============================================================================
