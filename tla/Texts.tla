-------------------------------- MODULE Texts --------------------------------
(***************************************************************************)
(* The text processing of the demo client and the iOS application, on any  *)
(* text a user or a peer may give: a text grows by one character after the *)
(* other, and each property compares an operator that follows the code     *)
(* with a plain definition of what it should return.                       *)
(***************************************************************************)
EXTENDS CommandLine, OneTimePassword, ConsoleText

CONSTANTS
  Alphabet,      \* sets of characters, and bounds on the texts made of them
  LinePiece,     \* half the print buffer: bytes printed at once on one line
  BlockPiece     \* bytes printed at once in lines of their own

ASSUME TextAssumption ==
  /\ \A a \in Alphabet : a.length \in Nat
  /\ LinePiece \in Nat \ {0} /\ BlockPiece \in 1 .. LinePiece - 1

VARIABLES text, alphabet

Init == text = <<>> /\ alphabet \in Alphabet

Type(c) ==
  /\ Len(text) < alphabet.length
  /\ text' = Append(text, c)
  /\ UNCHANGED alphabet

Next == \E c \in alphabet.chars : Type(c)

Spec == Init /\ [][Next]_<<text, alphabet>>

-----------------------------------------------------------------------------
(* Plain definitions.  The words of a text, and the text from its n-th on. *)
Starts(t) == {i \in 1 .. Len(t) : t[i] # "sp" /\ (i = 1 \/ t[i - 1] = "sp")}

FromWord(t, n) ==
  IF n > Cardinality(Starts(t)) THEN <<>> ELSE SubSeq(t, Nth(Starts(t), n), Len(t))

EndOfWord(t, start) ==
  CHOOSE e \in start .. Len(t) :
    /\ \A i \in start .. e : t[i] # "sp"
    /\ e = Len(t) \/ t[e + 1] = "sp"

Words(t) ==
  [n \in 1 .. Cardinality(Starts(t)) |->
    LET start == Nth(Starts(t), n) IN SubSeq(t, start, EndOfWord(t, start))]

HexDigits(t) == Selected(t, DigitsAt(t))

(* The bytes of which the digits are the text.                             *)
BytesOf(digits) ==
  [i \in 1 .. Len(digits) \div 2 |->
    16 * HexValue(digits[2 * i - 1]) + HexValue(digits[2 * i])]

Ports == 0 .. 65535

IsKey(word) == Len(word) = 2 * KeyBytes /\ \A i \in 1 .. Len(word) : IsHex(word[i])

Passed(args, n) ==
  LET rest[k \in 0 .. n] == IF k = 0 THEN args ELSE GoToNext(rest[k - 1]) IN rest[n]

args == Arguments(text)

(* Some bytes to print.                                                    *)
Data == [i \in 1 .. Len(text) |-> IF IsHex(text[i]) THEN HexValue(text[i]) ELSE (255 - i) % 256]

-----------------------------------------------------------------------------
(* The arguments are the words between blanks: after n words the parser    *)
(* stands at the next word or at the end, whatever the blanks.             *)
WordsAreSplitAtBlanks ==
  /\ \A n \in 0 .. Len(Words(text)) : Passed(args, n) = FromWord(text, n + 1)
  /\ \A n \in 1 .. Len(Words(text)) : Word(Passed(args, n - 1)) = Words(text)[n]

(* A key is taken exactly if the first word consists of all its digits,    *)
(* though the decoder skips what is no digit and the length is compared    *)
(* with the rest of the line first.                                        *)
KeyIsFirstWord ==
  LET first == Words(text)[1]
  IN  /\ KeyArg(args).ok <=> Words(text) # <<>> /\ IsKey(first)
      /\ KeyArg(args).ok =>
           /\ KeyArg(args).key = BytesOf(first)
           /\ KeyArg(args).rest = FromWord(text, 2)

(* A message is the rest of the line behind the words in front of it, with *)
(* its blanks; a hex message is what its digits say, and has no others.    *)
MessageIsTheRest ==
  \A a \in {args} :
    /\ \A r \in {Send(a)} : r # Refused => r[3] = FromWord(text, 2)
    /\ \A r \in {SendAppend(a)} : r # Refused => r[3] = FromWord(text, 3)
    /\ \A r \in {<<SendHex(a), FromWord(text, 2)>>, <<SendHexAppend(a), FromWord(text, 3)>>} :
         r[1] # Refused =>
           /\ HexDigits(r[2]) = r[2] /\ Len(r[2]) = 2 * Len(r[1][3])
           /\ r[1][3] = BytesOf(r[2]) /\ Len(r[1][3]) \in 1 .. MaxDataBytes

(* No request is made without the words it needs, and no empty word is     *)
(* handed to the library.                                                  *)
RequestsHaveTheirWords ==
  \A a \in {args} :
    \A r \in {[asked |-> OneWord("pair", a), words |-> 1, texts |-> {2}],
             [asked |-> OneKey("revoke", a), words |-> 1, texts |-> {}],
             [asked |-> Send(a), words |-> 1, texts |-> {}],
             [asked |-> SendAppend(a), words |-> 2, texts |-> {}],
             [asked |-> SendHex(a), words |-> 2, texts |-> {}],
             [asked |-> SendHexAppend(a), words |-> 3, texts |-> {}],
             [asked |-> PairLocal(a), words |-> 3, texts |-> {2, 3}],
             [asked |-> PlaceCallRemote(a), words |-> 0, texts |-> {3}],
             [asked |-> PlaceCallLocal(a), words |-> 3, texts |-> {3, 4}],
             [asked |-> RegisterPeerToken(a), words |-> 3, texts |-> {3, 4}],
             [asked |-> ConnectionId("close", a), words |-> 1, texts |-> {}]} :
      r.asked # Refused =>
        Len(Words(text)) >= r.words /\ \A i \in r.texts : r.asked[i] # <<>>

(* A call is placed with the key that was typed, and the protocol behind   *)
(* it if there is one.  Only /pcr places one without a key: it then calls  *)
(* an uninitialised key, and takes the word that is no key for the         *)
(* protocol if the line is shorter than a key.                             *)
CalledKeyWasTyped ==
  \A a \in {args}, words \in {Words(text)} :
    \A remote \in {PlaceCallRemote(a)}, local \in {PlaceCallLocal(a)} :
      LET keyTyped == words # <<>> /\ IsKey(words[1])
          Typed(n) == IF n > Len(words) THEN <<"chat-client">> ELSE words[n]
      IN  /\ local # Refused => keyTyped /\ local[2] = BytesOf(words[1]) /\ local[3] = Typed(4)
          /\ remote[2] = IF keyTyped THEN BytesOf(words[1]) ELSE Uninitialized
          /\ remote[3] = Typed(IF Len(FromWord(text, 1)) < 2 * KeyBytes THEN 1 ELSE 2)

(* A number in a request is the typed one.  What set_intparam_handler reads*)
(* is refused exactly outside the range it is given, which lets -1 and one *)
(* more than there are pass for the id of a connection.  The port to listen*)
(* at and the durations are read without a range: they are what 16 and 32  *)
(* bits keep, so the typed ones exactly if those fit, and a duration is not*)
(* compared with the longest that the library takes.                       *)
NumbersAreTyped ==
  \A a \in {args}, words \in {Words(text)} :
    LET Checked(request, n, i, range) ==
          /\ request # Refused <=> n <= Len(words) /\ Strtol(words[n]) \in range
          /\ request # Refused => request[i] = Strtol(words[n])
        Unchecked(request, default, range) ==
          LET typed == IF words = <<>> THEN default ELSE Strtol(words[1])
          IN  request[2] \in range /\ (request[2] = typed <=> typed \in range)
    IN  /\ Checked(Send(a), 1, 2, -1 .. MaxConnectionCount + 1)
        /\ Checked(ConnectionId("close", a), 1, 2, -1 .. 1000)
        /\ Checked(PairLocal(a), 3, 4, Ports \ {0})
        /\ \A r \in {PlaceCallLocal(a)} :
             r # Refused => r[5] = Strtol(words[3]) /\ r[5] \in Ports \ {0}
        /\ Unchecked(StartLocalListener(a), 0, Ports)
        /\ Unchecked(ForDuration("ping", a), 120, 0 .. DurationValues - 1)

(* The decoder accepts exactly the texts with two digits for each byte,    *)
(* wherever other characters are in between, and encoding its bytes gives  *)
(* the digits back.                                                        *)
DecodeCountsDigits ==
  \A n \in 0 .. alphabet.length \div 2 :
    /\ Decode(text, n).ok <=> Len(HexDigits(text)) = 2 * n
    /\ Decode(text, n).ok =>
         /\ Decode(text, n).bytes = BytesOf(HexDigits(text))
         /\ Decode(Encode(Decode(text, n).bytes), n) = Decode(text, n)

(* However data is cut for printing, the pieces are the encoded data.  On  *)
(* lines of their own they fit the buffer with their terminators; on one   *)
(* line they do so only if the data has fewer bytes than half the buffer.  *)
PiecesAreTheData ==
  LET Fits(piece) == \A p \in ToSet(Pieces(Data, piece)) : Len(p) + 1 <= 2 * LinePiece
  IN  /\ FlattenSeq(Pieces(Data, LinePiece)) = Encode(Data)
      /\ FlattenSeq(Pieces(Data, BlockPiece)) = Encode(Data)
      /\ Fits(BlockPiece)
      /\ Fits(LinePiece) <=> Len(Data) < LinePiece

(* What the demo prints of a password, typed into the application, becomes *)
(* the printed form of the digits that are kept.  It is left as it is      *)
(* exactly if the password has only digits, and no more than are kept: the *)
(* words that /opf takes may have others and more.                         *)
PasswordsLookTheSame ==
  LET typed == Format(PrettyPrintOtp(text))
  IN  /\ typed = PrettyPrintOtp(Kept(text))
      /\ typed = PrettyPrintOtp(text) <=>
           Len(text) <= OtpLength /\ \A i \in 1 .. Len(text) : text[i] \in Decimal

(* Formatting the text field again, as each change of it does, changes     *)
(* nothing and keeps the digits.                                           *)
FormatIsStable ==
  /\ Format(Format(text)) = Format(text)
  /\ Kept(Format(text)) = Kept(text)

(* The conversion of line ends is right exactly for texts with no line     *)
(* feed before their end.                                                  *)
LineFeedsOnlyAtTheEnd ==
  LET right == FlattenSeq([i \in 1 .. Len(text) |->
                 IF text[i] = "lf" THEN <<"cr", "lf">> ELSE <<text[i]>>])
  IN  Converted(text) = right <=> \A i \in 1 .. Len(text) - 1 : text[i] # "lf"

(* Every name in the two tables of commands, short or long, finds its own  *)
(* row: no name is taken twice.                                            *)
ASSUME NamesFindTheirRows ==
  \A row \in ToSet(basic_commands) \union ToSet(advanced_commands) :
    FindCommand(row[1]) = row[3] /\ FindCommand(row[2]) = row[3]

-----------------------------------------------------------------------------
(* Together: what a handler hands on is what the user has typed, its words,*)
(* the rest of the line behind them, its keys and its numbers.             *)
ArgumentsAreWords == WordsAreSplitAtBlanks /\ MessageIsTheRest
KeysAreTyped == KeyIsFirstWord /\ CalledKeyWasTyped
RequestsAreComplete == RequestsHaveTheirWords /\ NumbersAreTyped

(* Hexadecimal text stands for its bytes both ways, in one piece or many.  *)
HexIsFaithful == DecodeCountsDigits /\ PiecesAreTheData

(* A password has one printed form in the application, whatever of the     *)
(* demo's is typed there.                                                  *)
PasswordHasOneForm == PasswordsLookTheSame /\ FormatIsStable
=============================================================================
