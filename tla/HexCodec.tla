------------------------------ MODULE HexCodec ------------------------------
(***************************************************************************)
(* mdg_util.c: bytes to hexadecimal text and back, and the two ways in     *)
(* which the demo prints the data of a peer in hex.  A text is a sequence  *)
(* of characters.                                                          *)
(***************************************************************************)
EXTENDS Integers, Sequences, SequencesExt, FiniteSetsExt

Hex == <<"0", "1", "2", "3", "4", "5", "6", "7", "8", "9",
         "a", "b", "c", "d", "e", "f">>

UpperHex == SubSeq(Hex, 1, 10) \o <<"A", "B", "C", "D", "E", "F">>

IsHex(c) == c \in ToSet(Hex) \union ToSet(UpperHex)
HexValue(c) == (CHOOSE v \in 1 .. 16 : c \in {Hex[v], UpperHex[v]}) - 1

(* hex_encode_bytes, without the terminator.                               *)
Encode(bytes) ==
  FlattenSeq([i \in 1 .. Len(bytes) |->
    <<Hex[(bytes[i] \div 16) + 1], Hex[(bytes[i] % 16) + 1]>>])

(* decode_hex_bits skips to the next digit; without one it consumes all.   *)
DigitsAt(text) == {i \in 1 .. Len(text) : IsHex(text[i])}

DecodeBits(text) ==
  LET next == Min(DigitsAt(text))
  IN  IF DigitsAt(text) = {}
        THEN [ok |-> FALSE, value |-> 0, rest |-> <<>>]
        ELSE [ok |-> TRUE, value |-> HexValue(text[next]),
              rest |-> SubSeq(text, next + 1, Len(text))]

(* hex_decode_bytes: n bytes, and no digit left over.  A failing decoder   *)
(* has written the bytes before.                                           *)
DecodeByte(done) ==
  LET b1 == DecodeBits(done.rest)
      b2 == DecodeBits(b1.rest)
  IN  IF done.ok /\ b1.ok /\ b2.ok
        THEN [ok |-> TRUE, rest |-> b2.rest,
              bytes |-> Append(done.bytes, b1.value * 16 + b2.value)]
        ELSE [done EXCEPT !.ok = FALSE]

DecodeBytes(text, n) ==
  LET done[k \in 0 .. n] ==
        IF k = 0 THEN [ok |-> TRUE, rest |-> text, bytes |-> <<>>]
        ELSE DecodeByte(done[k - 1])
  IN  done[n]

DecodeLenient(text, n) ==
  LET done == DecodeBytes(text, n) IN [ok |-> done.ok, bytes |-> done.bytes]

Decode(text, n) ==
  LET done == DecodeBytes(text, n)
  IN  [ok |-> done.ok /\ ~DecodeBits(done.rest).ok, bytes |-> done.bytes]

(* chatclient_print_data_received encodes at most piece bytes at a time.   *)
Pieces(data, piece) ==
  [k \in 1 .. (Len(data) + piece - 1) \div piece |->
    Encode(SubSeq(data, (k - 1) * piece + 1, Min({k * piece, Len(data)})))]
=============================================================================
