----------------------------- MODULE CommandLine ----------------------------
(***************************************************************************)
(* The commands of mdg_chat_client.c: how mdg_chat_client_input finds the  *)
(* handler of a line, and how the handlers take its arguments apart.  What *)
(* a handler asks of the library is a tuple with the name of the request;  *)
(* a refusal is printed and asks nothing.  A name is one token here.       *)
(*                                                                         *)
(* The parser works in place: it writes terminators behind the words it    *)
(* has found, so a word below is what a C string at its start holds once   *)
(* arg_decode_gotonext has passed it.                                      *)
(***************************************************************************)
EXTENDS HexCodec

CONSTANTS
  KeyBytes,            \* MDG_PEER_ID_SIZE
  MaxDataBytes,        \* the size of the data array of send_hex_handler
  MaxConnectionCount,  \* MDG_MAX_CONNECTION_COUNT
  DurationValues       \* how many values a uint32_t has

ASSUME CommandAssumption ==
  /\ KeyBytes \in Nat \ {0} /\ MaxDataBytes \in Nat /\ MaxConnectionCount \in Nat
  /\ DurationValues \in Nat /\ DurationValues > 120

-----------------------------------------------------------------------------
(* Each row of the tables: short name, long name, request.                 *)
advanced_commands == <<
  <<"/c", "/connect", "connect">>,
  <<"/d", "/disconnect", "disconnect">>,
  <<"/s-a", "/send-to-peer-append", "append">>,
  <<"/sx-a", "/send-hex-to-peer-append", "append hex">>,
  <<"/atp", "/add-test-pairing", "add">>,
  <<"/hexm", "/hex-mode", "hex mode">>,
  <<"/agp", "/agressive_ping", "ping">>,
  <<"/pl", "/pair-local", "pair local">>,
  <<"/pcl", "/place-call-local", "call local">>,
  <<"/spct", "/set-place-call-timeout", "timeout">>,
  <<"/t_dic", "/test_delay_call", "delay">>,
  <<"/t_rand", "/test_random_func", "random">>,
  <<"/x_loc", "/x_test_log_loc", "log">>,
  <<"/x_rpt", "/x_reg_push", "register">>,
  <<"/x_tsrv", "/x_test_service", "service">>,
  <<"/apm", "/access-point-mode", "ap mode">>,
  <<"/sll", "/start-local-listener", "listen">>,
  <<"/kll", "/kill-local-listener", "stop listening">>,
  <<"/ota", "/ota-demo", "update">> >>

basic_commands == <<
  <<"/email", "/email", "email">>,
  <<"/s", "/status", "status">>,
  <<"/who", "/whoami", "whoami">>,
  <<"/op", "/open-for-pairing", "open">>,
  <<"/opf", "/open-for-pairing-preset", "open preset">>,
  <<"/cpm", "/cancel-pairing-mode", "cancel">>,
  <<"/pair", "/pair-remote", "pair">>,
  <<"/pcr", "/place-call-remote", "call">>,
  <<"/send", "/send-data-to-peer", "send">>,
  <<"/send-hex", "/send-hex-data-to-peer", "send hex">>,
  <<"/info", "/info-on-connection", "info">>,
  <<"/close", "/close-connection", "close">>,
  <<"/lp", "/list-pairings", "list">>,
  <<"/rmp", "/remove-pairing", "revoke">>,
  <<"/rmall", "/remove-all-pairings", "revoke all">>,
  <<"/h", "/help-basic", "help">>,
  <<"/h2", "/help-advanced", "advanced help">>,
  <<"/q", "/quit", "quit">> >>

Rows(table, name) == {i \in 1 .. Len(table) : name \in {table[i][1], table[i][2]}}

(* find_command in the basic table, then in the advanced one.              *)
FindCommand(name) ==
  IF Rows(basic_commands, name) # {}
    THEN basic_commands[Min(Rows(basic_commands, name))][3]
  ELSE IF Rows(advanced_commands, name) # {}
    THEN advanced_commands[Min(Rows(advanced_commands, name))][3]
  ELSE "unknown"

-----------------------------------------------------------------------------
(* arg_decode_gotonext fails on empty arguments, else passes one word.     *)
WordEnd(args) == Min({i \in 1 .. Len(args) : args[i] = "sp"} \union {Len(args) + 1})
Word(args) == SubSeq(args, 1, WordEnd(args) - 1)

AfterOneBlank(args) == SubSeq(args, WordEnd(args) + 1, Len(args))

GoToNext(args) ==
  SubSeq(args, Min({i \in WordEnd(args) .. Len(args) : args[i] # "sp"}
                   \union {Len(args) + 1}), Len(args))

(* mdg_chat_client_input skips the blanks behind the name.                 *)
Arguments(text) ==
  SubSeq(text, Min({i \in 1 .. Len(text) : text[i] # "sp"} \union {Len(text) + 1}),
         Len(text))

(* arg_parse_device_public_key.  Too short a rest is refused before the    *)
(* word is passed, a word that is no key after it.                         *)
KeyArgLenient(args) ==
  IF Len(args) < 2 * KeyBytes
    THEN [ok |-> FALSE, key |-> <<>>, rest |-> args]
    ELSE LET key == Decode(Word(args), KeyBytes)
         IN  [ok |-> key.ok, key |-> key.bytes, rest |-> GoToNext(args)]

KeyArg(args) ==
  IF Len(args) < 2 * KeyBytes
    THEN [ok |-> FALSE, key |-> <<>>, rest |-> args]
    ELSE LET key == Decode(Word(args), KeyBytes)
         IN  [ok |-> Len(Word(args)) = 2 * KeyBytes /\ key.ok,
              key |-> key.bytes, rest |-> GoToNext(args)]

(* strtol: the number at the start of a word, 0 if there is none.          *)
Strtol(word) ==
  LET sign == IF word # <<>> /\ word[1] = "dash" THEN 1 ELSE 0
      IsDigit(c) == c \in ToSet(SubSeq(Hex, 1, 10))
      end == Min({i \in sign + 1 .. Len(word) : ~IsDigit(word[i])} \union {Len(word) + 1})
      digits == SubSeq(word, sign + 1, end - 1)
      number[k \in 0 .. Len(digits)] ==
        IF k = 0 THEN 0 ELSE 10 * number[k - 1] + HexValue(digits[k])
  IN  IF sign = 1 THEN 0 - number[Len(digits)] ELSE number[Len(digits)]

(* set_intparam_handler.                                                   *)
IntArgUnbounded(args, min, max) ==
  [ok |-> args # <<>> /\ min <= Strtol(Word(args)),
   value |-> Strtol(Word(args)), rest |-> GoToNext(args)]

IntArg(args, min, max) ==
  [ok |-> args # <<>> /\ min <= Strtol(Word(args)) /\ Strtol(Word(args)) <= max,
   value |-> Strtol(Word(args)), rest |-> GoToNext(args)]

ConnArg(args) == IntArg(args, -1, MaxConnectionCount + 1)

-----------------------------------------------------------------------------
Refused == <<"refused">>

(* What an array on the stack holds before it is filled: no known bytes.   *)
Uninitialized == <<256>>

(* send_handler, send_append_handler and their hex variants.               *)
Send(args) ==
  LET conn == ConnArg(args)
  IN  IF conn.ok THEN <<"send", conn.value, conn.rest>> ELSE Refused

SendAppend(args) ==
  LET conn == ConnArg(args)
      flush == IntArg(conn.rest, 0, 1)
  IN  IF conn.ok /\ flush.ok THEN <<"append", conn.value, flush.rest, flush.value>>
      ELSE Refused

HexData(rest) ==
  [ok |-> /\ Len(rest) >= 2 /\ Len(rest) % 2 = 0
          /\ Len(rest) \div 2 <= MaxDataBytes
          /\ Decode(rest, Len(rest) \div 2).ok,
   bytes |-> Decode(rest, Len(rest) \div 2).bytes]

SendHex(args) ==
  LET conn == ConnArg(args)
      data == HexData(conn.rest)
  IN  IF conn.ok /\ data.ok THEN <<"send", conn.value, data.bytes>> ELSE Refused

SendHexAppend(args) ==
  LET conn == ConnArg(args)
      flush == IntArg(conn.rest, 0, 1)
      data == HexData(flush.rest)
  IN  IF conn.ok /\ flush.ok /\ data.ok
        THEN <<"append", conn.value, data.bytes, flush.value>> ELSE Refused

(* pair_remote_handler and open_for_pairing_handler_preset_otp take a word,*)
(* remove_pairing_handler and add_test_pairing_handler a key.              *)
OneWord(request, args) == IF args = <<>> THEN Refused ELSE <<request, Word(args)>>
OneKey(request, args) == IF KeyArg(args).ok THEN <<request, KeyArg(args).key>> ELSE Refused

(* A number that is cut to the 16 bits of a port.                          *)
StartLocalListener(args) ==
  <<"listen", IF args = <<>> THEN 0 ELSE Strtol(Word(args)) % 65536>>

(* aggressive_ping_handler and open_for_pairing_handler: two minutes if no *)
(* duration is given, else what 32 bits hold of it.                        *)
ForDuration(request, args) ==
  <<request, IF args = <<>> THEN 120 ELSE Strtol(Word(args)) % DurationValues>>

ConnectionId(request, args) ==
  LET conn == IntArg(args, -1, 1000)
  IN  IF conn.ok THEN <<request, conn.value>> ELSE Refused

(* place_call_remote_handler does not look at what became of the key.      *)
ProtocolArg(rest) == IF rest = <<>> THEN <<"chat-client">> ELSE Word(rest)

PlaceCallRemote(args) ==
  LET key == KeyArg(args)
  IN  <<"call", IF key.ok THEN key.key ELSE Uninitialized, ProtocolArg(key.rest)>>

PlaceCallLocal(args) ==
  LET key == KeyArg(args)
      host == key.rest
      port == IntArg(GoToNext(host), 1, 65535)
  IN  IF key.ok /\ host # <<>> /\ port.ok
        THEN <<"call local", key.key, ProtocolArg(port.rest), Word(host), port.value>>
        ELSE Refused

PairLocal(args) ==
  LET host == GoToNext(args)
      port == IntArg(GoToNext(host), 1, 65535)
  IN  IF args # <<>> /\ host # <<>> /\ port.ok
        THEN <<"pair local", Word(args), Word(host), port.value>> ELSE Refused

RegisterPeerToken(args) ==
  LET key == KeyArg(args)
      locale == GoToNext(key.rest)
  IN  IF key.ok /\ key.rest # <<>> /\ locale # <<>>
        THEN <<"register", key.key, Word(key.rest), Word(locale)>> ELSE Refused
=============================================================================
