----------------------------- MODULE PrivateKey -----------------------------
(***************************************************************************)
(* The identity of the demo client over its starts: the key given on the   *)
(* command line, or else chat_demo_private.key, which is created by the    *)
(* first start.  The library asks for the key once in each process, in     *)
(* mdg_init.  A key is a number; every key that is made is a new one.      *)
(***************************************************************************)
EXTENDS Integers

CONSTANT MaxKeys    \* bound: keys made

ASSUME KeyAssumption == MaxKeys \in Nat

VARIABLES
  keyStage,   \* the process: "down", "load", "save", "write" or "up"
  given,      \* chatclient_private_key_set: a key is on the command line
  pk,         \* chatclient_private_key
  keyFile,    \* what the file holds: a key, NoKey (no file) or Truncated
  made,       \* keys made so far
  keyFault,   \* history: a file operation of this process has failed
  identity    \* history: the key of the last process that had no fault

keyVars == <<keyStage, given, pk, keyFile, made, keyFault, identity>>

NoKey == 0
Truncated == -1
TypedKey == MaxKeys + 1

KeyInit ==
  /\ keyStage = "down" /\ given = FALSE
  /\ pk = NoKey /\ keyFile = NoKey
  /\ made = 0 /\ keyFault = FALSE /\ identity = NoKey

(* main: chatclient_parse_cmd_args, then mdg_init asks for the key.        *)
ParseCmdArgs(arg) ==
  /\ keyStage = "down"
  /\ given' = arg
  /\ pk' = IF arg THEN TypedKey ELSE NoKey
  /\ keyStage' = IF arg THEN "up" ELSE "load"
  /\ keyFault' = FALSE
  /\ UNCHANGED <<keyFile, made, identity>>

(* mdgstorage_load_private_key, chatclient_load_or_create_private_key: a   *)
(* whole key is used.                                                      *)
KeyIsLoaded ==
  /\ keyStage = "load" /\ keyFile \notin {NoKey, Truncated}
  /\ pk' = keyFile
  /\ keyStage' = "up"
  /\ UNCHANGED <<given, keyFile, made, keyFault, identity>>

(* Without one, or if it cannot be read, mdg_make_private_key makes one.   *)
KeyIsMade ==
  /\ keyStage = "load" /\ made < MaxKeys
  /\ pk' = made + 1 /\ made' = made + 1
  /\ keyStage' = "save"
  /\ keyFault' = (keyFile \notin {NoKey, Truncated})
  /\ UNCHANGED <<given, keyFile, identity>>

(* fopen("wb") empties the file, fclose writes it; the results of both and *)
(* of fwrite are not looked at.                                            *)
OpenKeyFile ==
  /\ keyStage = "save"
  /\ \/ keyFile' = Truncated /\ keyStage' = "write" /\ UNCHANGED keyFault
     \/ keyStage' = "up" /\ keyFault' = TRUE /\ UNCHANGED keyFile
  /\ UNCHANGED <<given, pk, made, identity>>

WriteNothing ==
  /\ keyStage = "write"
  /\ keyStage' = "up"
  /\ UNCHANGED <<given, pk, keyFile, made, keyFault, identity>>

WriteKeyFile ==
  /\ keyStage = "write"
  /\ keyStage' = "up"
  /\ \/ keyFile' = pk /\ UNCHANGED keyFault
     \/ keyFault' = TRUE /\ UNCHANGED keyFile
  /\ UNCHANGED <<given, pk, made, identity>>

(* The process ends, perhaps on its way.                                   *)
KeyProcessEnds ==
  /\ keyStage # "down"
  /\ keyStage' = "down"
  /\ identity' = IF keyFault THEN NoKey
                 ELSE IF keyStage = "up" /\ ~given THEN pk ELSE identity
  /\ given' = FALSE /\ pk' = NoKey /\ keyFault' = FALSE
  /\ UNCHANGED <<keyFile, made>>

KeyNext ==
  \/ \E arg \in BOOLEAN : ParseCmdArgs(arg)
  \/ KeyIsLoaded \/ KeyIsMade \/ OpenKeyFile \/ WriteKeyFile
  \/ KeyProcessEnds
=============================================================================
