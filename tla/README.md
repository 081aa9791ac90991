# Verification of the MDG demo clients

This directory holds TLA+ models of the programs in this repository, the TLC
configurations that check them on small instances, and proofs that TLAPS checks
for every instance.

    tlc -workers 2 -config MCPairingStorage_safe.cfg MCPairingStorage
    tlapm PairingStorageProofs.tla

The modules are described in section 2, the runs in 3, the proofs in 4.

The repository publishes the API of the MDG peer library (headers, two HTML
documents, binaries) together with two clients in source: a command line client
in C (`src/demo`) and a chat app for iOS (`src/apps/MDGChat-iOS`). The library
itself is closed. It appears in the models only as an environment: what it may
call, when, and what its documents say its functions do. Every definition of
that kind is marked `external` in the map.

## 1. Inventory

### The command line client

One process with two kinds of threads. The *input thread* runs the main loop,
takes command lines and calls handlers, which call API functions of the library.
The *library threads* call back into the client. The library holds one mutex
from before a callback until after it and takes it inside every API function;
`mdg_mutex_lock` gives it to the client as well, which never uses it. All state
of the client is static variables and three files.

| Component | State | Operations | Interacts with |
|---|---|---|---|
| Pairing storage, `mdg_chat_client.c` 35-41, 55-115, 723-761, 1320-1378 | `chat_pairings`, `chat_pairings_count`, `has_loaded`, `chat_demo_pairings.bin` | load on first use, add, remove, enumerate by index, save | called by the library with its mutex; by `/add-test-pairing` and `/list-pairings` without |
| Console input, `mdg_unix_main.c` 34-86, 130-192 | `stdin_buf`, `rp`, `io_port`, `io_socket` | listen and accept, read a byte, hand on a line, close | hands lines to command dispatch |
| Console output, `mdg_unix_main.c` 88-127 and its copy for Windows | none of its own; `io_socket` | format, convert line ends, send in pieces | called by all threads |
| Windows console, `mdg_windows_main.c` | the same buffer without a bound | `fgets` at the terminal; accept, `select`, `recv` and close on TCP | hands lines to command dispatch |
| Command dispatch and arguments, `mdg_chat_client.c` 128-178, 238-254, 387-406, 1168-1214 | the line, cut in place | find the command, cut and parse arguments | calls the handlers |
| Peer connections, `mdg_chat_client.c` 288-310, 509-648, 889-987, 1262-1318, 1381-1397 | `ap_mode`, `incomingcall_testdelay`; the connections are the library's | place a call, accept one, routing callback, receive callback, send, close, AP mode, revoke | library in both directions |
| Pairing mode and one-time passwords, 334-384, 650-666, 690-721, 1400-1419 | `preset_otp_buffer` | open for pairing, print the OTP, load the preset OTP | input thread writes, library reads |
| Control connection and e-mail, 219-236, 546-560, `mdg_unix_main.c` 202-222 | `client_email`, `chat_demo_email.txt` | connect, disconnect, change the e-mail | |
| Update demo, 781-878, `mdgext_filedownload.h` | the toggle `init` | init, start, cancel | library calls `filedownload_cb` |
| Private key, 1433-1509 | `chatclient_private_key`, its flag, `chat_demo_private.key` | load or create, set from the command line | called by the library at start |
| Hex codec, `mdg_util.c` | none | encode, decode with skipped characters | arguments, printing |

### The iOS client

| Component | State | Operations |
|---|---|---|
| `MDGClient` | three weak delegates, the library's list of connections | `connectTo` reuses a listed connection or places a call; routing and data go to the current delegate |
| Chat view | `connection`, `messages`, `waitingMessageData` | send; when sending fails keep the data, reconnect, send again once connected |
| Peer selection | `waitingConnection` | choose a peer, show its chat when connected |
| `MessageStorage` | `messages`, delegate | add, mark as read |
| Pairing views, `MDGPeers` | peer names | pair, store the typed name when a pairing completes |

Callbacks arrive on a library thread; most of what they do is queued to the main
thread, so a view may be gone, or show something else, when it happens.

### What is hard about this code

* Two threads on one table: the storage functions rely on the mutex of their
  usual caller, and two commands call them without it.
* A save overwrites the only copy, ignores every result, and the process may
  end at any moment: `/quit` is `exit(0)` on the input thread, `mdg_abort` is
  `abort()` on any.
* A loop that deletes from the array it runs over.
* Buffers and counters that outlive the client they belong to, and buffers
  nobody empties.
* A one-shot receive that has to be renewed on every way through a handler.
* Connection ids that are typed by a human and reused by the library.
* Two buffers, the one-time password and the e-mail address, that the input
  thread fills without the mutex while the library may read them.
* A descriptor that keeps its number after its socket was closed.
* Parsing in place, with lengths counted down beside pointers.
* On iOS, main-queue closures that run after the state they were made for.

`PROJECT.json` lists each of these at its line under `hazards`, with the
properties that cover it or the reason why none does.

### What makes each component correct

* Storage: table and file together are one set of peers; each call changes it
  for its own peer, in one instant, and durably once it has answered; an
  enumeration returns exactly that set; a revoked key does not stay in memory or
  file; nothing is stored outside the table, which holds until one peer too many
  is paired.
* Console input: commands are what was typed, in order, complete, and by one
  client each; the loop always gets back to the next client.
* Connections: an open connection has a receive callback; packets are handled
  in order, once, and all of them; a connection made with a paired peer does not
  outlive the pairing; a message goes to the call it was meant for.
* Output: what is sent is what was printed, with each line end converted, to the
  client that is connected; printing comes to an end.
* Commands: what a handler asks of the library is what the user typed: its
  words, its keys, its numbers, the rest of the line as message.
* Pairing mode: whoever pairs needs the password that was asked for last.
* E-mail: the same address in memory, in the file and at the server.
* Update demo: `mdgext_filedownload_init` once, start and cancel in turn.
* Private key: one identity over all starts.
* Hex codec: decoding what was encoded gives it back; what is not a key is
  refused.
* iOS chat: a message is sent at most once, to the peer of its chat; a chat
  shows all stored messages of its peer and no others; what is shown as sent was sent
  or waits.

## 2. Modules

| Module | What it is | Lines |
|---|---|---|
| `PairingSet` | abstract: a durable set of peers with atomic calls | 91 |
| `PairingStorage` | the storage functions, step by step; implements `PairingSet` | 400 |
| `PairingStorageInv` | its inductive invariants | 101 |
| `PairingStorageProofs`, `PairingStorageRefinement` | its proofs, and those of durability and of the refinement | 569, 1148 |
| `PeerConnections` | connection commands and callbacks | 342 |
| `PeerConnectionsProofs` | its inductive invariant and proofs | 786 |
| `ConsoleInput` | the main loop of the unix demo and its line buffer | 166 |
| `WindowsConsole` | the main loop of the Windows demo, over the same state | 66 |
| `Consoles` | both platforms, and what each promises | 115 |
| `ConsolesInv`, `ConsolesProofs` | its inductive invariant and proofs | 63, 1475 |
| `IosChat` | the chat views, the peer list, `MDGClient`, `MessageStorage` | 474 |
| `IosChatInv`, `IosChatProofs` | its inductive invariant and proofs | 91, 2465 |
| `PrivateKey`, `ClientProperties`, `PairingMode`, `UpdateDemo`, `ConsoleOutput` | the small parts of the C client, each with a state of its own | 92, 152, 109, 46, 174 |
| `ClientServices` | these five together, and their properties | 138 |
| `ClientServicesProofs` | its inductive invariant and proofs | 557 |
| `HexCodec`, `CommandLine`, `OneTimePassword`, `ConsoleText` | the functions on texts, as operators | 59, 208, 36, 22 |
| `Texts` | these four over all texts, against plain definitions | 210 |
| `TextsProofs` | its proofs | 4084 |
| `Positions`, `PositionsTheorems` | the n-th of some positions in a text; facts about positions, induction along a text and concatenation, which the proofs of consoles and texts share | 12, 668 |
| `MC...` | the instances TLC checks | |

A definition with a name that says what the code does *not* do
(`AcceptClosingNone`, `SendPartAlone`, `DataReceivedOnce`, ...) stands beside
the one it varies and occurs in no next-state relation. Each is a plausible
mistake; put in place of its neighbour it makes the property named with it in
`PROJECT.json` fail, which shows that the property depends on the code.

### PairingStorage

The variables are the statics of the C file, the file, the mutex, and per thread
a program counter with the function's argument and loop variable. One action is
a piece of a function that something else can come between:

| Action | Code |
|---|---|
| `CallFromLibrary`, `CallFromCommand` | a call with the mutex, or from a command handler without |
| `CheckLoaded`, `ReadFile` | `load_all_pairings_from_file`; the flag is set first |
| `AddFindsPeer`, `AddIsNew`, `AddStore`, `AddIncrement` | the scan, the `memcpy`, the `++` of `mdgstorage_add_pairing` |
| `RemoveSkip`, `RemoveShift`, `RemoveLast`, `RemoveDone` | one turn each of the loop of `mdgstorage_remove_pairing` |
| `LoadPairing`, `LoadPairingEnds` | `mdgstorage_load_pairing` for 0, 1, 2, ... and `list_pairings_handler` |
| `SaveOpen`, `SaveOpenFails`, `SaveClose` | `fopen("wb")` empties the file, the stdio buffer reaches it with `fclose` |
| `Restart` | the process ends and starts again |

The file counts units: the counter is one, each record is one. A short write
keeps a prefix of units; the counter is four bytes and is not split further.
The counter and the table together are smaller than a stdio buffer, so nothing
is written before `fclose`. After an overrun the C program has no defined
behaviour; the model then only restarts. The scan, the read of
the file, a shift and the copy that `fwrite` takes are one step each; that
understates what unlocked commands can do, and the races found need no finer
steps. An enumeration keeps the mutex over all its indices, which is what an API
function of the library does while it looks for a peer. The input thread makes
both kinds of calls: an API function it calls reaches the storage with the mutex
(`CallFromLibrary`), the two commands reach it without (`CallFromCommand`).

### PeerConnections

A callback holds the mutex throughout and an API function takes it, so each is
one step. The library's connection table is modelled from its document: ids are
reused after a connection has gone; `mdg_receive_from_peer` lets one packet in;
`mdg_revoke_pairing` drops the peer's connections. The client's part is what the
callbacks and commands do with it, including their error paths: a first receive
that fails is only printed (`deaf`), a later one closes the connection, and so
does a bootstrap packet of another size. The handler compares
`MAX_PROTOCOL_BYTES` bytes with a literal that is shorter, so whether a bootstrap
connection is recognised is a choice. A packet that is answered by closing the
connection, because `mdg_get_connection_info` fails or the packet is refused, is
not handled. The library accepts calls of its paired peers only, unless AP mode
lets a stranger in; a call over the local network may reach a device that is in
AP mode itself, of which the API document says so (1205-1208, 2115-2118), so such
an open connection with an un-paired peer is legal. `stranger` says which
connections these are. `ReadConsole` and `SendCommand` are two
steps, because a human is in between.

### ConsoleInput, WindowsConsole, Consoles

A byte is a line feed, a carriage return or another, tagged with who typed it.
`loop` is the place in `mdg_demo_start`; the actions are the branches of
`read_from_sock`, and `AfterRead` is what the caller does with its result.
`WindowsConsole` adds the branches in which the other program differs: no
comparison of `rp` with the end of the buffer, `recv` that closes at once, and
`fgets` at the terminal, which takes whole lines. It receives one byte at a time
where the code receives a block and then handles its bytes one by one; nothing
the program can see differs. `Consoles` chooses the platform and whether a port
was given, as build and command line do. `typed` and `left` record history for
the properties. An error on standard input and `EAGAIN` are left out: the
terminal is blocking and does not fail. A reset of the connection occurs when
nothing is unread, because with unread data it loses some, in a way the program
cannot influence.

### IosChat

A chat view is a record with its connection, its waiting text and what it shows;
`stack` holds the views above the peer list. A callback of the library is one
step on its thread and leaves a closure in `mainQueue`; the main thread takes
closures in order, one between two actions of the user (`ListHearsConnected`,
`ChatHearsConnected`, `ChatHearsDisconnected`, `ChatHearsNotAvailable`,
`AddMessage`). A closure finds the view it was made for wherever that is by
then: visible, covered or gone. `MessageStorage.add` is three steps on either
thread (`AddReads`, `AddWrites`, `AddNotifies`): both append to the same array
without a lock, so an append may overwrite what the other thread has stored since
it read the array (`erased` has these messages), and may bring back what was lost.
After a view is shown or uncovered it makes itself the delegate
(`ListWillAppear`, `ChatWillAppear`) and then loads the messages
(`LoadMessages`), in steps of their own with the library in between; until then
callbacks still go to the view before it. `Send` follows `send(data:)`, with the
call that throws, `connectTo` that returns a listed connection in any state or
places a call, and the clearing of the waiting text; the append of the text then
goes on beside the library.

### ClientServices

`PrivateKey` has the process and its file over starts; `ClientProperties` the
steps of `/email` beside the library's thread, which connects on its own;
`PairingMode` the filling of `preset_otp_buffer` beside
`mdgstorage_load_preset_pairing_token`, in two steps each; `UpdateDemo` the
toggle; `ConsoleOutput` the descriptors, the main loop that opens and closes
sockets and the send loop that runs beside it on the library's thread. Main loop
and library both know a socket by its number only, and either may close the
other's. `send` is called without `MSG_NOSIGNAL` (`mdg_unix_main.c` 108) and
nothing under `src/` handles SIGPIPE, so printing to a client that has gone may
end the process (`SendEndsProcess`); the model of the console input, which has no
output, assumes that it goes on. They share
no variable, so a behaviour of `ClientServices` exercises one of them, which
`Init` chooses: the product of their states would show nothing more.

### Texts

`Arguments`, `Word`, `GoToNext` and the handlers of `CommandLine` follow the
pointer and the length that the C functions count; a request to the library is a
tuple with what is handed on. `Decode` and `Encode` follow `mdg_util.c`,
`PrettyPrintOtp` and `Format` the two programs that print a password, `Converted`
the loop that puts a carriage return before a line feed. A text grows by one
character per step, so that every short text is a state, and each property
compares these operators with a definition that does not know how the code goes
about it: which positions of a text hold a digit or begin a word, and which is
the n-th of them (`Positions`). What goes through a text, as the decoder, the
conversion and `strtol` do, is a recursive function of the position it has got to,
of which the proofs can speak. Numbers are decimal as `strtol` reads them; the
port of `/start-local-listener` is cut to 16 bits and a duration to the 32 of its
parameter.

## 3. Runs

Passing runs:

| Run | Shows | Instance |
|---|---|---|
| `storage_safe` | With the mutex and a working file system the storage implements `PairingSet`: records are unique, what was answered is in the file, and each call changes the set for its own peer in one instant; this until a peer is added to a full table, when, and only when, a record is written behind it | 4 peers, 3 slots, 2 threads, restarts except inside a save |
| `storage_faults` | What is left when `fopen` fails, writes are short and the process ends inside a save: the inductive invariant, answers and enumerations that agree with memory, wiped keys | the same with all faults |
| `storage_live` | Every call returns, also while a command without the mutex changes the table under it | 2 peers, 2 slots, 2 threads |
| `connections` | Receive callbacks are renewed, packets are handled in order, once and all, for the right call, and no connection made with a paired peer outlives the pairing | 1 peer, 2 ids, 2 calls, 2 packets each, 1 mode change |
| `console` | Commands are what was typed, complete, in order and by one client, until a line fills the buffer, whoever typed its parts; the unix loop stops there, the Windows loop writes behind the buffer; both get to the next client. The inductive invariant | buffer of 3, 3 clients, 6 bytes, both platforms, with a port and without |
| `chat` | A message is sent at most once and to its peer; a chat shows all stored messages of its peer that no append has overwritten, and no others; the chosen chat is shown once connected. The inductive invariant | 2 peers, 2 connections, 2 choices, 1 text, 1 received message, of these 3 together |
| `services` | One identity over all starts; one e-mail address everywhere; a pairing mode with the password asked for; sockets that are the client's and the library's own until a stale number is closed; a send loop that ends. The update demo is only typed | 4 keys, 2 addresses and 5 commands, 4 passwords, 5 updates, 4 descriptors, 2 texts of 4 bytes |
| `text` | Arguments are words, keys are typed, requests complete with the numbers that were typed, hexadecimal text faithful, passwords of one form in the application; and exactly which texts are converted wrongly | all texts of 6 kinds of characters up to 5, of 3 kinds up to 8 and of 2 kinds up to 9 characters |

Runs that end in a violation, each a disagreement of the code with the text its
finding quotes:

| Run | What happens |
|---|---|
| `storage_race` | `/add-test-pairing` and an addition by the library store into one slot and count two; the all-zero record behind is served as a pairing |
| `storage_killed` | the process ends between `fopen` and `fclose`; the pairings of all peers are lost |
| `connections_stale` | a message typed for one call reaches a later call with the same id |
| `chat_lost` | a second message typed while one waits for the connection replaces it; the first is shown as sent and never is |

Some properties state how far the code goes rather than that it is right:
`OverrunIsOnePeerTooMany` (a peer added to a full table is written behind it, and
nothing else is), `UnixStopsInLongLine` (`BUFFER_LENGTH` bytes without a line feed
are the last the unix demo takes in, and what it had by then is right),
`OverrunByLongLineOnly` (the same line makes the Windows demo write behind its
buffer, and nothing else does), `LineFeedsOnlyAtTheEnd` (a character behind a line
feed is lost), `CalledKeyWasTyped` (`/pcr` calls an uninitialised key if none was
typed), `NumbersAreTyped` (see below), `PasswordsLookTheSame` (a preset password
with other characters than digits, or with more than the application keeps, is
changed by it) and `PiecesAreTheData` (256 bytes on one line do not fit the print
buffer). Stated with *exactly if*, they fail when the code is changed in either
direction.

Numbers: `set_intparam_handler` refuses what is outside the range it is given, and
the range of a connection id lets -1 and one more than the number of connections
pass, which the library then has to refuse. The port of `/start-local-listener`
is cut to 16 bits and the durations of `/agp` and `/op` to 32, without a
comparison with the 600 and 120 seconds that `Peer-module-API-C.html` names (1506,
1722): what is handed on is the typed number exactly if it fits.

What no property covers although the code does it, because nothing better can be
said of it: after a short send the beginning of the text is sent again, so the
client does not receive the text; printing to a client that has gone may end the
process by SIGPIPE; after a failed listen the main loop may close a descriptor of
the library, and the library in turn the client's (`crossed`, from which on
`SocketsAreInOrder` claims nothing, since TLC shows `SocketIsTheClients` to fail
there); the update demo starts a download after its initialisation has failed,
which `mdgext_filedownload.h` 35 forbids; a preset password of more than 24
characters overflows the array it is printed from. `hazards` in `PROJECT.json`
names these, and the halves of other hazards that properties except.

### Bounds and why they are enough

* Storage: three slots have a first, a middle and a last record, a full table, and
  a shift of more than one record; with the fourth peer the table is left. Behind
  the overrun nothing is claimed: the model only restarts. Two threads are all
  there can be inside the storage: the holder of the mutex and the input thread.
  `AnswerIsDurable` holds because `Fault = {}` there: an `fopen` that fails or a
  short write is answered with OK, and refutes it.
  `storage_faults` has the same peers, slots and threads, so a failure may meet
  each save, and a restart read what any of them left.
* Connections: two ids and two calls let both calls be open at once or share an
  id one after the other; two packets have an order; one mode change is a
  pairing, a revocation or AP mode. A second peer would only rename calls:
  no action relates two peers, and `connections_stale`, which needs two, has them.
* Console: a buffer of three bytes has a line that fits, one that fits exactly
  and one that does not; with six bytes and three clients a line can start with
  one client and end with another, and a client can come after the buffer is
  full.
* Chat: two peers can be confused; two connections are a call and a reconnect
  of one peer, or one of each; a second choice is a chat on top of another; one
  text of ours, or the note an empty chat gets, and one message of theirs race in
  `MessageStorage`. `MaxEvents` leaves out only what needs all four of these.
* Services: each counter lets the interesting step happen twice with something
  in between; four descriptors are a listening socket, a client's, one leaked and
  one of the library, which may hold two.
* Texts: five characters of six kinds have every combination of two words,
  blanks in front, between and behind, and digits of either kind; eight characters
  of three kinds have four words or a key and its arguments, nine digits a password
  longer than the iOS field keeps. Connection ids go up to 11. A key has one byte,
  data at most one, the print buffers room for a few characters and a duration
  three digits, so that every length around each limit occurs. That every name of a command finds its own row
  is an assumption of `Texts`, which TLC evaluates.
* `MaxCalls`, `MaxPackets`, `MaxToggles`, `MaxClients`, `MaxBytes`, `MaxConns`,
  `MaxChoices`, `MaxTexts`, `MaxData` and the constants of `services` bound what
  the environment does; when it is used up nothing is left to do, so these runs
  do not check for deadlock. `PairingStorage` has no such bound and does.
* `storage_faults` uses symmetry of the peers; it has no liveness property, and
  no operator that chooses among peers.

### Fairness

* `PairingStorage!FairSpec`: a thread inside a storage function keeps running.
  It needs nothing but the processor; the functions wait for nobody. Callers need
  not call and the process need not restart.
* `Consoles!FairSpec`: the main loop runs when it can; it blocks only in
  `accept` and in reading, which are enabled when there is something to accept or
  to read. Clients may stop typing for ever.
* `PeerConnections!FairSpec`: the library delivers a packet it has to a receive
  callback it has. Users and peers promise nothing.
* `IosChat!FairSpec`: the main queue is served, as the system serves it, and the
  library's thread gets through `add`, which waits for nobody.
* `ClientServices!FairSpec`: a command handler that has begun is carried on, and
  the library goes on connecting (it retries for as long as it is told to) and
  opening for pairing. The send loop goes on: `send` blocks only while the client
  reads nothing, and a client that is there reads, or is lost, which ends the loop. A grid connection may be lost again at any time.

## 4. Proofs

All proofs are for every value of the constants.

| Module | Theorem | Statement | Assumes |
|---|---|---|---|
| `PairingStorageProofs` | `TypeCorrect` | `Spec => []TypeOK` | any commands, any faults |
| | `InvariantHolds` | `Spec => []IInv` | `Locked` |
| | `RevokedWiped` | `Spec => []RevokedAreWiped` | `Locked` |
| | `AnswersAgree` | `Spec => []AnswerIsInTable` | `Locked` |
| | `EnumerationExact` | `Spec => []EnumerationIsExact` | `Locked` |
| | `RecordsUnique` | `Spec => []OneRecordPerPeer` | `Locked`, no short writes |
| `PairingStorageRefinement` | `StorageIsPairingSet` | `Spec => IsPairingSet` | `Locked`, no faults |
| | `AnswersDurable` | `Spec => []AnswerIsDurable` | `Locked`, `FileSystemWorks` |
| | `OverrunExactly` | `Spec => []OverrunIsOnePeerTooMany` | `Locked`, `FileSystemWorks` |
| | `OwnCallOnly` | `Spec => OnlyItsOwnCall` | `Locked`, no faults |
| | `ZeroNeverServed` | `Spec => []ZeroIsNoPairing` | `Locked`, no short writes |
| `ConsolesProofs` | `InvariantHolds` | `Spec => []IInv` | |
| | `ConsolesTyped` | `Spec => []TypeOK` | |
| | `CommandsAreTyped` | `Spec => []LinesAreWhatWasTyped` | |
| | `OverrunNeedsLongLine` | `Spec => []OverrunByLongLineOnly` | |
| | `CommandsHaveOneTypist` | `Spec => OneTypistPerLine` | |
| | `UnixStopsExactly` | `Spec => []UnixStopsInLongLine` | |
| `IosChatProofs` | `InvariantHolds` | `Spec => []IInv` | |
| | `ChatTyped` | `Spec => []TypeOK` | |
| | `MessagesSentOnce` | `Spec => []SentAtMostOnce` | |
| | `NoPeerIsMistaken` | `Spec => []PeersAreKeptApart` | |
| | `VisibleChatComplete` | `Spec => []NoMessageIsMissed` | |
| `PeerConnectionsProofs` | `TypeCorrect` | `Spec => []TypeOK` | |
| | `ReceiveIsRenewed` | `Spec => []OpenIsArmed` | |
| | `NoneOutlivesPairing` | `Spec => []PairedStayPaired` | |
| | `HandledInOrder` | `Spec => []PacketsInOrder` | |
| `ClientServicesProofs` | `TypeCorrect` | `Spec => []TypeOK` | |
| | `IdentityKept` | `Spec => []IdentityIsKept` | |
| | `EmailStaysCurrent` | `Spec => []EmailIsCurrent` | |
| | `PasswordAsked` | `Spec => []OpenWithPasswordAsked` | |
| | `SocketsOrdered` | `Spec => []SocketsAreInOrder` | |
| `TextsProofs` | `TypeCorrect` | `Spec => []TextsTyped` | |
| | `ArgumentsSplit` | `Spec => []ArgumentsAreWords` | |
| | `KeysTyped` | `Spec => []KeysAreTyped` | |
| | `RequestsComplete` | `Spec => []RequestsAreComplete` | |
| | `HexFaithful` | `Spec => []HexIsFaithful` | |
| | `PasswordOneForm` | `Spec => []PasswordHasOneForm` | |
| | `LineFeedsAtEnd` | `Spec => []LineFeedsOnlyAtTheEnd` | |

`Locked` says that no command bypasses the mutex (`DirectThread = {}`); without
it `storage_race` refutes the conclusions. `FileSystemWorks` says that files open
and are written whole; the process may still end inside a save, which loses
all pairings (`storage_killed`), but whatever was answered before was in the
file when it was answered. No theorem bounds the number of peers. The other assumptions are those the
modules name: the all-zero record is no peer, the table has a slot, the mutex
has an owner that is no thread, `stdin_buf` has room for two bytes, there is a
connection id and a peer, `NoPeer` is no peer, a key has a byte, a duration of 120 fits its
parameter, a piece on a line of its own is shorter than one on a shared
line, bounds are natural numbers.

### The pairing storage

The properties are not inductive. That an answered removal has removed its peer
needs what the loop knows half way: no record below `idx` is the peer
(`RemoveProgress`), which survives the shift because the records below `idx` do
not move. It also needs that nobody else moves them: a thread in a function owns
the mutex (`Exclusive`). That an addition does not repeat a peer needs that the
peer is in no record from the scan to the increment (`AddProgress`). Wiping
needs that a file read into a fresh table leaves nothing behind its counter, so
the same is required of the file (`FileTail`) and that the table is blank until
the read (`BlankUntilRead`). An enumeration has seen exactly the records below
its index (`EnumerateProgress`). `UniqueRecords` is stated under the assumption
that writes are not short, since a short one leaves zero records. `IInv` is the
conjunction with the types; `storage_faults` also checks it with TLC.
`TypeStep` and `InvStep` are the step lemmas, one case per action and under it
one step per conjunct the action disturbs.

The refinement needs to know what the file holds while nobody saves.
`FileMirrors` says that this is what the table holds, except inside a call that
changes the table: an addition that is about to save has put its own peer behind
the rest, a removal has taken away at most its own (`Modified`). With it the set
of `PairingSet` is what the file holds, or what the table holds while the file is
open and empty (`Kept`); a save takes effect when it opens the file, and every
other step leaves `Kept` as it is. `RefinementStep` maps each action to the one
of `PairingSet` it implements, or to a stutter. What table and file hold is a set
(`Listed`, `Filed`), and the lemmas in front say what storing, incrementing,
shifting and wiping do to it. `DurableInv` is `IInv` with these conjuncts.
`OverrunExactly` counts: with every record a different peer, all of them in the
file, and one more peer that is in no record, the counter is the number of slots
exactly when the table is left (`FullAtOverrun`).

### The consoles

What has been typed is what has been read followed by what is on the wire
(`WireIsUnread`), so one byte read moves the boundary by one. Which line a byte
belongs to is a matter of counting: the n-th command is what stands between the
(n-1)-th and the n-th line feed of what has been read (`Splits`), and the k-th
byte of a line is the k-th one that is no line end after the last line feed
(`Spells`). The proof is about these counts when one byte is appended; at the
terminal of Windows, where `fgets` takes a whole line, they are counts in the
piece that is taken, shifted by what was before. Full buffers and overruns follow
since the buffer has exactly the bytes of the unended line: the Windows loop
writes behind it when the next byte comes (`OverrunAfterLongLine`). That a
command has one typist needs what happens to a line when its client leaves
(`Typists`).

### The chat

The closures and the waiting text are why nothing is inductive alone. A closure
may meet another view than it was queued for, a view gets other connections, and
a message has three lives: in the storage, in a queue of closures, in a view.
`IInv` says that whatever refers to a message or a connection refers to one there
is (`MessagesAreBorn`, `ConnectionsInUse`): a connection in use has its peer for
ever, so the peer of a view is fixed although its connection is not. Views lie
upon one another in the order of their numbers, and only the visible one may hold
a text that waits (`ViewsInOrder`); so the closure that sends a waiting text finds
it in the visible view, and its messages are announced to the peer they are of
(`WaitingAndQueued`). A text that waits has not been sent (`WaitingIsNotSent`),
which makes a resend the first. Callbacks go to the visible view or, before it has
appeared, to the one below or above it (the last conjunct of `ViewsInOrder`), so a
visible chat that has loaded is the one that hears of what is added. An append
that overwrites what the other thread stored costs stored messages, and a later
one may bring a lost message back, which a chat loaded in between then misses:
TLC shows this with two received messages, and `NoMessageIsMissed` excepts the
messages ever overwritten (`erased`). Of no other stored message can a chat be
without, because the array an append has read consists of messages still stored or
overwritten since (the last conjunct of `MessagesAreBorn`).

A step is looked at from four sides, connections, views, closures and texts: a
lemma each (`CallsStep`, `ViewsStep`, `ClosuresStep`, `SendsStep`, ...) says what
any step may do there, and each conjunct follows from these, whichever action it
was. Only `NoMessageIsMissed` needs all of them at once and has a case per action
(`MissedComes`).

### The connections

`IInv` says of each id (`Consistent`) that a connection that is not open has
neither callback, packets nor privileges, that a call on its way has no history
yet, and that at an open one what was handled followed by what waits is what
arrived. Reuse of ids makes the rest necessary: calls are counted up
(`CallsAreCounted`), two ids in use belong to different calls
(`CallsAreDistinct`), and a call yet to come has no history (`FutureIsBlank`), so
that a packet handled on one id changes the history of no other. The step lemma
rests on lemmas about sequences (a packet taken from the front of one and put
behind another leaves their concatenation, `HeadMoves`) and on what the library's
release of ids, a new call and the routing callback each preserve (`ReleaseKeeps`,
`NewCallFits`, `RoutingFits`).

### The small parts

Each has its own conjunct of `IInv` and its own lemma; the others rest.

* Key: a process that is still making a file has no identity to continue unless
  a file operation failed, and before it has looked at the file, the file holds
  the identity of the last process.
* E-mail: while `/email` works the address in memory is first mixed, then the new
  one; from the disconnection on the library has no connection with the old one.
* Pairing mode: the buffer is what was asked for whenever the handler does not
  write it, and a mode that survives the handler was opened after it wrote: it
  has been disabled in between.
* Sockets: until a socket of the library has been closed under it (`crossed`),
  only the socket in `io_socket` is a client's, and only while it is served; at
  most one listens; each number the library holds is a socket of its own. Needs
  that the lowest free descriptor is free (`LowestIsFree`, from the
  well-foundedness of `<`).

### The texts

A text is any sequence of characters of the alphabet (`TextsTyped`), which is
inductive and all that the properties need: each is about one text, and the work
is in the lemmas about the operators. They are recursive in the code's way, so
they need inductions along the text. The induction theorems of the library take
an operator as a parameter and cannot be cited; `InductionUpTo` states induction
up to a bound for a *set* of numbers, which can. Likewise `Recursion` gives the
function that a recursive definition over `0 .. m` defines for any *function* that
makes the next value from the last, and `FlattenIs` says what a concatenation is,
given where each part ends (`Cuts`).

* Hexadecimal: decoding takes the next two digits by their positions, so after k
  bytes it stands behind the 2k-th digit (`ByteIsDecoded`), and there is another
  byte exactly if there are two more positions. Encoding writes the digits back at
  2i - 1 and 2i (`RoundTrip`); pieces are cuts at multiples of the piece
  (`CutInOrder`, `PiecesTogether`).
* Passwords: both printed forms put the i-th character at `Place(i)` and a dash at
  each fourth position (`PrettyIsGrouped`, `FormatIsGrouped`). The digits of a
  grouped text are those of what was grouped (`KeptOfGrouped`), so formatting it
  groups the digits kept, and that is the same text exactly if all are kept
  (`KeptAsItIs`).
* Line ends: as long as no line feed has a character behind it the conversion has
  written the right text so far; once one has, what is written is shorter than it
  should be and stays so (`ConversionGoesOn`, `LineFeedsConverted`).
* Words: the parser at the n-th start gets to the next one, or to the end
  (`NextWord`, from the order of starts), so n calls get to the n-th word
  (`PassedIs`). Each handler then has a lemma that says what it takes if it does not
  refuse (`SendOfText`, ..., `RegisterPeerTokenOfText`), in words and the rest behind
  them. The properties collect these lemmas.
* Numbers: what `strtol` finds in the word the pointer stands at is what it finds in
  the word itself (`TypedNumber`); each handler's number is then that of its word,
  or what is left of it in 16 or 32 bits (`ListenedPort`, `GivenDuration`).

`TextsTyped` was checked with TLC on the instance of `text` before it was proved.

### Only model-checked

* `CallReturns`, `EveryLineIsHandled`, `NextClientIsAwaited`,
  `PacketsAreHandled`, `ChosenChatIsShown`, `ServicesSettle` and `PrintingEnds`:
  liveness under fairness is beyond the prover.
* What the runs with a violation refute. `ZeroNeverServed` and `OwnCallOnly` say
  under which conditions two of these hold after all.
* `NamesFindTheirRows`, that each name of a command finds its own row: it is about
  two constant tables, so that evaluating it once is all there is to show.

The runs `storage_faults`, `console` and `chat` check the inductive invariants as
well; `DurableInv` and the invariants of the connections and of the small parts
were checked with TLC on the instances of their components before they were
proved.

## 5. Plan

Every safety property that a passing run checks is proved. What would come next
is more of the code: the second storage backend, once its file system can be read,
and the pairing views of the iOS application.

## 6. Not modelled

* The library: binaries only. The models state what they assume of it. What it
  remembers of its pairings, which `mdg_notify_pairings_changed` refreshes, is
  not documented.
* Appended sends and the other data commands as sends: they differ from `/s` in
  their arguments, which `CommandLine` has.
* `mdg_config.c` and the project and resource files: constant data.
* The second storage backend (`MDG_CC3200`, `MDG_UCOS`), for the pairings and for
  the key. Its file system is part of a vendor library that is not here.
* Texts longer than the print buffer, for which `vsnprintf` returns more than it
  wrote, and writes into a literal (`/email` without an argument): neither has
  an outcome the language defines.
* `io_socket` of the Windows program, whose descriptors are handles and are not
  given out again in order.
* Commands that leave the client's state alone (status, help, licence key,
  place-call timeout, the random test), the local listener, and the delay of
  incoming calls, which only takes time: of these `CommandLine` has the names.
  `/remove-all-pairings`: one call of the library, whose effect on the storage and
  on open connections the API document does not state.
* The callback of the update demo, which prints and lets the library check a
  signature.
* iOS: the pairing views and the table of peer names, read flags and badges,
  revocation from the list, presentation. The pairing views hand what is typed to
  the library and show its answer.
* Contents of packets, keys and messages beyond what the code compares.
