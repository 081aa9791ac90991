--------------------------- MODULE PairingStorage ---------------------------
(***************************************************************************)
(* The pairing storage of the demo client: the static table                *)
(* chat_pairings with its counter, the file chat_demo_pairings.bin behind  *)
(* it, and the mdgstorage_* functions on them.  The MDG library calls the  *)
(* functions from its own thread and from the API functions, always with   *)
(* its mutex; the commands /add-test-pairing and /list-pairings reach the  *)
(* same table from the input thread without it (DirectThread).             *)
(*                                                                         *)
(* A step is a piece of a function that another thread, or the end of the  *)
(* process, can come between: the check of has_loaded, the read of the     *)
(* file, the scan for a peer, the memcpy into the table, the increment of  *)
(* the counter, one turn of the removal loop, the fopen that truncates the *)
(* file and the fclose that flushes the stdio buffer into it.              *)
(***************************************************************************)
EXTENDS Integers, FiniteSets

CONSTANTS
  Peer,           \* public keys of peers; what the functions compare
  Zero,           \* the record in which all bytes are zero
  MaxPairings,    \* MAX_CHAT_PAIRINGS
  Thread,         \* the threads that call the storage
  NoThread,       \* the owner of the mutex when it is free
  DirectThread,   \* the threads that also call it without the mutex
  Fault           \* the failures the environment may inject, see below

(* open_fails: fopen(.., "wb") returns NULL.  short_write: the file system *)
(* takes only a prefix of what is flushed.  crash_in_save: the process can *)
(* end between the fopen and the fclose of a save.                         *)
FaultKind == {"open_fails", "short_write", "crash_in_save"}

ASSUME ZeroAssumption == Zero \notin Peer
ASSUME SizeAssumption == MaxPairings \in Nat \ {0}
ASSUME ThreadAssumption == NoThread \notin Thread /\ DirectThread \subseteq Thread
ASSUME FaultAssumption == Fault \subseteq FaultKind

VARIABLES
  table,          \* chat_pairings
  count,          \* chat_pairings_count
  hasLoaded,      \* has_loaded of load_all_pairings_from_file
  file,           \* chat_demo_pairings.bin
  mutex,          \* the owner of the library's mutex
  pc,             \* where each thread is in its storage function
  op,             \* which function that is
  arg,            \* its peer_id argument
  idx,            \* its loop variable, or the pairings_index of the caller
  seen,           \* the records an enumeration has been given
  overrun         \* an access past the end of chat_pairings has happened

memory == <<table, count, hasLoaded>>
locals == <<op, arg, idx, seen>>
vars == <<table, count, hasLoaded, file, mutex, pc, op, arg, idx, seen, overrun>>

Slot == 0 .. MaxPairings - 1
Record == Peer \union {Zero}
Op == {"add", "remove", "enumerate"}
Location == {"idle", "load", "read", "body", "store", "increment", "open",
             "close", "return"}

(* The file in units: none, the counter, the counter and n records.  An    *)
(* absent file is the one with no unit: both leave the memory alone.       *)
File == [units : 0 .. MaxPairings + 1, count : 0 .. MaxPairings,
         table : [Slot -> Record]]
NoRecords == [k \in Slot |-> Zero]
NoFile == [units |-> 0, count |-> 0, table |-> NoRecords]

Init ==
  /\ table = NoRecords
  /\ count = 0
  /\ hasLoaded = FALSE
  /\ file = NoFile
  /\ mutex = NoThread
  /\ pc = [t \in Thread |-> "idle"]
  /\ op = [t \in Thread |-> "none"]
  /\ arg = [t \in Thread |-> Zero]
  /\ idx = [t \in Thread |-> 0]
  /\ seen = [t \in Thread |-> {}]
  /\ overrun = FALSE

Goto(t, from, to) ==
  /\ pc[t] = from
  /\ pc' = [pc EXCEPT ![t] = to]

-----------------------------------------------------------------------------
(* A storage function is called: by the library, which owns the mutex, or  *)
(* directly by a command handler.                                          *)
Begin(t, o, p) ==
  /\ Goto(t, "idle", "load")
  /\ op' = [op EXCEPT ![t] = o]
  /\ arg' = [arg EXCEPT ![t] = p]
  /\ UNCHANGED <<memory, file, idx, seen, overrun>>

CallUnlocked(t, o, p) == mutex' = t /\ Begin(t, o, p)

CallFromLibrary(t, o, p) ==
  /\ mutex = NoThread
  /\ mutex' = t
  /\ Begin(t, o, p)

CallFromCommand(t, o, p) ==
  /\ t \in DirectThread
  /\ o \in {"add", "enumerate"}
  /\ Begin(t, o, p)
  /\ UNCHANGED mutex

(* load_all_pairings_from_file sets its flag before it reads.              *)
CheckLoaded(t) ==
  /\ Goto(t, "load", IF hasLoaded THEN "body" ELSE "read")
  /\ hasLoaded' = TRUE
  /\ UNCHANGED <<table, count, file, mutex, locals, overrun>>

ReadFile(t) ==
  /\ Goto(t, "read", "body")
  /\ count' = IF file.units > 0 THEN file.count ELSE count
  /\ table' = [k \in Slot |-> IF k + 1 < file.units THEN file.table[k]
                                                    ELSE table[k]]
  /\ UNCHANGED <<hasLoaded, file, mutex, locals, overrun>>

-----------------------------------------------------------------------------
(* mdgstorage_add_pairing: an existing peer is left alone, a new one goes  *)
(* behind the last.  Nothing compares the counter with the table's size.   *)
AddFindsPeer(t) ==
  /\ op[t] = "add"
  /\ \E k \in Slot : k < count /\ table[k] = arg[t]
  /\ Goto(t, "body", "return")
  /\ UNCHANGED <<memory, file, mutex, locals, overrun>>

AddUnscanned(t) ==
  /\ op[t] = "add"
  /\ Goto(t, "body", "store")
  /\ UNCHANGED <<memory, file, mutex, locals, overrun>>

AddIsNew(t) ==
  /\ op[t] = "add"
  /\ \A k \in Slot : k < count => table[k] # arg[t]
  /\ Goto(t, "body", "store")
  /\ UNCHANGED <<memory, file, mutex, locals, overrun>>

AddStore(t) ==
  /\ Goto(t, "store", "increment")
  /\ table' = [k \in Slot |-> IF k = count THEN arg[t] ELSE table[k]]
  /\ overrun' = (count = MaxPairings)
  /\ UNCHANGED <<count, hasLoaded, file, mutex, locals>>

AddUnsaved(t) ==
  /\ Goto(t, "increment", "return")
  /\ count' = count + 1
  /\ UNCHANGED <<table, hasLoaded, file, mutex, locals, overrun>>

(* A counter above the table's size licenses every later loop to leave the *)
(* table; it counts as an overrun at once.                                 *)
AddIncrement(t) ==
  /\ Goto(t, "increment", "open")
  /\ IF count < MaxPairings
       THEN count' = count + 1 /\ UNCHANGED overrun
       ELSE overrun' = TRUE /\ UNCHANGED count
  /\ UNCHANGED <<table, hasLoaded, file, mutex, locals>>

-----------------------------------------------------------------------------
(* mdgstorage_remove_pairing, one turn of its loop: step over another      *)
(* peer, close the gap the peer leaves, or wipe the last record.           *)
AtRecord(t) == pc[t] = "body" /\ op[t] = "remove" /\ idx[t] < count

(* The table when the records behind i have moved down and the last of     *)
(* them is wiped.                                                          *)
GapNotWiped(i) ==
  [k \in Slot |-> IF k \in i .. count - 2 THEN table[k + 1] ELSE table[k]]

GapClosed(i) ==
  [k \in Slot |-> IF k = count - 1 THEN Zero
                  ELSE IF k \in i .. count - 2 THEN table[k + 1] ELSE table[k]]

SkipStuck(t) ==
  /\ AtRecord(t)
  /\ table[idx[t]] # arg[t]
  /\ UNCHANGED vars

RemoveSkip(t) ==
  /\ AtRecord(t)
  /\ table[idx[t]] # arg[t]
  /\ idx' = [idx EXCEPT ![t] = @ + 1]
  /\ UNCHANGED <<memory, file, mutex, pc, op, arg, seen, overrun>>

RemoveShift(t) ==
  /\ AtRecord(t)
  /\ table[idx[t]] = arg[t]
  /\ idx[t] + 1 < count
  /\ table' = GapClosed(idx[t])
  /\ count' = count - 1
  /\ UNCHANGED <<hasLoaded, file, mutex, pc, locals, overrun>>

RemoveLast(t) ==
  /\ AtRecord(t)
  /\ table[idx[t]] = arg[t]
  /\ idx[t] + 1 = count
  /\ table' = [table EXCEPT ![idx[t]] = Zero]
  /\ idx' = [idx EXCEPT ![t] = @ + 1]
  /\ count' = count - 1
  /\ UNCHANGED <<hasLoaded, file, mutex, pc, op, arg, seen, overrun>>

RemoveDoneEarly(t) ==
  /\ op[t] = "remove"
  /\ idx[t] >= count - 1
  /\ Goto(t, "body", "open")
  /\ UNCHANGED <<memory, file, mutex, locals, overrun>>

RemoveDone(t) ==
  /\ op[t] = "remove"
  /\ idx[t] >= count
  /\ Goto(t, "body", "open")
  /\ UNCHANGED <<memory, file, mutex, locals, overrun>>

-----------------------------------------------------------------------------
(* The caller of mdgstorage_load_pairing, and list_pairings_handler: ask   *)
(* for index 0, 1, 2, ... until there is no such record.                   *)
LoadPairing(t) ==
  /\ pc[t] = "body" /\ op[t] = "enumerate" /\ idx[t] < count
  /\ seen' = [seen EXCEPT ![t] = @ \union {table[idx[t]]}]
  /\ idx' = [idx EXCEPT ![t] = @ + 1]
  /\ UNCHANGED <<memory, file, mutex, pc, op, arg, overrun>>

LoadPairingEnds(t) ==
  /\ op[t] = "enumerate" /\ idx[t] >= count
  /\ Goto(t, "body", "return")
  /\ UNCHANGED <<memory, file, mutex, locals, overrun>>

-----------------------------------------------------------------------------
(* save_all_pairings_to_file: fopen empties the file, what fwrite is given *)
(* reaches it with fclose, and no result of the three is looked at.        *)
SaveOpen(t) ==
  /\ Goto(t, "open", "close")
  /\ file' = NoFile
  /\ UNCHANGED <<memory, mutex, locals, overrun>>

SaveOpenFails(t) ==
  /\ "open_fails" \in Fault
  /\ Goto(t, "open", "return")
  /\ UNCHANGED <<memory, file, mutex, locals, overrun>>

SaveClose(t) ==
  /\ Goto(t, "close", "return")
  /\ \E u \in 0 .. MaxPairings + 1 :
       /\ u = MaxPairings + 1 \/ "short_write" \in Fault
       /\ file' = [units |-> u, count |-> count, table |-> table]
  /\ UNCHANGED <<memory, mutex, locals, overrun>>

(* Every function returns MDGSTORAGE_OK.                                   *)
Return(t) ==
  /\ Goto(t, "return", "idle")
  /\ mutex' = IF mutex = t THEN NoThread ELSE mutex
  /\ op' = [op EXCEPT ![t] = "none"]
  /\ arg' = [arg EXCEPT ![t] = Zero]
  /\ idx' = [idx EXCEPT ![t] = 0]
  /\ seen' = [seen EXCEPT ![t] = {}]
  /\ UNCHANGED <<memory, file, overrun>>

-----------------------------------------------------------------------------
(* The process ends, by /quit or otherwise, and is started again: the      *)
(* static variables are zero and the file is what it was.                  *)
Restart ==
  /\ overrun \/ "crash_in_save" \in Fault \/ \A t \in Thread : pc[t] # "close"
  /\ table' = NoRecords
  /\ count' = 0
  /\ hasLoaded' = FALSE
  /\ mutex' = NoThread
  /\ pc' = [t \in Thread |-> "idle"]
  /\ op' = [t \in Thread |-> "none"]
  /\ arg' = [t \in Thread |-> Zero]
  /\ idx' = [t \in Thread |-> 0]
  /\ seen' = [t \in Thread |-> {}]
  /\ overrun' = FALSE
  /\ UNCHANGED file

Call(t) ==
  \E o \in Op, p \in Peer : CallFromLibrary(t, o, p) \/ CallFromCommand(t, o, p)

Step(t) ==
  \/ CheckLoaded(t) \/ ReadFile(t)
  \/ AddFindsPeer(t) \/ AddIsNew(t) \/ AddStore(t) \/ AddIncrement(t)
  \/ RemoveSkip(t) \/ RemoveShift(t) \/ RemoveLast(t) \/ RemoveDone(t)
  \/ LoadPairing(t) \/ LoadPairingEnds(t)
  \/ SaveOpen(t) \/ SaveOpenFails(t) \/ SaveClose(t) \/ Return(t)

(* After an overrun the C program has no defined behaviour, so none is     *)
(* modelled before the next start.                                         *)
Next ==
  \/ \E t \in Thread : ~overrun /\ (Call(t) \/ Step(t))
  \/ Restart

(* A thread inside a storage function keeps running; nobody has to call    *)
(* one, and the process need not restart.                                  *)
Fairness == \A t \in Thread : WF_vars(~overrun /\ Step(t))

Spec == Init /\ [][Next]_vars
FairSpec == Spec /\ Fairness

-----------------------------------------------------------------------------
(* What the storage holds.  Listed is what the table says, Filed what a    *)
(* new process would read, Paired what the next call will work on.         *)
Listed == {table[k] : k \in {j \in Slot : j < count}}

Filed ==
  IF file.units = 0 THEN {}
  ELSE {IF k + 1 < file.units THEN file.table[k] ELSE Zero :
          k \in {j \in Slot : j < file.count}}

Loaded == hasLoaded /\ \A t \in Thread : pc[t] # "read"
Paired == IF Loaded THEN Listed ELSE Filed

(* Every variable has its type, and a thread is in a function exactly when *)
(* it has the function's arguments.                                        *)
TypeOK ==
  /\ table \in [Slot -> Record]
  /\ count \in 0 .. MaxPairings
  /\ hasLoaded \in BOOLEAN
  /\ file \in File
  /\ mutex \in Thread \union {NoThread}
  /\ pc \in [Thread -> Location]
  /\ op \in [Thread -> Op \union {"none"}]
  /\ arg \in [Thread -> Record]
  /\ idx \in [Thread -> 0 .. MaxPairings]
  /\ seen \in [Thread -> SUBSET Record]
  /\ overrun \in BOOLEAN
  /\ \A t \in Thread : pc[t] # "idle" => op[t] \in Op /\ arg[t] \in Peer

(* A peer has at most one record and no record in use is the all-zero one, *)
(* so a counted record is a pairing and one removal removes it.            *)
OneRecordPerPeer ==
  \A j, k \in Slot :
    j < count /\ k < count =>
      /\ table[j] # Zero
      /\ table[j] = table[k] => j = k

(* The keys of revoked peers do not stay behind the last record: what the  *)
(* removal shifts away or wipes is zero, but for a record being added.     *)
RevokedAreWiped ==
  \A k \in Slot :
    k >= count /\ table[k] # Zero =>
      k = count /\ \E t \in Thread : pc[t] = "increment" /\ table[k] = arg[t]

(* When an addition or removal answers OK the table agrees, whatever the   *)
(* file did.                                                               *)
AnswerIsInTable ==
  \A t \in Thread : pc[t] = "return" =>
    /\ op[t] = "add" => arg[t] \in Listed
    /\ op[t] = "remove" => arg[t] \notin Listed

(* When a storage function answers OK the file holds what the table holds, *)
(* so the answer also stands after the next start.                         *)
AnswerIsDurable ==
  \A t \in Thread : pc[t] = "return" => Filed = Listed

(* An enumeration by index reports every pairing there is, and nothing     *)
(* else: no removal moves the records between two of its indices, because  *)
(* its caller keeps the mutex until it has asked for all of them.          *)
EnumerationIsExact ==
  \A t \in Thread :
    op[t] = "enumerate" =>
      /\ seen[t] \subseteq Listed
      /\ pc[t] = "return" => seen[t] = Listed

(* The one thing the functions leave unchecked.  An access leaves the table *)
(* exactly when every slot holds another peer, the file has them all, and a *)
(* peer without a record is added: mdgstorage_add_pairing compares nothing  *)
(* with MAX_CHAT_PAIRINGS, so one peer too many does overrun the table, and *)
(* nothing less does, however peers were added, removed and read back.      *)
OverrunIsOnePeerTooMany ==
  overrun <=>
    \E t \in Thread :
      /\ pc[t] = "increment"
      /\ arg[t] \notin Filed
      /\ Cardinality(Filed) = MaxPairings

(* A record that is served as a pairing is not the all-zero record.        *)
ZeroIsNoPairing == Zero \notin Paired

(* A peer is added or lost only by a call about that peer that is under    *)
(* way: other calls, the loading of the file and a restart keep the rest.  *)
OnlyItsOwnCall ==
  [][\A p \in Peer :
       (p \in Paired) # (p \in Paired') =>
         \E t \in Thread : arg[t] = p /\ op[t] \in {"add", "remove"}]_vars

(* Every call comes back, or the process is restarted or lost.             *)
CallReturns ==
  \A t \in Thread : pc[t] # "idle" ~> pc[t] = "idle" \/ overrun

(* The table and its file together are one set of peers that each call     *)
(* changes in one instant: a save takes effect when it opens the file.     *)
Kept == IF \E t \in Thread : pc[t] = "close" THEN Listed ELSE Filed
Phase == [t \in Thread |-> CASE pc[t] = "idle" -> "none"
                             [] pc[t] \in {"close", "return"} -> "answered"
                             [] OTHER -> "asked"]
Reported == [t \in Thread |-> IF pc[t] = "return" THEN seen[t] ELSE {}]

Abstract == INSTANCE PairingSet WITH
  NoPeer <- Zero, paired <- Kept, phase <- Phase, answer <- Reported

IsPairingSet == Abstract!Spec
=============================================================================
