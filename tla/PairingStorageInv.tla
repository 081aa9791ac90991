------------------------- MODULE PairingStorageInv --------------------------
(***************************************************************************)
(* The inductive invariant behind the safety properties of PairingStorage  *)
(* when every call holds the mutex (Locked): what is true of the table,    *)
(* the file and a thread's loop between any two steps.                     *)
(***************************************************************************)
EXTENDS PairingStorage

(* No command reaches the table beside the library: a session in which     *)
(* /add-test-pairing and /list-pairings are not used.                      *)
Locked == DirectThread = {}

(* A thread in a storage function owns the mutex, so it is alone there.    *)
Exclusive == \A t \in Thread : pc[t] # "idle" => mutex = t

(* Until the file has been read the static variables are untouched.        *)
BlankUntilRead ==
  /\ ~hasLoaded => table = NoRecords /\ count = 0
  /\ \A t \in Thread :
       /\ pc[t] \notin {"idle", "load"} => hasLoaded
       /\ pc[t] = "read" => table = NoRecords /\ count = 0

(* Behind the counter there is nothing in the file, as in the table, where *)
(* that is RevokedAreWiped.                                                *)
FileTail == \A k \in Slot : k >= file.count => file.table[k] = Zero

(* Without short writes the file is empty or whole, and repeats no peer.   *)
Unique(tab, n) ==
  \A j, k \in Slot :
    j < n /\ k < n => tab[j] # Zero /\ (tab[j] = tab[k] => j = k)

UniqueRecords ==
  "short_write" \notin Fault =>
    /\ Unique(table, count)
    /\ file.units > 0 => file.units = MaxPairings + 1
    /\ Unique(file.table, file.count)

IsAt(p, k) == k < count /\ table[k] = p

(* What the thread in a function knows of the table at each of its steps.  *)
AddProgress ==
  \A t \in Thread :
    /\ pc[t] \in {"store", "increment"} =>
         op[t] = "add" /\ \A k \in Slot : ~IsAt(arg[t], k)
    /\ pc[t] = "increment" /\ ~overrun => count < MaxPairings /\ table[count] = arg[t]
    /\ pc[t] \in {"open", "close", "return"} /\ op[t] = "add" =>
         \E k \in Slot : IsAt(arg[t], k)

RemoveProgress ==
  \A t \in Thread : op[t] = "remove" =>
    /\ pc[t] \in {"load", "read"} => idx[t] = 0
    /\ pc[t] = "body" => \A k \in Slot : k < idx[t] => ~IsAt(arg[t], k)
    /\ pc[t] \in {"open", "close", "return"} => \A k \in Slot : ~IsAt(arg[t], k)

EnumerateProgress ==
  \A t \in Thread :
    /\ pc[t] \in {"idle", "load", "read"} => idx[t] = 0 /\ seen[t] = {}
    /\ op[t] = "enumerate" =>
         /\ pc[t] \in {"load", "read", "body", "return"}
         /\ seen[t] = {table[k] : k \in {j \in Slot : j < idx[t]}}
         /\ idx[t] <= count
         /\ pc[t] = "return" => idx[t] = count
    /\ op[t] = "none" <=> pc[t] = "idle"

(* The conjunction, with the types, is preserved by every step.            *)
IInv ==
  /\ TypeOK
  /\ Exclusive
  /\ BlankUntilRead
  /\ RevokedAreWiped
  /\ FileTail
  /\ UniqueRecords
  /\ AddProgress
  /\ RemoveProgress
  /\ EnumerateProgress

-----------------------------------------------------------------------------
(* What a call that is about to save has made of what the file holds.      *)
Modified(t) == IF op[t] = "add" THEN Filed \union {arg[t]} ELSE Filed \ {arg[t]}

(* Once the file is read it holds what the table holds, but for a call that*)
(* is modifying the table: a removal up to its save has taken away at most *)
(* its own peer, an addition has put its own peer behind the rest.         *)
FileMirrors ==
  /\ hasLoaded /\ (\A t \in Thread :
       pc[t] \notin {"read", "open", "close"} /\ ~(pc[t] = "body" /\ op[t] = "remove"))
       => Filed = Listed
  /\ \A t \in Thread :
       /\ pc[t] = "body" /\ op[t] = "remove" => Filed \ {arg[t]} = Listed \ {arg[t]}
       /\ pc[t] = "open" => op[t] \in {"add", "remove"} /\ Listed = Modified(t)
       /\ pc[t] = "close" => file = NoFile

(* Only the memcpy of an addition can leave the table.                     *)
OverrunByStore == overrun => \E t \in Thread : pc[t] = "increment"

(* An addition or a removal has been given no records.                     *)
OnlyEnumerationsSee == \A t \in Thread : op[t] # "enumerate" => seen[t] = {}

(* The invariant for a file system that opens and writes what it is told.  *)
DurableInv == IInv /\ FileMirrors /\ OverrunByStore /\ OnlyEnumerationsSee
=============================================================================
