---------------------- MODULE PairingStorageRefinement ----------------------
(***************************************************************************)
(* More proofs about PairingStorage: what becomes of an answer when the    *)
(* process ends, exactly when the table is left, and that table and file   *)
(* together implement the set of peers of PairingSet.  As in               *)
(* PairingStorageProofs every call holds the mutex; which failures a       *)
(* statement survives is in its hypothesis on Fault.                       *)
(***************************************************************************)
EXTENDS PairingStorageProofs, FiniteSetTheorems

USE DEF Goto

(* An addition or removal is durable: the file system opens and writes     *)
(* what it is told.                                                        *)
FileSystemWorks == Fault \subseteq {"crash_in_save"}

-----------------------------------------------------------------------------
(* What the file holds is determined by the file, what the table holds by  *)
(* the table and its counter.                                              *)
LEMMA FiledUnchanged == file' = file => Filed' = Filed
  BY DEF Filed

LEMMA ListedUnchanged == table' = table /\ count' = count => Listed' = Listed
  BY DEF Listed

(* An empty file and a table without counted records hold nothing.         *)
LEMMA NothingFiled == file.units = 0 => Filed = {}
  BY DEF Filed

LEMMA NothingListed == TypeOK /\ count = 0 => Listed = {}
  BY DEF Listed, Slot

-----------------------------------------------------------------------------
(* The three ways in which the table changes, as changes of what it holds. *)
LEMMA ListedAfterStore ==
  ASSUME TypeOK, NEW t \in Thread, AddStore(t)
  PROVE  Listed' = Listed
  BY SizeAssumption DEF AddStore, Listed, TypeOK, Slot

LEMMA ListedAfterIncrement ==
  ASSUME TypeOK, NEW t \in Thread, AddIncrement(t), count < MaxPairings, table[count] = arg[t]
  PROVE  Listed' = Listed \union {arg[t]}
<1>1. table' = table /\ count' = count + 1
  BY DEF AddIncrement
<1>2. count \in Slot
  BY SizeAssumption DEF TypeOK, Slot
<1> QED
  BY <1>1, <1>2, SizeAssumption DEF Listed, TypeOK, Slot

LEMMA ListedAfterShift ==
  ASSUME TypeOK, NEW t \in Thread, RemoveShift(t)
  PROVE  Listed' \ {arg[t]} = Listed \ {arg[t]}
<1> DEFINE i == idx[t]
<1>1. /\ i \in Slot /\ i + 1 < count /\ table[i] = arg[t]
      /\ table' = GapClosed(i) /\ count' = count - 1
  BY SizeAssumption DEF RemoveShift, AtRecord, TypeOK, Slot
<1>2. \A k \in Slot : k < count' =>
        table'[k] = IF k >= i THEN table[k + 1] ELSE table[k]
  BY <1>1, SizeAssumption DEF GapClosed, TypeOK, Slot
<1>3. Listed' \subseteq Listed
  BY <1>1, <1>2, SizeAssumption DEF Listed, TypeOK, Slot
<1>4. ASSUME NEW k \in Slot, k < count, table[k] # arg[t] PROVE table[k] \in Listed'
  <2>1. CASE k < i
    BY <1>1, <1>2, <1>4, <2>1, SizeAssumption DEF Listed, TypeOK, Slot
  <2>2. CASE k > i
    <3>1. k - 1 \in Slot /\ k - 1 < count' /\ table'[k - 1] = table[k]
      BY <1>1, <1>2, <1>4, <2>2, SizeAssumption DEF TypeOK, Slot
    <3> QED
      BY <3>1 DEF Listed
  <2>3. k # i
    BY <1>1, <1>4
  <2> QED
    BY <1>1, <2>1, <2>2, <2>3, SizeAssumption DEF Slot
<1> QED
  BY <1>3, <1>4 DEF Listed

LEMMA ListedAfterLast ==
  ASSUME TypeOK, NEW t \in Thread, RemoveLast(t)
  PROVE  Listed' \ {arg[t]} = Listed \ {arg[t]}
<1> DEFINE i == idx[t]
<1>1. /\ i \in Slot /\ i + 1 = count /\ table[i] = arg[t]
      /\ table' = [table EXCEPT ![i] = Zero] /\ count' = count - 1
  BY SizeAssumption DEF RemoveLast, AtRecord, TypeOK, Slot
<1>2. \A k \in Slot : k < count' => table'[k] = table[k]
  BY <1>1, SizeAssumption DEF TypeOK, Slot
<1>3. \A k \in Slot : k < count => k < count' \/ table[k] = arg[t]
  BY <1>1, SizeAssumption DEF TypeOK, Slot
<1>4. \A k \in Slot : k < count' => k < count
  BY <1>1, SizeAssumption DEF TypeOK, Slot
<1> QED
  BY <1>2, <1>3, <1>4 DEF Listed

(* What is read is what the file holds, as no write has been cut short.    *)
LEMMA ListedAfterRead ==
  ASSUME IInv, "short_write" \notin Fault, NEW t \in Thread, ReadFile(t)
  PROVE  Listed' = Filed
<1>1. TypeOK /\ file \in File /\ \A k \in Slot : k \in Nat
  BY SizeAssumption DEF IInv, TypeOK, Slot
<1>2. CASE file.units = 0
  <2>1. table' = table /\ count' = count /\ count = 0
    BY <1>1, <1>2 DEF ReadFile, IInv, BlankUntilRead, TypeOK
  <2> QED
    BY <1>1, <1>2, <2>1, NothingFiled, NothingListed, ListedUnchanged
<1>3. CASE file.units = MaxPairings + 1
  <2>1. table' = file.table /\ count' = file.count
    BY <1>1, <1>3, SizeAssumption DEF ReadFile, File, TypeOK, Slot
  <2>2. \A k \in Slot : k + 1 < file.units
    BY <1>3, SizeAssumption DEF Slot
  <2> QED
    BY <2>1, <2>2, <1>3, SizeAssumption DEF Filed, Listed, Slot
<1> QED
  BY <1>1, <1>2, <1>3 DEF IInv, UniqueRecords, File

-----------------------------------------------------------------------------
(* While a thread is in a storage function it is the only one there.       *)
LEMMA OthersIdle ==
  ASSUME IInv, NEW t \in Thread, pc[t] # "idle"
  PROVE  \A u \in Thread : u # t => pc[u] = "idle"
  BY DEF IInv, Exclusive

(* Only an enumeration is given records, and it has returned them before   *)
(* its thread asks for something else.                                     *)
LEMMA SeenStep ==
  IInv /\ OnlyEnumerationsSee /\ [Next]_vars => OnlyEnumerationsSee'
<1> SUFFICES ASSUME IInv, OnlyEnumerationsSee, [Next]_vars PROVE OnlyEnumerationsSee'
  OBVIOUS
<1>1. /\ op \in [Thread -> Op \union {"none"}] /\ seen \in [Thread -> SUBSET Record]
      /\ \A t \in Thread : pc[t] = "idle" => seen[t] = {}
  BY DEF IInv, TypeOK, EnumerateProgress
<1>2. CASE UNCHANGED <<op, seen>>
  BY <1>2 DEF OnlyEnumerationsSee
<1>3. ASSUME NEW t \in Thread, Call(t) PROVE OnlyEnumerationsSee'
  BY <1>1, <1>3 DEF Call, CallFromLibrary, CallFromCommand, Begin, OnlyEnumerationsSee
<1>4. ASSUME NEW t \in Thread, LoadPairing(t) PROVE OnlyEnumerationsSee'
  BY <1>1, <1>4 DEF LoadPairing, OnlyEnumerationsSee
<1>5. ASSUME NEW t \in Thread, Return(t) PROVE OnlyEnumerationsSee'
  BY <1>1, <1>5 DEF Return, OnlyEnumerationsSee
<1>6. CASE Restart
  BY <1>6 DEF Restart, OnlyEnumerationsSee
<1>7. ASSUME NEW t \in Thread, Step(t)
      PROVE  LoadPairing(t) \/ Return(t) \/ UNCHANGED <<op, seen>>
  BY <1>7 DEF Step, CheckLoaded, ReadFile, AddFindsPeer, AddIsNew, AddStore, AddIncrement,
     RemoveSkip, RemoveShift, RemoveLast, RemoveDone, LoadPairingEnds, SaveOpen,
     SaveOpenFails, SaveClose, locals
<1> QED
  BY <1>2, <1>3, <1>4, <1>5, <1>6, <1>7 DEF Next, vars

(* With a file system that works each step keeps file and table alike, but *)
(* for the modification of the call under way.                             *)
LEMMA DurableStep ==
  FileSystemWorks /\ Locked /\ DurableInv /\ [Next]_vars => DurableInv'
<1> SUFFICES ASSUME FileSystemWorks, Locked, DurableInv, [Next]_vars
             PROVE  DurableInv'
  OBVIOUS
<1>1. /\ IInv /\ TypeOK /\ FileMirrors /\ OverrunByStore
      /\ IInv' /\ TypeOK' /\ OnlyEnumerationsSee'
      /\ "short_write" \notin Fault /\ "open_fails" \notin Fault
  BY InvStep, SeenStep DEF DurableInv, IInv, FileSystemWorks
<1>2. SUFFICES FileMirrors' /\ OverrunByStore'
  BY <1>1 DEF DurableInv
<1> USE <1>1 DEF locals, memory
<1>3. ASSUME NEW t \in Thread, ~overrun, CheckLoaded(t) PROVE FileMirrors' /\ OverrunByStore'
  <2>1. OverrunByStore'
    BY <1>3 DEF CheckLoaded, OverrunByStore, TypeOK
  <2>2. /\ pc[t] # "idle" /\ \A u \in Thread : u # t => pc[u] = "idle"
        /\ \A u \in Thread : u # t => pc'[u] = "idle"
    BY <1>3, OthersIdle DEF CheckLoaded, TypeOK
  <2>3. Filed' = Filed /\ Listed' = Listed
    BY <1>3, FiledUnchanged, ListedUnchanged DEF CheckLoaded
  <2> QED
    BY <1>3, <2>1, <2>2, <2>3 DEF CheckLoaded, FileMirrors, TypeOK
<1>4. ASSUME NEW t \in Thread, ~overrun, ReadFile(t) PROVE FileMirrors' /\ OverrunByStore'
  <2>1. OverrunByStore'
    BY <1>4 DEF ReadFile, OverrunByStore, TypeOK
  <2>2. /\ pc[t] # "idle" /\ \A u \in Thread : u # t => pc[u] = "idle"
        /\ \A u \in Thread : u # t => pc'[u] = "idle"
    BY <1>4, OthersIdle DEF ReadFile, TypeOK
  <2>3. Filed' = Filed /\ Listed' = Filed
    BY <1>4, FiledUnchanged, ListedAfterRead DEF ReadFile
  <2> QED
    BY <1>4, <2>1, <2>2, <2>3 DEF ReadFile, FileMirrors, TypeOK
<1>5. ASSUME NEW t \in Thread, ~overrun, AddFindsPeer(t) PROVE FileMirrors' /\ OverrunByStore'
  <2>1. OverrunByStore'
    BY <1>5 DEF AddFindsPeer, OverrunByStore, TypeOK
  <2>2. /\ pc[t] # "idle" /\ \A u \in Thread : u # t => pc[u] = "idle"
        /\ \A u \in Thread : u # t => pc'[u] = "idle"
    BY <1>5, OthersIdle DEF AddFindsPeer, TypeOK
  <2>3. Filed' = Filed /\ Listed' = Listed
    BY <1>5, FiledUnchanged, ListedUnchanged DEF AddFindsPeer
  <2>4. hasLoaded
    BY <1>5 DEF AddFindsPeer, IInv, BlankUntilRead
  <2> QED
    BY <1>5, <2>1, <2>2, <2>3, <2>4 DEF AddFindsPeer, FileMirrors, TypeOK
<1>6. ASSUME NEW t \in Thread, ~overrun, AddIsNew(t) PROVE FileMirrors' /\ OverrunByStore'
  <2>1. OverrunByStore'
    BY <1>6 DEF AddIsNew, OverrunByStore, TypeOK
  <2>2. /\ pc[t] # "idle" /\ \A u \in Thread : u # t => pc[u] = "idle"
        /\ \A u \in Thread : u # t => pc'[u] = "idle"
    BY <1>6, OthersIdle DEF AddIsNew, TypeOK
  <2>3. Filed' = Filed /\ Listed' = Listed
    BY <1>6, FiledUnchanged, ListedUnchanged DEF AddIsNew
  <2>4. hasLoaded
    BY <1>6 DEF AddIsNew, IInv, BlankUntilRead
  <2> QED
    BY <1>6, <2>1, <2>2, <2>3, <2>4 DEF AddIsNew, FileMirrors, TypeOK
<1>7. ASSUME NEW t \in Thread, ~overrun, AddStore(t) PROVE FileMirrors' /\ OverrunByStore'
  <2>1. OverrunByStore'
    BY <1>7 DEF AddStore, OverrunByStore, TypeOK
  <2>2. /\ pc[t] # "idle" /\ \A u \in Thread : u # t => pc[u] = "idle"
        /\ \A u \in Thread : u # t => pc'[u] = "idle"
    BY <1>7, OthersIdle DEF AddStore, TypeOK
  <2>3. Filed' = Filed
    BY <1>7, FiledUnchanged DEF AddStore
  <2>4. Listed' = Listed
    BY <1>7, ListedAfterStore
  <2>5. hasLoaded
    BY <1>7 DEF AddStore, IInv, BlankUntilRead
  <2> QED
    BY <1>7, <2>1, <2>2, <2>3, <2>4, <2>5 DEF AddStore, FileMirrors, TypeOK
<1>8. ASSUME NEW t \in Thread, ~overrun, AddIncrement(t) PROVE FileMirrors' /\ OverrunByStore'
  <2>1. OverrunByStore'
    BY <1>8 DEF AddIncrement, IInv, AddProgress, OverrunByStore
  <2>2. /\ pc[t] # "idle" /\ \A u \in Thread : u # t => pc[u] = "idle"
        /\ \A u \in Thread : u # t => pc'[u] = "idle"
    BY <1>8, OthersIdle DEF AddIncrement, TypeOK
  <2>3. Filed' = Filed
    BY <1>8, FiledUnchanged DEF AddIncrement
  <2>4. count < MaxPairings /\ table[count] = arg[t] /\ op[t] = "add"
    BY <1>8 DEF AddIncrement, IInv, AddProgress
  <2>5. Listed' = Listed \union {arg[t]}
    BY <1>8, <2>4, ListedAfterIncrement
  <2>6. hasLoaded
    BY <1>8 DEF AddIncrement, IInv, BlankUntilRead
  <2> QED
    BY <1>8, <2>1, <2>2, <2>3, <2>4, <2>5, <2>6 DEF AddIncrement, FileMirrors, TypeOK, Modified
<1>9. ASSUME NEW t \in Thread, ~overrun, RemoveSkip(t) PROVE FileMirrors' /\ OverrunByStore'
  <2>1. OverrunByStore'
    BY <1>9 DEF RemoveSkip, AtRecord, OverrunByStore, TypeOK
  <2>2. /\ pc[t] # "idle" /\ \A u \in Thread : u # t => pc[u] = "idle"
        /\ \A u \in Thread : u # t => pc'[u] = "idle"
    BY <1>9, OthersIdle DEF RemoveSkip, AtRecord, TypeOK
  <2>3. Filed' = Filed /\ Listed' = Listed
    BY <1>9, FiledUnchanged, ListedUnchanged DEF RemoveSkip, AtRecord
  <2>4. hasLoaded
    BY <1>9 DEF RemoveSkip, AtRecord, IInv, BlankUntilRead
  <2> QED
    BY <1>9, <2>1, <2>2, <2>3, <2>4 DEF RemoveSkip, AtRecord, FileMirrors, TypeOK
<1>10. ASSUME NEW t \in Thread, ~overrun, RemoveShift(t) PROVE FileMirrors' /\ OverrunByStore'
  <2>1. OverrunByStore'
    BY <1>10 DEF RemoveShift, AtRecord, OverrunByStore, TypeOK
  <2>2. /\ pc[t] # "idle" /\ \A u \in Thread : u # t => pc[u] = "idle"
        /\ \A u \in Thread : u # t => pc'[u] = "idle"
    BY <1>10, OthersIdle DEF RemoveShift, AtRecord, TypeOK
  <2>3. Filed' = Filed
    BY <1>10, FiledUnchanged DEF RemoveShift, AtRecord
  <2>4. Listed' \ {arg[t]} = Listed \ {arg[t]}
    BY <1>10, ListedAfterShift
  <2>5. hasLoaded
    BY <1>10 DEF RemoveShift, AtRecord, IInv, BlankUntilRead
  <2> QED
    BY <1>10, <2>1, <2>2, <2>3, <2>4, <2>5 DEF RemoveShift, AtRecord, FileMirrors, TypeOK
<1>11. ASSUME NEW t \in Thread, ~overrun, RemoveLast(t) PROVE FileMirrors' /\ OverrunByStore'
  <2>1. OverrunByStore'
    BY <1>11 DEF RemoveLast, AtRecord, OverrunByStore, TypeOK
  <2>2. /\ pc[t] # "idle" /\ \A u \in Thread : u # t => pc[u] = "idle"
        /\ \A u \in Thread : u # t => pc'[u] = "idle"
    BY <1>11, OthersIdle DEF RemoveLast, AtRecord, TypeOK
  <2>3. Filed' = Filed
    BY <1>11, FiledUnchanged DEF RemoveLast, AtRecord
  <2>4. Listed' \ {arg[t]} = Listed \ {arg[t]}
    BY <1>11, ListedAfterLast
  <2>5. hasLoaded
    BY <1>11 DEF RemoveLast, AtRecord, IInv, BlankUntilRead
  <2> QED
    BY <1>11, <2>1, <2>2, <2>3, <2>4, <2>5 DEF RemoveLast, AtRecord, FileMirrors, TypeOK
<1>12. ASSUME NEW t \in Thread, ~overrun, RemoveDone(t) PROVE FileMirrors' /\ OverrunByStore'
  <2>1. OverrunByStore'
    BY <1>12 DEF RemoveDone, OverrunByStore, TypeOK
  <2>2. /\ pc[t] # "idle" /\ \A u \in Thread : u # t => pc[u] = "idle"
        /\ \A u \in Thread : u # t => pc'[u] = "idle"
    BY <1>12, OthersIdle DEF RemoveDone, TypeOK
  <2>3. Filed' = Filed /\ Listed' = Listed
    BY <1>12, FiledUnchanged, ListedUnchanged DEF RemoveDone
  <2>4. arg[t] \notin Listed
    <3>1. \A k \in Slot : k < count => table[k] # arg[t]
      BY <1>12 DEF RemoveDone, IInv, RemoveProgress, IsAt, TypeOK, Slot
    <3> QED
      BY <3>1 DEF Listed
  <2> QED
    BY <1>12, <2>1, <2>2, <2>3, <2>4 DEF RemoveDone, FileMirrors, TypeOK, Modified
<1>13. ASSUME NEW t \in Thread, ~overrun, LoadPairing(t) PROVE FileMirrors' /\ OverrunByStore'
  <2>1. OverrunByStore'
    BY <1>13 DEF LoadPairing, OverrunByStore, TypeOK
  <2>2. /\ pc[t] # "idle" /\ \A u \in Thread : u # t => pc[u] = "idle"
        /\ \A u \in Thread : u # t => pc'[u] = "idle"
    BY <1>13, OthersIdle DEF LoadPairing, TypeOK
  <2>3. Filed' = Filed /\ Listed' = Listed
    BY <1>13, FiledUnchanged, ListedUnchanged DEF LoadPairing
  <2>4. hasLoaded
    BY <1>13 DEF LoadPairing, IInv, BlankUntilRead
  <2> QED
    BY <1>13, <2>1, <2>2, <2>3, <2>4 DEF LoadPairing, FileMirrors, TypeOK
<1>14. ASSUME NEW t \in Thread, ~overrun, LoadPairingEnds(t) PROVE FileMirrors' /\ OverrunByStore'
  <2>1. OverrunByStore'
    BY <1>14 DEF LoadPairingEnds, OverrunByStore, TypeOK
  <2>2. /\ pc[t] # "idle" /\ \A u \in Thread : u # t => pc[u] = "idle"
        /\ \A u \in Thread : u # t => pc'[u] = "idle"
    BY <1>14, OthersIdle DEF LoadPairingEnds, TypeOK
  <2>3. Filed' = Filed /\ Listed' = Listed
    BY <1>14, FiledUnchanged, ListedUnchanged DEF LoadPairingEnds
  <2>4. hasLoaded
    BY <1>14 DEF LoadPairingEnds, IInv, BlankUntilRead
  <2> QED
    BY <1>14, <2>1, <2>2, <2>3, <2>4 DEF LoadPairingEnds, FileMirrors, TypeOK
<1>15. ASSUME NEW t \in Thread, ~overrun, SaveOpen(t) PROVE FileMirrors' /\ OverrunByStore'
  <2>1. OverrunByStore'
    BY <1>15 DEF SaveOpen, OverrunByStore, TypeOK
  <2>2. /\ pc[t] # "idle" /\ \A u \in Thread : u # t => pc[u] = "idle"
        /\ \A u \in Thread : u # t => pc'[u] = "idle"
    BY <1>15, OthersIdle DEF SaveOpen, TypeOK
  <2> QED
    BY <1>15, <2>1, <2>2 DEF SaveOpen, FileMirrors, TypeOK
<1>16. ASSUME NEW t \in Thread, ~overrun, SaveClose(t) PROVE FileMirrors' /\ OverrunByStore'
  <2>1. OverrunByStore'
    BY <1>16 DEF SaveClose, OverrunByStore, TypeOK
  <2>2. /\ pc[t] # "idle" /\ \A u \in Thread : u # t => pc[u] = "idle"
        /\ \A u \in Thread : u # t => pc'[u] = "idle"
    BY <1>16, OthersIdle DEF SaveClose, TypeOK
  <2>3. Filed' = Listed'
    <3>1. file'.units = MaxPairings + 1 /\ file'.table = table' /\ file'.count = count'
      BY <1>16 DEF SaveClose
    <3>2. \A k \in Slot : k + 1 < file'.units
      BY <3>1, SizeAssumption DEF Slot
    <3> QED
      BY <3>1, <3>2, SizeAssumption DEF Filed, Listed, Slot
  <2> QED
    BY <1>16, <2>1, <2>2, <2>3 DEF SaveClose, FileMirrors, TypeOK
<1>17. ASSUME NEW t \in Thread, ~overrun, Return(t) PROVE FileMirrors' /\ OverrunByStore'
  <2>1. OverrunByStore'
    BY <1>17 DEF Return, OverrunByStore, TypeOK
  <2>2. /\ pc[t] # "idle" /\ \A u \in Thread : u # t => pc[u] = "idle"
        /\ \A u \in Thread : u # t => pc'[u] = "idle"
    BY <1>17, OthersIdle DEF Return, TypeOK
  <2>3. Filed' = Filed /\ Listed' = Listed
    BY <1>17, FiledUnchanged, ListedUnchanged DEF Return
  <2>4. hasLoaded
    BY <1>17 DEF Return, IInv, BlankUntilRead
  <2> QED
    BY <1>17, <2>1, <2>2, <2>3, <2>4 DEF Return, FileMirrors, TypeOK
<1>18. ASSUME NEW t \in Thread, ~overrun, NEW o \in Op, NEW p \in Peer,
             CallFromLibrary(t, o, p)
      PROVE  FileMirrors' /\ OverrunByStore'
  <2>1. \A u \in Thread : pc[u] = "idle"
    BY <1>18, ThreadAssumption DEF CallFromLibrary, IInv, Exclusive
  <2>2. \A u \in Thread : pc'[u] \in {"idle", "load"}
    BY <1>18, <2>1 DEF CallFromLibrary, Begin, TypeOK
  <2>3. Filed' = Filed /\ Listed' = Listed /\ hasLoaded' = hasLoaded /\ ~overrun'
    BY <1>18, FiledUnchanged, ListedUnchanged DEF CallFromLibrary, Begin
  <2> QED
    BY <2>1, <2>2, <2>3 DEF FileMirrors, OverrunByStore
<1>19. ASSUME Restart PROVE FileMirrors' /\ OverrunByStore'
  BY <1>19 DEF Restart, FileMirrors, OverrunByStore
<1>20. CASE UNCHANGED vars
  <2>1. Filed' = Filed /\ Listed' = Listed
    BY <1>20, FiledUnchanged, ListedUnchanged DEF vars
  <2> QED
    BY <1>20, <2>1 DEF vars, FileMirrors, OverrunByStore, Modified
<1>21. \A t \in Thread : ~SaveOpenFails(t)
  BY DEF SaveOpenFails
<1>22. ~\E t \in Thread, o \in Op, p \in Peer : CallFromCommand(t, o, p)
  BY DEF CallFromCommand, Locked
<1> QED
  BY <1>3, <1>4, <1>5, <1>6, <1>7, <1>8, <1>9, <1>10, <1>11, <1>12, <1>13, <1>14, <1>15, <1>16, <1>17, <1>18, <1>19, <1>20, <1>21, <1>22
  DEF Next, Call, Step

LEMMA DurableInit == Init => DurableInv
<1> SUFFICES ASSUME Init PROVE DurableInv
  OBVIOUS
<1>1. IInv /\ TypeOK
  BY InvInit, InitTypeOK
<1>2. \A t \in Thread : pc[t] = "idle"
  BY DEF Init
<1>3. ~hasLoaded /\ ~overrun /\ \A t \in Thread : seen[t] = {}
  BY DEF Init
<1> QED
  BY <1>1, <1>2, <1>3 DEF DurableInv, FileMirrors, OverrunByStore, OnlyEnumerationsSee

(* When a storage function answers OK the file holds what the table holds, *)
(* if the file system does what it is told; that the process may end       *)
(* inside a save, after another call, does not matter to an answer.        *)
THEOREM AnswersDurable ==
  ASSUME Locked, FileSystemWorks
  PROVE  Spec => []AnswerIsDurable
<1>1. DurableInv /\ [Next]_vars => DurableInv'
  BY Locked, FileSystemWorks, DurableStep
<1>2. DurableInv => AnswerIsDurable
  <2> SUFFICES ASSUME DurableInv, NEW t \in Thread, pc[t] = "return"
               PROVE  Filed = Listed
    BY DEF AnswerIsDurable
  <2>1. hasLoaded /\ \A u \in Thread : u # t => pc[u] = "idle"
    BY OthersIdle DEF DurableInv, IInv, BlankUntilRead
  <2> QED
    BY <2>1 DEF DurableInv, FileMirrors
<1> QED
  BY DurableInit, <1>1, <1>2, PTL DEF Spec

-----------------------------------------------------------------------------
(* While no peer is repeated the counter is the number of pairings.        *)
LEMMA ListedCardinality ==
  ASSUME TypeOK, Unique(table, count)
  PROVE  Cardinality(Listed) = count
<1> DEFINE used == 0 .. count - 1
           holder == [k \in used |-> table[k]]
<1>1. count \in 0 .. MaxPairings /\ count \in Nat /\ count - 1 \in Int
  BY SizeAssumption DEF TypeOK
<1>2. \A k : k \in used <=> k \in Slot /\ k < count
  BY <1>1, SizeAssumption DEF Slot
<1>3. Listed = {table[k] : k \in used}
  BY <1>2 DEF Listed
<1>4. holder \in Surjection(used, Listed)
  BY <1>3 DEF Surjection
<1>5. holder \in Injection(used, Listed)
  BY <1>2, <1>3 DEF Injection, IsInjective, Unique
<1>6. IsFiniteSet(used) /\ Cardinality(used) = count
  BY <1>1, FS_Interval
<1> QED
  BY <1>4, <1>5, <1>6, FS_Surjection

(* After an overrun the counter stands at the table's size until the       *)
(* process is restarted.                                                   *)
FullAtOverrun == overrun => count = MaxPairings

LEMMA FullStep ==
  ASSUME IInv, FullAtOverrun, [Next]_vars
  PROVE  FullAtOverrun'
<1>1. ASSUME NEW t \in Thread, AddStore(t) PROVE FullAtOverrun'
  BY <1>1 DEF AddStore, FullAtOverrun
<1>2. ASSUME NEW t \in Thread, ~overrun, AddIncrement(t) PROVE FullAtOverrun'
  BY <1>2 DEF AddIncrement, FullAtOverrun, IInv, AddProgress
<1>3. CASE Restart
  BY <1>3 DEF Restart, FullAtOverrun
<1>4. CASE UNCHANGED vars
  BY <1>4 DEF vars, FullAtOverrun
<1>5. ASSUME NEW t \in Thread, ~overrun, Call(t) PROVE ~overrun'
  BY <1>5 DEF Call, CallFromLibrary, CallFromCommand, Begin
<1>6. ASSUME NEW t \in Thread, ~overrun, Step(t)
      PROVE  AddStore(t) \/ AddIncrement(t) \/ ~overrun'
  BY <1>6 DEF Step, CheckLoaded, ReadFile, AddFindsPeer, AddIsNew, RemoveSkip, RemoveShift,
     RemoveLast, RemoveDone, LoadPairing, LoadPairingEnds, SaveOpen, SaveOpenFails,
     SaveClose, Return
<1> QED
  BY <1>1, <1>2, <1>3, <1>4, <1>5, <1>6 DEF Next, FullAtOverrun

(* The table is left exactly by the addition of one peer too many: all its *)
(* records are then of different other peers, which the file has as well.  *)
(* Nothing in the functions rules that addition out, and the theorem does  *)
(* not assume it away.                                                     *)
THEOREM OverrunExactly ==
  ASSUME Locked, FileSystemWorks
  PROVE  Spec => []OverrunIsOnePeerTooMany
<1> DEFINE Inside == DurableInv /\ FullAtOverrun
<1>1. Inside /\ [Next]_vars => Inside'
  BY Locked, FileSystemWorks, DurableStep, FullStep DEF DurableInv
<1>2. Inside => OverrunIsOnePeerTooMany
  <2> SUFFICES ASSUME Inside PROVE OverrunIsOnePeerTooMany
    OBVIOUS
  <2>1. ASSUME NEW t \in Thread, pc[t] = "increment"
        PROVE  /\ Cardinality(Filed) = count /\ arg[t] \notin Filed
               /\ overrun <=> count = MaxPairings
    <3>1. hasLoaded /\ \A u \in Thread : u # t => pc[u] = "idle"
      BY <2>1, OthersIdle DEF DurableInv, IInv, BlankUntilRead
    <3>2. Filed = Listed
      BY <2>1, <3>1 DEF DurableInv, FileMirrors
    <3>3. Cardinality(Listed) = count
      BY ListedCardinality, FileSystemWorks DEF DurableInv, IInv, UniqueRecords, FileSystemWorks
    <3>4. arg[t] \notin Listed
      BY <2>1 DEF DurableInv, IInv, AddProgress, IsAt, Listed
    <3>5. overrun <=> count = MaxPairings
      BY <2>1, SizeAssumption DEF DurableInv, IInv, AddProgress, FullAtOverrun, TypeOK
    <3> QED
      BY <3>2, <3>3, <3>4, <3>5
  <2> QED
    BY <2>1 DEF OverrunIsOnePeerTooMany, DurableInv, OverrunByStore
<1>3. Init => Inside
  BY DurableInit DEF Init, FullAtOverrun
<1> QED
  BY <1>1, <1>2, <1>3, PTL DEF Spec

-----------------------------------------------------------------------------
(* The refinement.  While only thread t can be inside a storage function, the  *)
(* abstract state is a function of where t is.                             *)
LEMMA KeptWhenAlone ==
  \A t \in Thread :
    /\ (\A u \in Thread : u # t => pc[u] = "idle") =>
         Kept = IF pc[t] = "close" THEN Listed ELSE Filed
    /\ (\A u \in Thread : u # t => pc'[u] = "idle") =>
         Kept' = IF pc'[t] = "close" THEN Listed' ELSE Filed'
  BY DEF Kept

(* Until a call answers, the abstract state does not see its steps: they   *)
(* keep the set and leave its thread's phase and its report as they are.   *)
LEMMA HiddenStep ==
  ASSUME TypeOK, NEW t \in Thread, UNCHANGED <<op, arg, Kept>>,
         pc' = [pc EXCEPT ![t] = pc'[t]],
         \/ pc[t] \notin {"idle", "close", "return"} /\ pc'[t] \notin {"idle", "close", "return"}
         \/ pc[t] = "close" /\ pc'[t] = "return" /\ seen'[t] = {},
         \A u \in Thread : u # t => seen'[u] = seen[u]
  PROVE  UNCHANGED Abstract!vars
<1>1. Phase' = Phase
  BY DEF Phase, TypeOK
<1>2. Reported' = Reported
  BY DEF Reported, TypeOK
<1> QED
  BY <1>1, <1>2 DEF Abstract!vars

(* The step of t that answers its call is seen in its phase, and, if the   *)
(* call is an enumeration, in its report.                                  *)
LEMMA PhaseAnswered ==
  ASSUME TypeOK, NEW t \in Thread,
         pc' = [pc EXCEPT ![t] = pc'[t]], pc'[t] \in {"close", "return"},
         pc[t] \in {"body", "open"}
  PROVE  Phase[t] = "asked" /\ Phase' = [Phase EXCEPT ![t] = "answered"]
  BY DEF Phase, TypeOK

LEMMA ReportedUnchanged ==
  ASSUME TypeOK, NEW t \in Thread, seen' = seen,
         pc' = [pc EXCEPT ![t] = pc'[t]], pc[t] # "return",
         pc'[t] = "return" => seen[t] = {}
  PROVE  Reported' = Reported
  BY DEF Reported, TypeOK

-----------------------------------------------------------------------------
(* Each step of the storage is a step of the set of peers, or none.        *)
LEMMA RefinementStep ==
  Fault = {} /\ Locked /\ DurableInv /\ [Next]_vars => [Abstract!Next]_Abstract!vars
<1> SUFFICES ASSUME Fault = {}, Locked, DurableInv, [Next]_vars
             PROVE  [Abstract!Next]_Abstract!vars
  OBVIOUS
<1>1. /\ IInv /\ TypeOK /\ FileMirrors /\ OverrunByStore /\ OnlyEnumerationsSee
      /\ IInv' /\ TypeOK' /\ FileMirrors'
  BY DurableStep DEF DurableInv, IInv, FileSystemWorks
<1> USE <1>1 DEF locals, memory
<1>2. ASSUME NEW t \in Thread, ~overrun, CheckLoaded(t) PROVE UNCHANGED Abstract!vars
  <2>1. /\ pc[t] # "idle" /\ \A u \in Thread : u # t => pc[u] = "idle"
        /\ \A u \in Thread : u # t => pc'[u] = "idle"
    BY <1>2, OthersIdle DEF CheckLoaded, TypeOK
  <2>2. Kept' = Kept
    <3>1. Filed' = Filed
      BY <1>2, FiledUnchanged DEF CheckLoaded
    <3> QED
      BY <1>2, <2>1, <3>1, KeptWhenAlone DEF CheckLoaded, TypeOK
  <2>3. UNCHANGED <<op, arg>> /\ pc' = [pc EXCEPT ![t] = pc'[t]]
    BY <1>2 DEF CheckLoaded, TypeOK
  <2>4. /\ pc[t] \notin {"idle", "close", "return"} /\ pc'[t] \notin {"idle", "close", "return"}
        /\ \A u \in Thread : u # t => seen'[u] = seen[u]
    BY <1>2 DEF CheckLoaded, TypeOK
  <2> QED
    BY <2>2, <2>3, <2>4, HiddenStep
<1>3. ASSUME NEW t \in Thread, ~overrun, ReadFile(t) PROVE UNCHANGED Abstract!vars
  <2>1. /\ pc[t] # "idle" /\ \A u \in Thread : u # t => pc[u] = "idle"
        /\ \A u \in Thread : u # t => pc'[u] = "idle"
    BY <1>3, OthersIdle DEF ReadFile, TypeOK
  <2>2. Kept' = Kept
    <3>1. Filed' = Filed
      BY <1>3, FiledUnchanged DEF ReadFile
    <3> QED
      BY <1>3, <2>1, <3>1, KeptWhenAlone DEF ReadFile, TypeOK
  <2>3. UNCHANGED <<op, arg>> /\ pc' = [pc EXCEPT ![t] = pc'[t]]
    BY <1>3 DEF ReadFile, TypeOK
  <2>4. /\ pc[t] \notin {"idle", "close", "return"} /\ pc'[t] \notin {"idle", "close", "return"}
        /\ \A u \in Thread : u # t => seen'[u] = seen[u]
    BY <1>3 DEF ReadFile, TypeOK
  <2> QED
    BY <2>2, <2>3, <2>4, HiddenStep
<1>4. ASSUME NEW t \in Thread, ~overrun, AddIsNew(t) PROVE UNCHANGED Abstract!vars
  <2>1. /\ pc[t] # "idle" /\ \A u \in Thread : u # t => pc[u] = "idle"
        /\ \A u \in Thread : u # t => pc'[u] = "idle"
    BY <1>4, OthersIdle DEF AddIsNew, TypeOK
  <2>2. Kept' = Kept
    <3>1. Filed' = Filed
      BY <1>4, FiledUnchanged DEF AddIsNew
    <3> QED
      BY <1>4, <2>1, <3>1, KeptWhenAlone DEF AddIsNew, TypeOK
  <2>3. UNCHANGED <<op, arg>> /\ pc' = [pc EXCEPT ![t] = pc'[t]]
    BY <1>4 DEF AddIsNew, TypeOK
  <2>4. /\ pc[t] \notin {"idle", "close", "return"} /\ pc'[t] \notin {"idle", "close", "return"}
        /\ \A u \in Thread : u # t => seen'[u] = seen[u]
    BY <1>4 DEF AddIsNew, TypeOK
  <2> QED
    BY <2>2, <2>3, <2>4, HiddenStep
<1>5. ASSUME NEW t \in Thread, ~overrun, AddStore(t) PROVE UNCHANGED Abstract!vars
  <2>1. /\ pc[t] # "idle" /\ \A u \in Thread : u # t => pc[u] = "idle"
        /\ \A u \in Thread : u # t => pc'[u] = "idle"
    BY <1>5, OthersIdle DEF AddStore, TypeOK
  <2>2. Kept' = Kept
    <3>1. Filed' = Filed
      BY <1>5, FiledUnchanged DEF AddStore
    <3> QED
      BY <1>5, <2>1, <3>1, KeptWhenAlone DEF AddStore, TypeOK
  <2>3. UNCHANGED <<op, arg>> /\ pc' = [pc EXCEPT ![t] = pc'[t]]
    BY <1>5 DEF AddStore, TypeOK
  <2>4. /\ pc[t] \notin {"idle", "close", "return"} /\ pc'[t] \notin {"idle", "close", "return"}
        /\ \A u \in Thread : u # t => seen'[u] = seen[u]
    BY <1>5 DEF AddStore, TypeOK
  <2> QED
    BY <2>2, <2>3, <2>4, HiddenStep
<1>6. ASSUME NEW t \in Thread, ~overrun, AddIncrement(t) PROVE UNCHANGED Abstract!vars
  <2>1. /\ pc[t] # "idle" /\ \A u \in Thread : u # t => pc[u] = "idle"
        /\ \A u \in Thread : u # t => pc'[u] = "idle"
    BY <1>6, OthersIdle DEF AddIncrement, TypeOK
  <2>2. Kept' = Kept
    <3>1. Filed' = Filed
      BY <1>6, FiledUnchanged DEF AddIncrement
    <3> QED
      BY <1>6, <2>1, <3>1, KeptWhenAlone DEF AddIncrement, TypeOK
  <2>3. UNCHANGED <<op, arg>> /\ pc' = [pc EXCEPT ![t] = pc'[t]]
    BY <1>6 DEF AddIncrement, TypeOK
  <2>4. /\ pc[t] \notin {"idle", "close", "return"} /\ pc'[t] \notin {"idle", "close", "return"}
        /\ \A u \in Thread : u # t => seen'[u] = seen[u]
    BY <1>6 DEF AddIncrement, TypeOK
  <2> QED
    BY <2>2, <2>3, <2>4, HiddenStep
<1>7. ASSUME NEW t \in Thread, ~overrun, RemoveSkip(t) PROVE UNCHANGED Abstract!vars
  <2>1. /\ pc[t] # "idle" /\ \A u \in Thread : u # t => pc[u] = "idle"
        /\ \A u \in Thread : u # t => pc'[u] = "idle"
    BY <1>7, OthersIdle DEF RemoveSkip, AtRecord, TypeOK
  <2>2. Kept' = Kept
    <3>1. Filed' = Filed
      BY <1>7, FiledUnchanged DEF RemoveSkip, AtRecord
    <3> QED
      BY <1>7, <2>1, <3>1, KeptWhenAlone DEF RemoveSkip, AtRecord, TypeOK
  <2>3. UNCHANGED <<op, arg>> /\ pc' = [pc EXCEPT ![t] = pc'[t]]
    BY <1>7 DEF RemoveSkip, AtRecord, TypeOK
  <2>4. /\ pc[t] \notin {"idle", "close", "return"} /\ pc'[t] \notin {"idle", "close", "return"}
        /\ \A u \in Thread : u # t => seen'[u] = seen[u]
    BY <1>7 DEF RemoveSkip, AtRecord, TypeOK
  <2> QED
    BY <2>2, <2>3, <2>4, HiddenStep
<1>8. ASSUME NEW t \in Thread, ~overrun, RemoveShift(t) PROVE UNCHANGED Abstract!vars
  <2>1. /\ pc[t] # "idle" /\ \A u \in Thread : u # t => pc[u] = "idle"
        /\ \A u \in Thread : u # t => pc'[u] = "idle"
    BY <1>8, OthersIdle DEF RemoveShift, AtRecord, TypeOK
  <2>2. Kept' = Kept
    <3>1. Filed' = Filed
      BY <1>8, FiledUnchanged DEF RemoveShift, AtRecord
    <3> QED
      BY <1>8, <2>1, <3>1, KeptWhenAlone DEF RemoveShift, AtRecord, TypeOK
  <2>3. UNCHANGED <<op, arg>> /\ pc' = [pc EXCEPT ![t] = pc'[t]]
    BY <1>8 DEF RemoveShift, AtRecord, TypeOK
  <2>4. /\ pc[t] \notin {"idle", "close", "return"} /\ pc'[t] \notin {"idle", "close", "return"}
        /\ \A u \in Thread : u # t => seen'[u] = seen[u]
    BY <1>8 DEF RemoveShift, AtRecord, TypeOK
  <2> QED
    BY <2>2, <2>3, <2>4, HiddenStep
<1>9. ASSUME NEW t \in Thread, ~overrun, RemoveLast(t) PROVE UNCHANGED Abstract!vars
  <2>1. /\ pc[t] # "idle" /\ \A u \in Thread : u # t => pc[u] = "idle"
        /\ \A u \in Thread : u # t => pc'[u] = "idle"
    BY <1>9, OthersIdle DEF RemoveLast, AtRecord, TypeOK
  <2>2. Kept' = Kept
    <3>1. Filed' = Filed
      BY <1>9, FiledUnchanged DEF RemoveLast, AtRecord
    <3> QED
      BY <1>9, <2>1, <3>1, KeptWhenAlone DEF RemoveLast, AtRecord, TypeOK
  <2>3. UNCHANGED <<op, arg>> /\ pc' = [pc EXCEPT ![t] = pc'[t]]
    BY <1>9 DEF RemoveLast, AtRecord, TypeOK
  <2>4. /\ pc[t] \notin {"idle", "close", "return"} /\ pc'[t] \notin {"idle", "close", "return"}
        /\ \A u \in Thread : u # t => seen'[u] = seen[u]
    BY <1>9 DEF RemoveLast, AtRecord, TypeOK
  <2> QED
    BY <2>2, <2>3, <2>4, HiddenStep
<1>10. ASSUME NEW t \in Thread, ~overrun, RemoveDone(t) PROVE UNCHANGED Abstract!vars
  <2>1. /\ pc[t] # "idle" /\ \A u \in Thread : u # t => pc[u] = "idle"
        /\ \A u \in Thread : u # t => pc'[u] = "idle"
    BY <1>10, OthersIdle DEF RemoveDone, TypeOK
  <2>2. Kept' = Kept
    <3>1. Filed' = Filed
      BY <1>10, FiledUnchanged DEF RemoveDone
    <3> QED
      BY <1>10, <2>1, <3>1, KeptWhenAlone DEF RemoveDone, TypeOK
  <2>3. UNCHANGED <<op, arg>> /\ pc' = [pc EXCEPT ![t] = pc'[t]]
    BY <1>10 DEF RemoveDone, TypeOK
  <2>4. /\ pc[t] \notin {"idle", "close", "return"} /\ pc'[t] \notin {"idle", "close", "return"}
        /\ \A u \in Thread : u # t => seen'[u] = seen[u]
    BY <1>10 DEF RemoveDone, TypeOK
  <2> QED
    BY <2>2, <2>3, <2>4, HiddenStep
<1>11. ASSUME NEW t \in Thread, ~overrun, LoadPairing(t) PROVE UNCHANGED Abstract!vars
  <2>1. /\ pc[t] # "idle" /\ \A u \in Thread : u # t => pc[u] = "idle"
        /\ \A u \in Thread : u # t => pc'[u] = "idle"
    BY <1>11, OthersIdle DEF LoadPairing, TypeOK
  <2>2. Kept' = Kept
    <3>1. Filed' = Filed
      BY <1>11, FiledUnchanged DEF LoadPairing
    <3> QED
      BY <1>11, <2>1, <3>1, KeptWhenAlone DEF LoadPairing, TypeOK
  <2>3. UNCHANGED <<op, arg>> /\ pc' = [pc EXCEPT ![t] = pc'[t]]
    BY <1>11 DEF LoadPairing, TypeOK
  <2>4. /\ pc[t] \notin {"idle", "close", "return"} /\ pc'[t] \notin {"idle", "close", "return"}
        /\ \A u \in Thread : u # t => seen'[u] = seen[u]
    BY <1>11 DEF LoadPairing, TypeOK
  <2> QED
    BY <2>2, <2>3, <2>4, HiddenStep
<1>12. ASSUME NEW t \in Thread, ~overrun, SaveClose(t) PROVE UNCHANGED Abstract!vars
  <2>1. /\ pc[t] # "idle" /\ \A u \in Thread : u # t => pc[u] = "idle"
        /\ \A u \in Thread : u # t => pc'[u] = "idle"
    BY <1>12, OthersIdle DEF SaveClose, TypeOK
  <2>2. Kept' = Kept
    <3>1. Listed' = Listed /\ pc[t] = "close" /\ pc'[t] = "return"
      BY <1>12, ListedUnchanged DEF SaveClose, TypeOK
    <3>2. hasLoaded'
      BY <1>12 DEF SaveClose, IInv, BlankUntilRead
    <3>3. Filed' = Listed'
      BY <2>1, <3>1, <3>2 DEF FileMirrors
    <3> QED
      BY <2>1, <3>1, <3>3, KeptWhenAlone
  <2>3. UNCHANGED <<op, arg>> /\ pc' = [pc EXCEPT ![t] = pc'[t]]
    BY <1>12 DEF SaveClose, TypeOK
  <2>4. /\ pc[t] = "close" /\ pc'[t] = "return" /\ seen'[t] = {}
        /\ \A u \in Thread : u # t => seen'[u] = seen[u]
    BY <1>12 DEF SaveClose, TypeOK, OnlyEnumerationsSee, IInv, EnumerateProgress
  <2> QED
    BY <2>2, <2>3, <2>4, HiddenStep
<1>13. ASSUME NEW t \in Thread, ~overrun, AddFindsPeer(t) PROVE Abstract!Add(t)
  <2>1. /\ pc[t] # "idle" /\ \A u \in Thread : u # t => pc[u] = "idle"
        /\ \A u \in Thread : u # t => pc'[u] = "idle"
    BY <1>13, OthersIdle DEF AddFindsPeer, TypeOK
  <2>2. pc[t] = "body" /\ pc'[t] = "return" /\ pc' = [pc EXCEPT ![t] = pc'[t]]
    BY <1>13 DEF AddFindsPeer, TypeOK
  <2>3. op[t] = "add" /\ UNCHANGED <<op, arg, seen>> /\ Filed' = Filed
    BY <1>13, FiledUnchanged DEF AddFindsPeer
  <2>4. Kept' = Kept \union {arg[t]}
    <3>1. arg[t] \in Listed
      BY <1>13 DEF AddFindsPeer, Listed
    <3>2. Filed = Listed
      BY <2>1, <2>2, <2>3 DEF FileMirrors, IInv, BlankUntilRead
    <3> QED
      BY <2>1, <2>2, <2>3, <3>1, <3>2, KeptWhenAlone
  <2>5. Phase[t] = "asked" /\ Phase' = [Phase EXCEPT ![t] = "answered"]
    BY <2>2, PhaseAnswered
  <2>6. Reported' = Reported
    BY <2>2, <2>3, ReportedUnchanged DEF OnlyEnumerationsSee
  <2> QED
    BY <2>3, <2>4, <2>5, <2>6 DEF Abstract!Add, Abstract!Answer
<1>14. ASSUME NEW t \in Thread, ~overrun, SaveOpen(t) PROVE Abstract!Add(t) \/ Abstract!Remove(t)
  <2>1. /\ pc[t] # "idle" /\ \A u \in Thread : u # t => pc[u] = "idle"
        /\ \A u \in Thread : u # t => pc'[u] = "idle"
    BY <1>14, OthersIdle DEF SaveOpen, TypeOK
  <2>2. pc[t] = "open" /\ pc'[t] = "close" /\ pc' = [pc EXCEPT ![t] = pc'[t]]
    BY <1>14 DEF SaveOpen, TypeOK
  <2>3. /\ op[t] \in {"add", "remove"} /\ Listed = Modified(t)
        /\ UNCHANGED <<op, arg, seen>> /\ Listed' = Listed
    BY <1>14, <2>2, ListedUnchanged DEF SaveOpen, FileMirrors
  <2>4. Kept' = IF op[t] = "add" THEN Kept \union {arg[t]} ELSE Kept \ {arg[t]}
    BY <2>1, <2>2, <2>3, KeptWhenAlone DEF Modified
  <2>5. Phase[t] = "asked" /\ Phase' = [Phase EXCEPT ![t] = "answered"]
    BY <2>2, PhaseAnswered
  <2>6. Reported' = Reported
    BY <2>2, <2>3, ReportedUnchanged
  <2> QED
    BY <2>3, <2>4, <2>5, <2>6 DEF Abstract!Add, Abstract!Remove, Abstract!Answer
<1>15. ASSUME NEW t \in Thread, ~overrun, LoadPairingEnds(t) PROVE Abstract!Enumerate(t)
  <2>1. /\ pc[t] # "idle" /\ \A u \in Thread : u # t => pc[u] = "idle"
        /\ \A u \in Thread : u # t => pc'[u] = "idle"
    BY <1>15, OthersIdle DEF LoadPairingEnds, TypeOK
  <2>2. pc[t] = "body" /\ pc'[t] = "return" /\ pc' = [pc EXCEPT ![t] = pc'[t]]
    BY <1>15 DEF LoadPairingEnds, TypeOK
  <2>3. op[t] = "enumerate" /\ UNCHANGED <<op, arg, seen>> /\ Filed' = Filed
    BY <1>15, FiledUnchanged DEF LoadPairingEnds
  <2>4. Filed = Listed
    BY <2>1, <2>2, <2>3 DEF FileMirrors, IInv, BlankUntilRead
  <2>5. Kept = Filed /\ Kept' = Filed
    BY <2>1, <2>2, <2>3, KeptWhenAlone
  <2>6. seen[t] = Listed
    <3>1. idx[t] = count
      BY <1>15, <2>2, <2>3, SizeAssumption DEF LoadPairingEnds, IInv, EnumerateProgress, TypeOK
    <3> QED
      BY <2>3, <3>1 DEF IInv, EnumerateProgress, Listed
  <2>7. Phase[t] = "asked" /\ Phase' = [Phase EXCEPT ![t] = "answered"]
    BY <2>2, PhaseAnswered
  <2>8. Reported' = [Reported EXCEPT ![t] = seen[t]]
    BY <2>2, <2>3 DEF Reported, TypeOK
  <2> QED
    BY <2>3, <2>4, <2>5, <2>6, <2>7, <2>8 DEF Abstract!Enumerate, Abstract!Answer
<1>16. ASSUME NEW t \in Thread, ~overrun, Return(t) PROVE Abstract!Respond(t)
  <2>1. /\ pc[t] # "idle" /\ \A u \in Thread : u # t => pc[u] = "idle"
        /\ \A u \in Thread : u # t => pc'[u] = "idle"
    BY <1>16, OthersIdle DEF Return, TypeOK
  <2>2. pc[t] = "return" /\ pc' = [pc EXCEPT ![t] = "idle"] /\ Filed' = Filed
    BY <1>16, FiledUnchanged DEF Return
  <2>3. Kept' = Kept
    BY <2>1, <2>2, KeptWhenAlone DEF TypeOK
  <2>4. Phase[t] = "answered" /\ Phase' = [Phase EXCEPT ![t] = "none"]
    BY <2>2 DEF Phase, TypeOK
  <2>5. Reported' = [Reported EXCEPT ![t] = {}]
    <3>1. \A u \in Thread : u # t => seen'[u] = seen[u]
      BY <1>16 DEF Return, TypeOK
    <3> QED
      BY <2>2, <3>1 DEF Reported, TypeOK
  <2> QED
    BY <1>16, <2>3, <2>4, <2>5 DEF Return, Abstract!Respond
<1>17. ASSUME NEW t \in Thread, NEW o \in Op, NEW p \in Peer, ~overrun,
             CallFromLibrary(t, o, p)
      PROVE  Abstract!Invoke(t, o, p)
  <2>1. \A u \in Thread : pc[u] = "idle"
    BY <1>17, ThreadAssumption DEF CallFromLibrary, IInv, Exclusive
  <2>2. pc' = [pc EXCEPT ![t] = "load"] /\ seen' = seen /\ Filed' = Filed
    BY <1>17, FiledUnchanged DEF CallFromLibrary, Begin
  <2>3. Kept' = Kept
    BY <2>1, <2>2 DEF Kept, TypeOK
  <2>4. Phase[t] = "none" /\ Phase' = [Phase EXCEPT ![t] = "asked"]
    BY <2>1, <2>2 DEF Phase, TypeOK
  <2>5. Reported' = Reported
    BY <2>1, <2>2 DEF Reported, TypeOK
  <2> QED
    BY <1>17, <2>3, <2>4, <2>5 DEF CallFromLibrary, Begin, Abstract!Invoke
<1>18. ASSUME Restart PROVE Abstract!Restart
  <2>1. \A t \in Thread : pc[t] # "close"
    <3>1. CASE overrun
      BY <3>1 DEF OverrunByStore, IInv, Exclusive
    <3>2. CASE ~overrun
      BY <1>18, <3>2 DEF Restart
    <3> QED
      BY <3>1, <3>2
  <2>2. pc' = [t \in Thread |-> "idle"] /\ seen' = [t \in Thread |-> {}] /\ Filed' = Filed
    BY <1>18, FiledUnchanged DEF Restart
  <2>3. Kept' = Kept
    BY <2>1, <2>2 DEF Kept
  <2>4. /\ Phase' = [t \in Thread |-> "none"]
        /\ Reported' = [t \in Thread |-> {}]
    BY <2>2 DEF Phase, Reported
  <2> QED
    BY <1>18, <2>3, <2>4 DEF Restart, Abstract!Restart
<1>19. CASE UNCHANGED vars
  <2>1. Filed' = Filed /\ Listed' = Listed /\ pc' = pc /\ seen' = seen /\ UNCHANGED <<op, arg>>
    BY <1>19, FiledUnchanged, ListedUnchanged DEF vars
  <2> QED
    BY <2>1 DEF Kept, Phase, Reported, Abstract!vars
<1>20. \A t \in Thread : ~SaveOpenFails(t)
  BY DEF SaveOpenFails
<1>21. ~\E t \in Thread, o \in Op, p \in Peer : CallFromCommand(t, o, p)
  BY DEF CallFromCommand, Locked
<1>22. Abstract!Op = Op
  BY DEF Abstract!Op, Op
<1>23. ASSUME NEW t \in Thread, ~overrun, Call(t) \/ Step(t)
      PROVE  [Abstract!Next]_Abstract!vars
  BY <1>2, <1>3, <1>4, <1>5, <1>6, <1>7, <1>8, <1>9, <1>10, <1>11, <1>12, <1>13, <1>14, <1>15, <1>16, <1>17, <1>20, <1>21, <1>22, <1>23 DEF Call, Step, Abstract!Next
<1> QED
  BY <1>18, <1>19, <1>23 DEF Next, Abstract!Next

LEMMA RefinementInit == Init => Abstract!Init
<1> SUFFICES ASSUME Init PROVE Abstract!Init
  OBVIOUS
<1>1. Kept = {}
  BY NothingFiled DEF Init, NoFile, Kept
<1>2. Phase = [t \in Thread |-> "none"] /\ Reported = [t \in Thread |-> {}]
  BY DEF Init, Phase, Reported
<1> QED
  BY <1>1, <1>2 DEF Init, Abstract!Init

(* The functions of the pairing storage, with their table, counter, flag   *)
(* and file, are an implementation of one set of peers that every call     *)
(* changes or reads in one instant and that survives restarts.             *)
THEOREM StorageIsPairingSet ==
  ASSUME Locked, Fault = {}
  PROVE  Spec => IsPairingSet
<1>1. DurableInv /\ [Next]_vars => DurableInv'
  BY Locked, Fault = {}, DurableStep DEF FileSystemWorks
<1>2. DurableInv /\ [Next]_vars => [Abstract!Next]_Abstract!vars
  BY Locked, Fault = {}, RefinementStep
<1> QED
  BY DurableInit, RefinementInit, <1>1, <1>2, PTL DEF Spec, IsPairingSet, Abstract!Spec

-----------------------------------------------------------------------------
(* What a call is for.  A call under way is about its own peer only.           *)
About(p) == \E t \in Thread : arg[t] = p /\ op[t] \in {"add", "remove"}

(* Between two saves the file and the table differ in the peer of the call *)
(* under way.                                                              *)
LEMMA DifferInOnePeer ==
  ASSUME DurableInv, Loaded, \A t \in Thread : pc[t] # "close",
         NEW p \in Peer, (p \in Filed) # (p \in Listed)
  PROVE  About(p)
<1>1. Filed # Listed
  OBVIOUS
<1>2. PICK t \in Thread : pc[t] = "open" \/ (pc[t] = "body" /\ op[t] = "remove")
  <2>1. hasLoaded /\ \A u \in Thread : pc[u] \notin {"read", "close"}
    BY DEF Loaded
  <2>2. ~\A u \in Thread :
          pc[u] \notin {"read", "open", "close"} /\ ~(pc[u] = "body" /\ op[u] = "remove")
    BY <1>1, <2>1 DEF DurableInv, FileMirrors
  <2> QED
    BY <2>1, <2>2
<1>3. CASE pc[t] = "open"
  BY <1>3 DEF DurableInv, FileMirrors, Modified, About
<1>4. CASE pc[t] = "body" /\ op[t] = "remove"
  BY <1>4 DEF DurableInv, FileMirrors, About
<1> QED
  BY <1>2, <1>3, <1>4

(* A step that leaves the table and its counter alone, in a thread that is *)
(* past the reading of the file before and after it, keeps what is paired. *)
LEMMA PairedUnchanged ==
  ASSUME hasLoaded, hasLoaded', \A u \in Thread : pc[u] # "read" /\ pc'[u] # "read",
         Listed' = Listed
  PROVE  Paired' = Paired
<1>1. Loaded /\ Loaded'
  BY DEF Loaded
<1> QED
  BY <1>1 DEF Paired

(* A peer is added or lost only by a call about that peer, the loading of  *)
(* the file and restarts included, unless the process ends inside a save.  *)
LEMMA OwnCallStep ==
  ASSUME Locked, Fault = {}, DurableInv, [Next]_vars,
         NEW p \in Peer, (p \in Paired) # (p \in Paired')
  PROVE  About(p)
<1>1. /\ IInv /\ TypeOK /\ FileMirrors /\ OverrunByStore
      /\ TypeOK' /\ FileMirrors' /\ IInv'
  BY DurableStep DEF DurableInv, IInv, FileSystemWorks
<1> USE <1>1 DEF locals, memory
<1>2. ASSUME NEW t \in Thread, CheckLoaded(t) PROVE Paired' = Paired
  <2>1. Filed' = Filed /\ Listed' = Listed
    BY <1>2, FiledUnchanged, ListedUnchanged DEF CheckLoaded
  <2>2. \A u \in Thread : u # t => pc[u] = "idle" /\ pc'[u] = "idle"
    BY <1>2, OthersIdle DEF CheckLoaded, TypeOK
  <2>3. CASE hasLoaded
    BY <1>2, <2>1, <2>2, <2>3, PairedUnchanged DEF CheckLoaded, TypeOK
  <2>4. CASE ~hasLoaded
    <3>1. ~Loaded /\ ~Loaded'
      BY <1>2, <2>4 DEF CheckLoaded, Loaded, TypeOK
    <3> QED
      BY <2>1, <3>1 DEF Paired
  <2> QED
    BY <2>3, <2>4
<1>3. ASSUME NEW t \in Thread, ReadFile(t) PROVE Paired' = Paired
  <2>1. Filed' = Filed /\ Listed' = Filed
    BY <1>3, FiledUnchanged, ListedAfterRead DEF ReadFile
  <2>2. \A u \in Thread : u # t => pc[u] = "idle" /\ pc'[u] = "idle"
    BY <1>3, OthersIdle DEF ReadFile, TypeOK
  <2>3. pc[t] = "read" /\ pc'[t] = "body" /\ hasLoaded'
    BY <1>3 DEF ReadFile, TypeOK, IInv, BlankUntilRead
  <2>4. ~Loaded /\ Loaded'
    BY <2>2, <2>3 DEF Loaded
  <2> QED
    BY <2>1, <2>4 DEF Paired
<1>4. ASSUME NEW t \in Thread, AddFindsPeer(t) PROVE Paired' = Paired
  <2>1. \A u \in Thread : u # t => pc[u] = "idle" /\ pc'[u] = "idle"
    BY <1>4, OthersIdle DEF AddFindsPeer, TypeOK
  <2>2. hasLoaded /\ hasLoaded' /\ pc[t] # "read" /\ pc'[t] # "read"
    BY <1>4 DEF AddFindsPeer, TypeOK, IInv, BlankUntilRead
  <2>3. Listed' = Listed
    BY <1>4, ListedUnchanged DEF AddFindsPeer
  <2> QED
    BY <2>1, <2>2, <2>3, PairedUnchanged
<1>5. ASSUME NEW t \in Thread, AddIsNew(t) PROVE Paired' = Paired
  <2>1. \A u \in Thread : u # t => pc[u] = "idle" /\ pc'[u] = "idle"
    BY <1>5, OthersIdle DEF AddIsNew, TypeOK
  <2>2. hasLoaded /\ hasLoaded' /\ pc[t] # "read" /\ pc'[t] # "read"
    BY <1>5 DEF AddIsNew, TypeOK, IInv, BlankUntilRead
  <2>3. Listed' = Listed
    BY <1>5, ListedUnchanged DEF AddIsNew
  <2> QED
    BY <2>1, <2>2, <2>3, PairedUnchanged
<1>6. ASSUME NEW t \in Thread, AddStore(t) PROVE Paired' = Paired
  <2>1. \A u \in Thread : u # t => pc[u] = "idle" /\ pc'[u] = "idle"
    BY <1>6, OthersIdle DEF AddStore, TypeOK
  <2>2. hasLoaded /\ hasLoaded' /\ pc[t] # "read" /\ pc'[t] # "read"
    BY <1>6 DEF AddStore, TypeOK, IInv, BlankUntilRead
  <2>3. Listed' = Listed
    BY <1>6, ListedAfterStore
  <2> QED
    BY <2>1, <2>2, <2>3, PairedUnchanged
<1>7. ASSUME NEW t \in Thread, RemoveSkip(t) PROVE Paired' = Paired
  <2>1. \A u \in Thread : u # t => pc[u] = "idle" /\ pc'[u] = "idle"
    BY <1>7, OthersIdle DEF RemoveSkip, AtRecord, TypeOK
  <2>2. hasLoaded /\ hasLoaded' /\ pc[t] # "read" /\ pc'[t] # "read"
    BY <1>7 DEF RemoveSkip, AtRecord, TypeOK, IInv, BlankUntilRead
  <2>3. Listed' = Listed
    BY <1>7, ListedUnchanged DEF RemoveSkip, AtRecord
  <2> QED
    BY <2>1, <2>2, <2>3, PairedUnchanged
<1>8. ASSUME NEW t \in Thread, RemoveDone(t) PROVE Paired' = Paired
  <2>1. \A u \in Thread : u # t => pc[u] = "idle" /\ pc'[u] = "idle"
    BY <1>8, OthersIdle DEF RemoveDone, TypeOK
  <2>2. hasLoaded /\ hasLoaded' /\ pc[t] # "read" /\ pc'[t] # "read"
    BY <1>8 DEF RemoveDone, TypeOK, IInv, BlankUntilRead
  <2>3. Listed' = Listed
    BY <1>8, ListedUnchanged DEF RemoveDone
  <2> QED
    BY <2>1, <2>2, <2>3, PairedUnchanged
<1>9. ASSUME NEW t \in Thread, LoadPairing(t) PROVE Paired' = Paired
  <2>1. \A u \in Thread : u # t => pc[u] = "idle" /\ pc'[u] = "idle"
    BY <1>9, OthersIdle DEF LoadPairing, TypeOK
  <2>2. hasLoaded /\ hasLoaded' /\ pc[t] # "read" /\ pc'[t] # "read"
    BY <1>9 DEF LoadPairing, TypeOK, IInv, BlankUntilRead
  <2>3. Listed' = Listed
    BY <1>9, ListedUnchanged DEF LoadPairing
  <2> QED
    BY <2>1, <2>2, <2>3, PairedUnchanged
<1>10. ASSUME NEW t \in Thread, LoadPairingEnds(t) PROVE Paired' = Paired
  <2>1. \A u \in Thread : u # t => pc[u] = "idle" /\ pc'[u] = "idle"
    BY <1>10, OthersIdle DEF LoadPairingEnds, TypeOK
  <2>2. hasLoaded /\ hasLoaded' /\ pc[t] # "read" /\ pc'[t] # "read"
    BY <1>10 DEF LoadPairingEnds, TypeOK, IInv, BlankUntilRead
  <2>3. Listed' = Listed
    BY <1>10, ListedUnchanged DEF LoadPairingEnds
  <2> QED
    BY <2>1, <2>2, <2>3, PairedUnchanged
<1>11. ASSUME NEW t \in Thread, SaveOpen(t) PROVE Paired' = Paired
  <2>1. \A u \in Thread : u # t => pc[u] = "idle" /\ pc'[u] = "idle"
    BY <1>11, OthersIdle DEF SaveOpen, TypeOK
  <2>2. hasLoaded /\ hasLoaded' /\ pc[t] # "read" /\ pc'[t] # "read"
    BY <1>11 DEF SaveOpen, TypeOK, IInv, BlankUntilRead
  <2>3. Listed' = Listed
    BY <1>11, ListedUnchanged DEF SaveOpen
  <2> QED
    BY <2>1, <2>2, <2>3, PairedUnchanged
<1>12. ASSUME NEW t \in Thread, SaveClose(t) PROVE Paired' = Paired
  <2>1. \A u \in Thread : u # t => pc[u] = "idle" /\ pc'[u] = "idle"
    BY <1>12, OthersIdle DEF SaveClose, TypeOK
  <2>2. hasLoaded /\ hasLoaded' /\ pc[t] # "read" /\ pc'[t] # "read"
    BY <1>12 DEF SaveClose, TypeOK, IInv, BlankUntilRead
  <2>3. Listed' = Listed
    BY <1>12, ListedUnchanged DEF SaveClose
  <2> QED
    BY <2>1, <2>2, <2>3, PairedUnchanged
<1>13. ASSUME NEW t \in Thread, Return(t) PROVE Paired' = Paired
  <2>1. \A u \in Thread : u # t => pc[u] = "idle" /\ pc'[u] = "idle"
    BY <1>13, OthersIdle DEF Return, TypeOK
  <2>2. hasLoaded /\ hasLoaded' /\ pc[t] # "read" /\ pc'[t] # "read"
    BY <1>13 DEF Return, TypeOK, IInv, BlankUntilRead
  <2>3. Listed' = Listed
    BY <1>13, ListedUnchanged DEF Return
  <2> QED
    BY <2>1, <2>2, <2>3, PairedUnchanged
<1>14. ASSUME NEW t \in Thread, ~overrun, AddIncrement(t) PROVE About(p)
  <2>1. \A u \in Thread : u # t => pc[u] = "idle" /\ pc'[u] = "idle"
    BY <1>14, OthersIdle DEF AddIncrement, TypeOK
  <2>2. hasLoaded /\ hasLoaded' /\ pc[t] # "read" /\ pc'[t] # "read"
    BY <1>14 DEF AddIncrement, TypeOK, IInv, BlankUntilRead
  <2>3. Listed' \ {arg[t]} = Listed \ {arg[t]} /\ op[t] = "add"
    BY <1>14, ListedAfterIncrement DEF IInv, AddProgress, AddIncrement
  <2>4. Loaded /\ Loaded'
    BY <2>1, <2>2 DEF Loaded
  <2> QED
    BY <2>3, <2>4 DEF Paired, About
<1>15. ASSUME NEW t \in Thread, RemoveShift(t) PROVE About(p)
  <2>1. \A u \in Thread : u # t => pc[u] = "idle" /\ pc'[u] = "idle"
    BY <1>15, OthersIdle DEF RemoveShift, AtRecord, TypeOK
  <2>2. hasLoaded /\ hasLoaded' /\ pc[t] # "read" /\ pc'[t] # "read"
    BY <1>15 DEF RemoveShift, AtRecord, TypeOK, IInv, BlankUntilRead
  <2>3. Listed' \ {arg[t]} = Listed \ {arg[t]} /\ op[t] = "remove"
    BY <1>15, ListedAfterShift DEF RemoveShift, AtRecord
  <2>4. Loaded /\ Loaded'
    BY <2>1, <2>2 DEF Loaded
  <2> QED
    BY <2>3, <2>4 DEF Paired, About
<1>16. ASSUME NEW t \in Thread, RemoveLast(t) PROVE About(p)
  <2>1. \A u \in Thread : u # t => pc[u] = "idle" /\ pc'[u] = "idle"
    BY <1>16, OthersIdle DEF RemoveLast, AtRecord, TypeOK
  <2>2. hasLoaded /\ hasLoaded' /\ pc[t] # "read" /\ pc'[t] # "read"
    BY <1>16 DEF RemoveLast, AtRecord, TypeOK, IInv, BlankUntilRead
  <2>3. Listed' \ {arg[t]} = Listed \ {arg[t]} /\ op[t] = "remove"
    BY <1>16, ListedAfterLast DEF RemoveLast, AtRecord
  <2>4. Loaded /\ Loaded'
    BY <2>1, <2>2 DEF Loaded
  <2> QED
    BY <2>3, <2>4 DEF Paired, About
<1>17. ASSUME NEW t \in Thread, NEW o \in Op, NEW q \in Peer, CallFromLibrary(t, o, q)
      PROVE  Paired' = Paired
  <2>1. \A u \in Thread : pc[u] = "idle"
    BY <1>17, ThreadAssumption DEF CallFromLibrary, IInv, Exclusive
  <2>2. \A u \in Thread : pc[u] # "read" /\ pc'[u] # "read"
    BY <1>17, <2>1 DEF CallFromLibrary, Begin, TypeOK
  <2>3. Filed' = Filed /\ Listed' = Listed /\ hasLoaded' = hasLoaded
    BY <1>17, FiledUnchanged, ListedUnchanged DEF CallFromLibrary, Begin
  <2>4. Loaded' = Loaded
    BY <2>2, <2>3 DEF Loaded
  <2> QED
    BY <2>3, <2>4 DEF Paired
<1>18. ASSUME Restart PROVE About(p)
  <2>1. \A t \in Thread : pc[t] # "close"
    <3>1. CASE overrun
      BY <3>1 DEF OverrunByStore, IInv, Exclusive
    <3>2. CASE ~overrun
      BY <1>18, <3>2 DEF Restart
    <3> QED
      BY <3>1, <3>2
  <2>2. Filed' = Filed /\ ~Loaded'
    BY <1>18, FiledUnchanged DEF Restart, Loaded
  <2>3. CASE Loaded
    BY <2>1, <2>2, <2>3, DifferInOnePeer DEF Paired
  <2>4. CASE ~Loaded
    BY <2>2, <2>4 DEF Paired
  <2> QED
    BY <2>3, <2>4
<1>19. CASE UNCHANGED vars
  <2>1. Filed' = Filed /\ Listed' = Listed /\ pc' = pc /\ hasLoaded' = hasLoaded
    BY <1>19, FiledUnchanged, ListedUnchanged DEF vars
  <2> QED
    BY <2>1 DEF Paired, Loaded
<1>20. \A t \in Thread : ~SaveOpenFails(t)
  BY DEF SaveOpenFails
<1>21. ~\E t \in Thread, o \in Op, q \in Peer : CallFromCommand(t, o, q)
  BY DEF CallFromCommand, Locked
<1>22. ASSUME NEW t \in Thread, ~overrun, Call(t) \/ Step(t) PROVE About(p)
  BY <1>2, <1>3, <1>4, <1>5, <1>6, <1>7, <1>8, <1>9, <1>10, <1>11, <1>12, <1>13, <1>14, <1>15, <1>16, <1>17, <1>20, <1>21, <1>22 DEF Call, Step
<1> QED
  BY <1>18, <1>19, <1>22 DEF Next

(* A peer is added or lost only by a call about that peer that is under    *)
(* way: other calls, the loading of the file and a restart keep the rest.  *)
(* With "crash_in_save" in Fault this is not so, as a run shows.           *)
THEOREM OwnCallOnly ==
  ASSUME Locked, Fault = {}
  PROVE  Spec => OnlyItsOwnCall
<1>1. DurableInv /\ [Next]_vars => DurableInv'
  BY Locked, Fault = {}, DurableStep DEF FileSystemWorks
<1>2. DurableInv /\ [Next]_vars =>
        [\A p \in Peer :
           (p \in Paired) # (p \in Paired') =>
             \E t \in Thread : arg[t] = p /\ op[t] \in {"add", "remove"}]_vars
  BY Locked, Fault = {}, OwnCallStep DEF About
<1> QED
  BY DurableInit, <1>1, <1>2, PTL DEF Spec, OnlyItsOwnCall

(* A record that is served as a pairing, from the table or from the file   *)
(* at the next start, is never the all-zero one while every call holds the *)
(* mutex; a run shows it otherwise where a command adds a peer without it. *)
THEOREM ZeroNeverServed ==
  ASSUME Locked, "short_write" \notin Fault
  PROVE  Spec => []ZeroIsNoPairing
<1>1. IInv => ZeroIsNoPairing
  <2> SUFFICES ASSUME IInv PROVE Zero \notin Listed /\ Zero \notin Filed
    BY DEF ZeroIsNoPairing, Paired
  <2>1. Unique(table, count) /\ Unique(file.table, file.count)
    BY "short_write" \notin Fault DEF IInv, UniqueRecords
  <2>2. file.units = 0 \/ \A k \in Slot : k + 1 < file.units
    BY "short_write" \notin Fault, SizeAssumption DEF IInv, TypeOK, File, UniqueRecords, Slot
  <2>3. Zero \notin Listed
    BY <2>1 DEF Listed, Unique
  <2>4. Zero \notin Filed
    BY <2>1, <2>2 DEF Filed, Unique
  <2> QED
    BY <2>3, <2>4
<1> QED
  BY Locked, InvariantHolds, <1>1, PTL
=============================================================================
