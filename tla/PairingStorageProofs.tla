------------------------ MODULE PairingStorageProofs ------------------------
(***************************************************************************)
(* Proofs about PairingStorage, for every set of peers, table size and set *)
(* of threads.  Type correctness needs no more than the assumptions on the *)
(* constants; the invariants after it assume that every call holds the     *)
(* mutex, which is what Locked in each statement says.                     *)
(***************************************************************************)
EXTENDS PairingStorageInv, TLAPS

USE DEF Goto

(* Every step keeps the types.                                             *)
LEMMA TypeStep == TypeOK /\ [Next]_vars => TypeOK'
<1> SUFFICES ASSUME TypeOK, [Next]_vars PROVE TypeOK'
  OBVIOUS
<1> USE ZeroAssumption, SizeAssumption, ThreadAssumption
    DEF TypeOK, Slot, Record, Location, Op, memory, locals
<1>1. ASSUME NEW t \in Thread, NEW o \in Op, NEW p \in Peer,
             CallFromLibrary(t, o, p) \/ CallFromCommand(t, o, p)
      PROVE  TypeOK'
  <2>1. Begin(t, o, p) /\ mutex' \in Thread \union {NoThread}
    BY <1>1 DEF CallFromLibrary, CallFromCommand
  <2>2. /\ pc' \in [Thread -> Location]
        /\ op' \in [Thread -> Op \union {"none"}]
        /\ arg' \in [Thread -> Record]
    BY <2>1 DEF Begin
  <2>3. \A u \in Thread : pc'[u] # "idle" => op'[u] \in Op /\ arg'[u] \in Peer
    BY <2>1 DEF Begin
  <2> QED
    BY <2>1, <2>2, <2>3 DEF Begin
<1>2. ASSUME NEW t \in Thread, CheckLoaded(t) PROVE TypeOK'
  BY <1>2 DEF CheckLoaded
<1>3. ASSUME NEW t \in Thread, ReadFile(t) PROVE TypeOK'
  BY <1>3 DEF ReadFile, File
<1>4. ASSUME NEW t \in Thread, AddFindsPeer(t) PROVE TypeOK'
  BY <1>4 DEF AddFindsPeer
<1>5. ASSUME NEW t \in Thread, AddIsNew(t) PROVE TypeOK'
  BY <1>5 DEF AddIsNew
<1>6. ASSUME NEW t \in Thread, AddStore(t) PROVE TypeOK'
  BY <1>6 DEF AddStore
<1>7. ASSUME NEW t \in Thread, AddIncrement(t) PROVE TypeOK'
  <2>1. count' \in 0 .. MaxPairings
    <3>1. CASE count < MaxPairings
      BY <1>7, <3>1 DEF AddIncrement
    <3>2. CASE ~(count < MaxPairings)
      BY <1>7, <3>2 DEF AddIncrement
    <3> QED
      BY <3>1, <3>2
  <2>2. overrun' \in BOOLEAN
    BY <1>7 DEF AddIncrement
  <2> QED
    BY <1>7, <2>1, <2>2 DEF AddIncrement
<1>8. ASSUME NEW t \in Thread, RemoveSkip(t) PROVE TypeOK'
  BY <1>8 DEF RemoveSkip, AtRecord
<1>9. ASSUME NEW t \in Thread, RemoveShift(t) PROVE TypeOK'
  BY <1>9 DEF RemoveShift, AtRecord, GapClosed
<1>10. ASSUME NEW t \in Thread, RemoveLast(t) PROVE TypeOK'
  BY <1>10 DEF RemoveLast, AtRecord
<1>11. ASSUME NEW t \in Thread, RemoveDone(t) PROVE TypeOK'
  BY <1>11 DEF RemoveDone
<1>12. ASSUME NEW t \in Thread, LoadPairing(t) PROVE TypeOK'
  BY <1>12 DEF LoadPairing
<1>13. ASSUME NEW t \in Thread, LoadPairingEnds(t) PROVE TypeOK'
  BY <1>13 DEF LoadPairingEnds
<1>14. ASSUME NEW t \in Thread, SaveOpen(t) PROVE TypeOK'
  BY <1>14 DEF SaveOpen, File, NoFile, NoRecords
<1>15. ASSUME NEW t \in Thread, SaveOpenFails(t) PROVE TypeOK'
  BY <1>15 DEF SaveOpenFails
<1>16. ASSUME NEW t \in Thread, SaveClose(t) PROVE TypeOK'
  BY <1>16 DEF SaveClose, File
<1>17. ASSUME NEW t \in Thread, Return(t) PROVE TypeOK'
  BY <1>17 DEF Return
<1>18. ASSUME Restart PROVE TypeOK'
  <2>1. table' \in [Slot -> Record] /\ count' \in 0 .. MaxPairings
    BY <1>18 DEF Restart, NoRecords
  <2>2. /\ pc' \in [Thread -> Location]
        /\ \A t \in Thread : pc'[t] = "idle"
    BY <1>18 DEF Restart
  <2>3. /\ op' \in [Thread -> Op \union {"none"}]
        /\ arg' \in [Thread -> Record]
        /\ idx' \in [Thread -> 0 .. MaxPairings]
        /\ seen' \in [Thread -> SUBSET Record]
    BY <1>18 DEF Restart
  <2> QED
    BY <1>18, <2>1, <2>2, <2>3 DEF Restart
<1>19. CASE UNCHANGED vars
  BY <1>19 DEF vars
<1> QED
  BY <1>1, <1>2, <1>3, <1>4, <1>5, <1>6, <1>7, <1>8, <1>9, <1>10, <1>11,
     <1>12, <1>13, <1>14, <1>15, <1>16, <1>17, <1>18, <1>19
  DEF Next, Call, Step

LEMMA InitTypeOK == Init => TypeOK
<1> SUFFICES ASSUME Init PROVE TypeOK
  OBVIOUS
<1>1. table \in [Slot -> Record] /\ count \in 0 .. MaxPairings /\ file \in File
  BY SizeAssumption DEF Init, File, NoFile, NoRecords, Slot, Record
<1>2. pc \in [Thread -> Location] /\ \A t \in Thread : pc[t] = "idle"
  BY DEF Init, Location
<1>3. /\ op \in [Thread -> Op \union {"none"}]
      /\ arg \in [Thread -> Record]
      /\ idx \in [Thread -> 0 .. MaxPairings]
      /\ seen \in [Thread -> SUBSET Record]
  BY SizeAssumption DEF Init, Record
<1> QED
  BY <1>1, <1>2, <1>3 DEF Init, TypeOK

(* Every reachable state is well typed, with any commands and any faults.  *)
THEOREM TypeCorrect == Spec => []TypeOK
  BY InitTypeOK, TypeStep, PTL DEF Spec

-----------------------------------------------------------------------------
(* With every call under the mutex each step preserves the invariant.      *)
LEMMA InvStep == Locked /\ IInv /\ [Next]_vars => IInv'
<1> SUFFICES ASSUME Locked, IInv, [Next]_vars PROVE IInv'
  OBVIOUS
<1>0. TypeOK /\ TypeOK'
  BY TypeStep DEF IInv
<1> USE ZeroAssumption, SizeAssumption, ThreadAssumption, <1>0
    DEF TypeOK, Slot, Record, Location, Op, memory, locals
<1>1. ASSUME NEW t \in Thread, ~overrun, CheckLoaded(t) PROVE IInv'
  <2>1. Exclusive'
    BY <1>1 DEF CheckLoaded, IInv, Exclusive
  <2>2. BlankUntilRead'
    BY <1>1 DEF CheckLoaded, IInv, Exclusive, BlankUntilRead
  <2>3. RevokedAreWiped' /\ FileTail' /\ UniqueRecords'
    BY <1>1 DEF CheckLoaded, IInv, Exclusive, RevokedAreWiped, FileTail, UniqueRecords, Unique
  <2>4. AddProgress'
    BY <1>1 DEF CheckLoaded, IInv, Exclusive, AddProgress, IsAt
  <2>5. RemoveProgress'
    BY <1>1 DEF CheckLoaded, IInv, Exclusive, RemoveProgress, IsAt
  <2>6. EnumerateProgress'
    BY <1>1 DEF CheckLoaded, IInv, Exclusive, EnumerateProgress
  <2> QED
    BY <2>1, <2>2, <2>3, <2>4, <2>5, <2>6 DEF IInv
<1>2. ASSUME NEW t \in Thread, ~overrun, ReadFile(t) PROVE IInv'
  <2>1. Exclusive'
    BY <1>2 DEF ReadFile, IInv, Exclusive
  <2>2. BlankUntilRead'
    BY <1>2 DEF ReadFile, IInv, Exclusive, BlankUntilRead
  <2>3. RevokedAreWiped'
    <3>1. \A k \in Slot : table[k] = Zero
      BY <1>2 DEF ReadFile, IInv, BlankUntilRead, NoRecords
    <3>2. \A k \in Slot : k >= count' => table'[k] = Zero
      <4> SUFFICES ASSUME NEW k \in Slot, k >= count' PROVE table'[k] = Zero
        OBVIOUS
      <4>1. CASE k + 1 < file.units
        BY <1>2, <4>1 DEF ReadFile, File, IInv, FileTail
      <4>2. CASE ~(k + 1 < file.units)
        BY <1>2, <4>2, <3>1 DEF ReadFile
      <4> QED
        BY <4>1, <4>2
    <3> QED
      BY <3>2 DEF RevokedAreWiped
  <2>4. FileTail'
    BY <1>2 DEF ReadFile, IInv, FileTail
  <2>5. UniqueRecords'
    <3> SUFFICES ASSUME "short_write" \notin Fault PROVE UniqueRecords'
      BY DEF UniqueRecords
    <3>1. CASE file.units = 0
      BY <1>2, <3>1 DEF ReadFile, File, IInv, BlankUntilRead, UniqueRecords, Unique
    <3>2. CASE file.units = MaxPairings + 1
      <4>1. table' = file.table /\ count' = file.count /\ file' = file
        BY <1>2, <3>2 DEF ReadFile, File
      <4> QED
        BY <4>1 DEF IInv, UniqueRecords
    <3> QED
      BY <3>1, <3>2 DEF IInv, UniqueRecords, File
  <2>6. AddProgress'
    <3>1. \A u \in Thread : pc'[u] \in {"idle", "body"}
      BY <1>2 DEF ReadFile, IInv, Exclusive
    <3> QED
      BY <3>1 DEF AddProgress
  <2>7. RemoveProgress'
    <3>1. pc'[t] = "body" /\ idx' = idx /\ op' = op
      BY <1>2 DEF ReadFile
    <3>2. op[t] = "remove" => idx[t] = 0
      BY <1>2 DEF ReadFile, IInv, RemoveProgress
    <3>3. \A u \in Thread : u # t => pc'[u] = "idle"
      BY <1>2 DEF ReadFile, IInv, Exclusive
    <3>4. op'[t] = "remove" => \A k \in Slot : ~(k < idx'[t])
      BY <3>1, <3>2
    <3> QED
      BY <3>1, <3>3, <3>4 DEF RemoveProgress
  <2>8. EnumerateProgress'
    BY <1>2 DEF ReadFile, IInv, Exclusive, EnumerateProgress
  <2> QED
    BY <2>1, <2>2, <2>3, <2>4, <2>5, <2>6, <2>7, <2>8 DEF IInv
<1>3. ASSUME NEW t \in Thread, ~overrun, AddFindsPeer(t) PROVE IInv'
  <2>1. Exclusive'
    BY <1>3 DEF AddFindsPeer, IInv, Exclusive
  <2>2. BlankUntilRead'
    BY <1>3 DEF AddFindsPeer, IInv, Exclusive, BlankUntilRead
  <2>3. RevokedAreWiped' /\ FileTail' /\ UniqueRecords'
    BY <1>3 DEF AddFindsPeer, IInv, Exclusive, RevokedAreWiped, FileTail, UniqueRecords, Unique
  <2>4. AddProgress'
    BY <1>3 DEF AddFindsPeer, IInv, Exclusive, AddProgress, IsAt
  <2>5. RemoveProgress'
    BY <1>3 DEF AddFindsPeer, IInv, Exclusive, RemoveProgress, IsAt
  <2>6. EnumerateProgress'
    BY <1>3 DEF AddFindsPeer, IInv, Exclusive, EnumerateProgress
  <2> QED
    BY <2>1, <2>2, <2>3, <2>4, <2>5, <2>6 DEF IInv
<1>4. ASSUME NEW t \in Thread, ~overrun, AddIsNew(t) PROVE IInv'
  <2>1. Exclusive'
    BY <1>4 DEF AddIsNew, IInv, Exclusive
  <2>2. BlankUntilRead'
    BY <1>4 DEF AddIsNew, IInv, Exclusive, BlankUntilRead
  <2>3. RevokedAreWiped' /\ FileTail' /\ UniqueRecords'
    BY <1>4 DEF AddIsNew, IInv, Exclusive, RevokedAreWiped, FileTail, UniqueRecords, Unique
  <2>4. AddProgress'
    BY <1>4 DEF AddIsNew, IInv, Exclusive, AddProgress, IsAt
  <2>5. RemoveProgress'
    BY <1>4 DEF AddIsNew, IInv, Exclusive, RemoveProgress, IsAt
  <2>6. EnumerateProgress'
    BY <1>4 DEF AddIsNew, IInv, Exclusive, EnumerateProgress
  <2> QED
    BY <2>1, <2>2, <2>3, <2>4, <2>5, <2>6 DEF IInv
<1>5. ASSUME NEW t \in Thread, ~overrun, AddStore(t) PROVE IInv'
  <2>1. Exclusive'
    BY <1>5 DEF AddStore, IInv, Exclusive
  <2>2. BlankUntilRead'
    BY <1>5 DEF AddStore, IInv, Exclusive, BlankUntilRead
  <2>3. RevokedAreWiped'
    BY <1>5 DEF AddStore, IInv, Exclusive, RevokedAreWiped
  <2>4. FileTail'
    BY <1>5 DEF AddStore, IInv, FileTail
  <2>5. UniqueRecords'
    BY <1>5 DEF AddStore, IInv, UniqueRecords, Unique
  <2>6. AddProgress'
    <3>1. \A u \in Thread : u # t => pc'[u] = "idle"
      BY <1>5 DEF AddStore, IInv, Exclusive
    <3>2. pc'[t] = "increment" /\ op'[t] = "add" /\ \A k \in Slot : ~IsAt(arg[t], k)'
      BY <1>5 DEF AddStore, IInv, AddProgress, IsAt
    <3>3. overrun' = (count = MaxPairings) /\ count' = count /\ arg' = arg
      BY <1>5 DEF AddStore
    <3>4. count # MaxPairings => count < MaxPairings /\ table'[count] = arg[t]
      BY <1>5 DEF AddStore
    <3> QED
      BY <3>1, <3>2, <3>3, <3>4 DEF AddProgress
  <2>7. RemoveProgress'
    BY <1>5 DEF AddStore, IInv, Exclusive, RemoveProgress, IsAt
  <2>8. EnumerateProgress'
    BY <1>5 DEF AddStore, IInv, Exclusive, EnumerateProgress
  <2> QED
    BY <2>1, <2>2, <2>3, <2>4, <2>5, <2>6, <2>7, <2>8 DEF IInv
<1>6. ASSUME NEW t \in Thread, ~overrun, AddIncrement(t) PROVE IInv'
  <2>1. Exclusive'
    BY <1>6 DEF AddIncrement, IInv, Exclusive
  <2>2. BlankUntilRead'
    BY <1>6 DEF AddIncrement, IInv, Exclusive, BlankUntilRead
  <2>3. RevokedAreWiped'
    BY <1>6 DEF AddIncrement, IInv, Exclusive, RevokedAreWiped
  <2>4. FileTail'
    BY <1>6 DEF AddIncrement, IInv, FileTail
  <2>5. UniqueRecords'
    <3> SUFFICES ASSUME "short_write" \notin Fault PROVE UniqueRecords'
      BY DEF UniqueRecords
    <3>1. /\ count < MaxPairings /\ table[count] = arg[t] /\ arg[t] # Zero
          /\ \A k \in Slot : k < count => table[k] # arg[t]
      BY <1>6 DEF AddIncrement, IInv, AddProgress, IsAt
    <3>2. count' = count + 1 /\ table' = table /\ file' = file
      BY <1>6, <3>1 DEF AddIncrement
    <3>3. Unique(table, count)'
      BY <3>1, <3>2 DEF IInv, UniqueRecords, Unique
    <3> QED
      BY <3>2, <3>3 DEF IInv, UniqueRecords
  <2>6. AddProgress'
    BY <1>6 DEF AddIncrement, IInv, Exclusive, AddProgress, IsAt
  <2>7. RemoveProgress'
    <3>1. \A u \in Thread : u # t => op'[u] = "none"
      BY <1>6 DEF AddIncrement, IInv, Exclusive, EnumerateProgress
    <3>2. op'[t] = "add"
      BY <1>6 DEF AddIncrement, IInv, AddProgress
    <3> QED
      BY <3>1, <3>2 DEF RemoveProgress
  <2>8. EnumerateProgress'
    BY <1>6 DEF AddIncrement, IInv, Exclusive, EnumerateProgress
  <2> QED
    BY <2>1, <2>2, <2>3, <2>4, <2>5, <2>6, <2>7, <2>8 DEF IInv
<1>7. ASSUME NEW t \in Thread, ~overrun, RemoveSkip(t) PROVE IInv'
  <2>1. Exclusive'
    BY <1>7 DEF RemoveSkip, AtRecord, IInv, Exclusive
  <2>2. BlankUntilRead'
    BY <1>7 DEF RemoveSkip, AtRecord, IInv, Exclusive, BlankUntilRead
  <2>3. RevokedAreWiped' /\ FileTail' /\ UniqueRecords'
    BY <1>7 DEF RemoveSkip, AtRecord, IInv, Exclusive, RevokedAreWiped, FileTail, UniqueRecords, Unique
  <2>4. AddProgress'
    BY <1>7 DEF RemoveSkip, AtRecord, IInv, Exclusive, AddProgress, IsAt
  <2>5. RemoveProgress'
    BY <1>7 DEF RemoveSkip, AtRecord, IInv, Exclusive, RemoveProgress, IsAt
  <2>6. EnumerateProgress'
    BY <1>7 DEF RemoveSkip, AtRecord, IInv, Exclusive, EnumerateProgress
  <2> QED
    BY <2>1, <2>2, <2>3, <2>4, <2>5, <2>6 DEF IInv
<1>8. ASSUME NEW t \in Thread, ~overrun, RemoveShift(t) PROVE IInv'
  <2>1. Exclusive'
    BY <1>8 DEF RemoveShift, AtRecord, GapClosed, IInv, Exclusive
  <2>2. BlankUntilRead'
    BY <1>8 DEF RemoveShift, AtRecord, GapClosed, IInv, Exclusive, BlankUntilRead
  <2>3. RevokedAreWiped'
    BY <1>8 DEF RemoveShift, AtRecord, GapClosed, IInv, Exclusive, RevokedAreWiped
  <2>4. FileTail'
    BY <1>8 DEF RemoveShift, AtRecord, GapClosed, IInv, FileTail
  <2>5. UniqueRecords'
    BY <1>8 DEF RemoveShift, AtRecord, GapClosed, IInv, UniqueRecords, Unique
  <2>6. AddProgress'
    <3>1. pc[t] = "body" /\ pc' = pc
      BY <1>8 DEF RemoveShift, AtRecord
    <3>2. \A u \in Thread : u # t => pc[u] = "idle"
      BY <3>1 DEF IInv, Exclusive
    <3> QED
      BY <3>1, <3>2 DEF AddProgress
  <2>7. RemoveProgress'
    BY <1>8 DEF RemoveShift, AtRecord, GapClosed, IInv, Exclusive, RemoveProgress, IsAt
  <2>8. EnumerateProgress'
    BY <1>8 DEF RemoveShift, AtRecord, GapClosed, IInv, Exclusive, EnumerateProgress
  <2> QED
    BY <2>1, <2>2, <2>3, <2>4, <2>5, <2>6, <2>7, <2>8 DEF IInv
<1>9. ASSUME NEW t \in Thread, ~overrun, RemoveLast(t) PROVE IInv'
  <2>1. Exclusive'
    BY <1>9 DEF RemoveLast, AtRecord, IInv, Exclusive
  <2>2. BlankUntilRead'
    BY <1>9 DEF RemoveLast, AtRecord, IInv, Exclusive, BlankUntilRead
  <2>3. RevokedAreWiped'
    <3>1. /\ count' = count - 1 /\ idx[t] = count - 1
          /\ table' = [table EXCEPT ![idx[t]] = Zero]
          /\ pc' = pc
      BY <1>9 DEF RemoveLast, AtRecord
    <3>2. \A u \in Thread : pc[u] # "increment"
      BY <1>9 DEF RemoveLast, AtRecord, IInv, Exclusive
    <3>3. \A k \in Slot : k >= count => table[k] = Zero
      BY <3>2 DEF IInv, RevokedAreWiped
    <3>4. \A k \in Slot : k >= count - 1 => table'[k] = Zero
      BY <3>1, <3>3
    <3> QED
      BY <3>1, <3>4 DEF RevokedAreWiped
  <2>4. FileTail'
    BY <1>9 DEF RemoveLast, AtRecord, IInv, FileTail
  <2>5. UniqueRecords'
    BY <1>9 DEF RemoveLast, AtRecord, IInv, UniqueRecords, Unique
  <2>6. AddProgress'
    BY <1>9 DEF RemoveLast, AtRecord, IInv, Exclusive, AddProgress, IsAt
  <2>7. RemoveProgress'
    BY <1>9 DEF RemoveLast, AtRecord, IInv, Exclusive, RemoveProgress, IsAt
  <2>8. EnumerateProgress'
    BY <1>9 DEF RemoveLast, AtRecord, IInv, Exclusive, EnumerateProgress
  <2> QED
    BY <2>1, <2>2, <2>3, <2>4, <2>5, <2>6, <2>7, <2>8 DEF IInv
<1>10. ASSUME NEW t \in Thread, ~overrun, RemoveDone(t) PROVE IInv'
  <2>1. Exclusive'
    BY <1>10 DEF RemoveDone, IInv, Exclusive
  <2>2. BlankUntilRead'
    BY <1>10 DEF RemoveDone, IInv, Exclusive, BlankUntilRead
  <2>3. RevokedAreWiped' /\ FileTail' /\ UniqueRecords'
    BY <1>10 DEF RemoveDone, IInv, Exclusive, RevokedAreWiped, FileTail, UniqueRecords, Unique
  <2>4. AddProgress'
    BY <1>10 DEF RemoveDone, IInv, Exclusive, AddProgress, IsAt
  <2>5. RemoveProgress'
    BY <1>10 DEF RemoveDone, IInv, Exclusive, RemoveProgress, IsAt
  <2>6. EnumerateProgress'
    BY <1>10 DEF RemoveDone, IInv, Exclusive, EnumerateProgress
  <2> QED
    BY <2>1, <2>2, <2>3, <2>4, <2>5, <2>6 DEF IInv
<1>11. ASSUME NEW t \in Thread, ~overrun, LoadPairing(t) PROVE IInv'
  <2>1. Exclusive'
    BY <1>11 DEF LoadPairing, IInv, Exclusive
  <2>2. BlankUntilRead'
    BY <1>11 DEF LoadPairing, IInv, Exclusive, BlankUntilRead
  <2>3. RevokedAreWiped' /\ FileTail' /\ UniqueRecords'
    BY <1>11 DEF LoadPairing, IInv, Exclusive, RevokedAreWiped, FileTail, UniqueRecords, Unique
  <2>4. AddProgress'
    BY <1>11 DEF LoadPairing, IInv, Exclusive, AddProgress, IsAt
  <2>5. RemoveProgress'
    BY <1>11 DEF LoadPairing, IInv, Exclusive, RemoveProgress, IsAt
  <2>6. EnumerateProgress'
    BY <1>11 DEF LoadPairing, IInv, Exclusive, EnumerateProgress
  <2> QED
    BY <2>1, <2>2, <2>3, <2>4, <2>5, <2>6 DEF IInv
<1>12. ASSUME NEW t \in Thread, ~overrun, LoadPairingEnds(t) PROVE IInv'
  <2>1. Exclusive'
    BY <1>12 DEF LoadPairingEnds, IInv, Exclusive
  <2>2. BlankUntilRead'
    BY <1>12 DEF LoadPairingEnds, IInv, Exclusive, BlankUntilRead
  <2>3. RevokedAreWiped' /\ FileTail' /\ UniqueRecords'
    BY <1>12 DEF LoadPairingEnds, IInv, Exclusive, RevokedAreWiped, FileTail, UniqueRecords, Unique
  <2>4. AddProgress'
    BY <1>12 DEF LoadPairingEnds, IInv, Exclusive, AddProgress, IsAt
  <2>5. RemoveProgress'
    BY <1>12 DEF LoadPairingEnds, IInv, Exclusive, RemoveProgress, IsAt
  <2>6. EnumerateProgress'
    BY <1>12 DEF LoadPairingEnds, IInv, Exclusive, EnumerateProgress
  <2> QED
    BY <2>1, <2>2, <2>3, <2>4, <2>5, <2>6 DEF IInv
<1>13. ASSUME NEW t \in Thread, ~overrun, SaveOpen(t) PROVE IInv'
  <2>1. Exclusive'
    BY <1>13 DEF SaveOpen, NoFile, NoRecords, IInv, Exclusive
  <2>2. BlankUntilRead'
    BY <1>13 DEF SaveOpen, NoFile, NoRecords, IInv, Exclusive, BlankUntilRead
  <2>3. RevokedAreWiped'
    BY <1>13 DEF SaveOpen, NoFile, NoRecords, IInv, Exclusive, RevokedAreWiped
  <2>4. FileTail'
    BY <1>13 DEF SaveOpen, NoFile, NoRecords, IInv, FileTail
  <2>5. UniqueRecords'
    BY <1>13 DEF SaveOpen, NoFile, NoRecords, IInv, UniqueRecords, Unique
  <2>6. AddProgress'
    BY <1>13 DEF SaveOpen, NoFile, NoRecords, IInv, Exclusive, AddProgress, IsAt
  <2>7. RemoveProgress'
    BY <1>13 DEF SaveOpen, NoFile, NoRecords, IInv, Exclusive, RemoveProgress, IsAt
  <2>8. EnumerateProgress'
    BY <1>13 DEF SaveOpen, NoFile, NoRecords, IInv, Exclusive, EnumerateProgress
  <2> QED
    BY <2>1, <2>2, <2>3, <2>4, <2>5, <2>6, <2>7, <2>8 DEF IInv
<1>14. ASSUME NEW t \in Thread, ~overrun, SaveOpenFails(t) PROVE IInv'
  <2>1. Exclusive'
    BY <1>14 DEF SaveOpenFails, IInv, Exclusive
  <2>2. BlankUntilRead'
    BY <1>14 DEF SaveOpenFails, IInv, Exclusive, BlankUntilRead
  <2>3. RevokedAreWiped' /\ FileTail' /\ UniqueRecords'
    BY <1>14 DEF SaveOpenFails, IInv, Exclusive, RevokedAreWiped, FileTail, UniqueRecords, Unique
  <2>4. AddProgress'
    BY <1>14 DEF SaveOpenFails, IInv, Exclusive, AddProgress, IsAt
  <2>5. RemoveProgress'
    BY <1>14 DEF SaveOpenFails, IInv, Exclusive, RemoveProgress, IsAt
  <2>6. EnumerateProgress'
    BY <1>14 DEF SaveOpenFails, IInv, Exclusive, EnumerateProgress
  <2> QED
    BY <2>1, <2>2, <2>3, <2>4, <2>5, <2>6 DEF IInv
<1>15. ASSUME NEW t \in Thread, ~overrun, SaveClose(t) PROVE IInv'
  <2>1. Exclusive'
    BY <1>15 DEF SaveClose, IInv, Exclusive
  <2>2. BlankUntilRead'
    BY <1>15 DEF SaveClose, IInv, Exclusive, BlankUntilRead
  <2>3. RevokedAreWiped'
    BY <1>15 DEF SaveClose, IInv, Exclusive, RevokedAreWiped
  <2>4. FileTail'
    <3>1. file'.count = count /\ file'.table = table
      BY <1>15 DEF SaveClose
    <3>2. \A u \in Thread : pc[u] # "increment"
      BY <1>15 DEF SaveClose, IInv, Exclusive
    <3> QED
      BY <3>1, <3>2 DEF IInv, FileTail, RevokedAreWiped
  <2>5. UniqueRecords'
    BY <1>15 DEF SaveClose, IInv, UniqueRecords, Unique
  <2>6. AddProgress'
    BY <1>15 DEF SaveClose, IInv, Exclusive, AddProgress, IsAt
  <2>7. RemoveProgress'
    BY <1>15 DEF SaveClose, IInv, Exclusive, RemoveProgress, IsAt
  <2>8. EnumerateProgress'
    BY <1>15 DEF SaveClose, IInv, Exclusive, EnumerateProgress
  <2> QED
    BY <2>1, <2>2, <2>3, <2>4, <2>5, <2>6, <2>7, <2>8 DEF IInv
<1>16. ASSUME NEW t \in Thread, ~overrun, Return(t) PROVE IInv'
  <2>1. Exclusive'
    BY <1>16 DEF Return, IInv, Exclusive
  <2>2. BlankUntilRead'
    BY <1>16 DEF Return, IInv, Exclusive, BlankUntilRead
  <2>3. RevokedAreWiped'
    BY <1>16 DEF Return, IInv, Exclusive, RevokedAreWiped
  <2>4. FileTail'
    BY <1>16 DEF Return, IInv, FileTail
  <2>5. UniqueRecords'
    BY <1>16 DEF Return, IInv, UniqueRecords, Unique
  <2>6. AddProgress'
    BY <1>16 DEF Return, IInv, Exclusive, AddProgress, IsAt
  <2>7. RemoveProgress'
    BY <1>16 DEF Return, IInv, Exclusive, RemoveProgress, IsAt
  <2>8. EnumerateProgress'
    BY <1>16 DEF Return, IInv, Exclusive, EnumerateProgress
  <2> QED
    BY <2>1, <2>2, <2>3, <2>4, <2>5, <2>6, <2>7, <2>8 DEF IInv
<1>17. ASSUME NEW t \in Thread, NEW o \in Op, NEW p \in Peer, CallFromLibrary(t, o, p)
       PROVE  IInv'
  <2>1. Exclusive'
    BY <1>17 DEF CallFromLibrary, Begin, IInv, Exclusive
  <2>2. BlankUntilRead'
    BY <1>17 DEF CallFromLibrary, Begin, IInv, Exclusive, BlankUntilRead
  <2>3. RevokedAreWiped' /\ FileTail' /\ UniqueRecords'
    BY <1>17 DEF CallFromLibrary, Begin, IInv, Exclusive, RevokedAreWiped, FileTail, UniqueRecords, Unique
  <2>4. AddProgress'
    BY <1>17 DEF CallFromLibrary, Begin, IInv, Exclusive, AddProgress, IsAt
  <2>5. RemoveProgress'
    BY <1>17 DEF CallFromLibrary, Begin, IInv, Exclusive, RemoveProgress, IsAt, EnumerateProgress
  <2>6. EnumerateProgress'
    BY <1>17 DEF CallFromLibrary, Begin, IInv, Exclusive, EnumerateProgress
  <2> QED
    BY <2>1, <2>2, <2>3, <2>4, <2>5, <2>6 DEF IInv
<1>18. ASSUME Restart PROVE IInv'
  <2>1. Exclusive' /\ BlankUntilRead' /\ RevokedAreWiped' /\ FileTail'
    BY <1>18 DEF Restart, NoRecords, IInv, Exclusive, BlankUntilRead, RevokedAreWiped, FileTail
  <2>2. UniqueRecords'
    BY <1>18 DEF Restart, NoRecords, IInv, UniqueRecords, Unique
  <2>3. AddProgress' /\ RemoveProgress' /\ EnumerateProgress'
    BY <1>18 DEF Restart, AddProgress, RemoveProgress, EnumerateProgress
  <2> QED
    BY <2>1, <2>2, <2>3 DEF IInv
<1>19. CASE UNCHANGED vars
  BY <1>19 DEF vars, IInv, Exclusive, BlankUntilRead, RevokedAreWiped, FileTail, UniqueRecords, AddProgress, RemoveProgress, EnumerateProgress, Unique, IsAt
<1>20. ~\E t \in Thread, o \in Op, p \in Peer : CallFromCommand(t, o, p)
  BY DEF CallFromCommand, Locked
<1> QED
  BY <1>1, <1>2, <1>3, <1>4, <1>5, <1>6, <1>7, <1>8, <1>9, <1>10, <1>11, <1>12, <1>13, <1>14, <1>15, <1>16, <1>17, <1>18, <1>19, <1>20
  DEF Next, Call, Step

LEMMA InvInit == Init => IInv
<1> SUFFICES ASSUME Init PROVE IInv
  OBVIOUS
<1>1. TypeOK
  BY InitTypeOK
<1>2. Exclusive /\ BlankUntilRead /\ AddProgress /\ RemoveProgress /\ EnumerateProgress
  BY <1>1 DEF Init, TypeOK, Exclusive, BlankUntilRead, AddProgress, RemoveProgress,
     EnumerateProgress
<1>3. RevokedAreWiped /\ FileTail /\ UniqueRecords
  BY SizeAssumption DEF Init, NoFile, NoRecords, Slot, RevokedAreWiped, FileTail,
     UniqueRecords, Unique
<1> QED
  BY <1>1, <1>2, <1>3 DEF IInv

(* The invariant holds whatever the file system and the process's end do.  *)
THEOREM InvariantHolds == ASSUME Locked PROVE Spec => []IInv
<1>1. IInv /\ [Next]_vars => IInv'
  BY Locked, InvStep
<1> QED
  BY InvInit, <1>1, PTL DEF Spec

(* The keys of revoked peers never stay behind the last record.            *)
THEOREM RevokedWiped == ASSUME Locked PROVE Spec => []RevokedAreWiped
<1>1. IInv => RevokedAreWiped
  BY DEF IInv
<1> QED
  BY Locked, InvariantHolds, <1>1, PTL

(* An OK from mdgstorage_add_pairing or mdgstorage_remove_pairing agrees   *)
(* with the table.                                                         *)
THEOREM AnswersAgree == ASSUME Locked PROVE Spec => []AnswerIsInTable
<1>1. IInv => AnswerIsInTable
  BY DEF IInv, AddProgress, RemoveProgress, AnswerIsInTable, IsAt, Listed
<1> QED
  BY Locked, InvariantHolds, <1>1, PTL

(* Asking for index 0, 1, 2, ... reports exactly the pairings.             *)
THEOREM EnumerationExact == ASSUME Locked PROVE Spec => []EnumerationIsExact
<1>1. IInv => EnumerationIsExact
  <2> SUFFICES ASSUME IInv, NEW t \in Thread, op[t] = "enumerate"
      PROVE  seen[t] \subseteq Listed /\ (pc[t] = "return" => seen[t] = Listed)
    BY DEF EnumerationIsExact
  <2>1. /\ seen[t] = {table[k] : k \in {j \in Slot : j < idx[t]}}
        /\ idx[t] <= count
        /\ pc[t] = "return" => idx[t] = count
    BY DEF IInv, EnumerateProgress
  <2>2. idx[t] \in Int /\ count \in Int
    BY SizeAssumption DEF IInv, TypeOK
  <2>3. seen[t] \subseteq Listed
    BY <2>1, <2>2 DEF Listed, Slot
  <2> QED
    BY <2>1, <2>3 DEF Listed
<1> QED
  BY Locked, InvariantHolds, <1>1, PTL

(* While no write is cut short, no peer has two records and no record in   *)
(* use is the all-zero one, across failing opens and ends inside a save.   *)
THEOREM RecordsUnique ==
  ASSUME Locked, "short_write" \notin Fault
  PROVE  Spec => []OneRecordPerPeer
<1>1. IInv => OneRecordPerPeer
  BY "short_write" \notin Fault DEF IInv, UniqueRecords, Unique, OneRecordPerPeer
<1> QED
  BY Locked, InvariantHolds, <1>1, PTL
=============================================================================
