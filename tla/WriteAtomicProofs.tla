-------------------------- MODULE WriteAtomicProofs --------------------------
(***************************************************************************)
(* write_atomic implements AtomicFile for any number of callers, blobs and *)
(* inodes.                                                                 *)
(***************************************************************************)
EXTENDS WriteAtomic, TLAPS

Holding == {"created", "restricted", "written", "synced"}

\* The callers between new_in and persist hold a temporary file, and only they.
TempsAreHeld ==
    \A w \in Writers : /\ pc[w] \in Holding => tmp[w] \in temps
                       /\ pc[w] \notin Holding => tmp[w] = NoInode

\* Two callers never hold the same temporary file, nor the file path names.
TempsAreExclusive ==
    \A w \in Writers : tmp[w] # NoInode =>
        /\ tmp[w] # entry
        /\ tmp[w] # entryOnDisk
        /\ \A v \in Writers : tmp[v] = tmp[w] => v = w

\* What a caller has written is there, and is on the disk once it has synced.
WrittenIsThere ==
    \A w \in Writers :
        /\ pc[w] \notin Resting => blob[w] \in Blobs
        /\ pc[w] \in {"written", "synced"} => cached[tmp[w]] = blob[w]
        /\ pc[w] = "synced" => onDisk[tmp[w]] = blob[w]

\* What path names is whole, in the cache and on the disk.
NamedIsWhole ==
    \A i \in {entry, entryOnDisk} : i # NoInode => cached[i] \in Blobs /\ onDisk[i] = cached[i]

Inv == TypeOK /\ TempsAreHeld /\ TempsAreExclusive /\ WrittenIsThere /\ NamedIsWhole

LEMMA InitInv == Init => Inv
  BY DEF Init, Inv, TypeOK, TempsAreHeld, TempsAreExclusive, WrittenIsThere, NamedIsWhole,
         Contents, Steps, Resting, Holding

LEMMA CallInv ==
    ASSUME Inv, NEW w \in Writers, NEW b \in Blobs, Call(w, b)
    PROVE  Inv'
  BY DEF Inv, TypeOK, TempsAreHeld, TempsAreExclusive, WrittenIsThere, NamedIsWhole,
         Call, Goto, fileSystem, Steps, Resting, Holding

LEMMA CreateTempInv ==
    ASSUME Inv, NEW w \in Writers, CreateTemp(w)
    PROVE  Inv'
<1>1. PICK i \in Free :
         /\ tmp' = [tmp EXCEPT ![w] = i]
         /\ temps' = temps \cup {i}
         /\ cached' = [cached EXCEPT ![i] = "Empty"]
         /\ onDisk' = [onDisk EXCEPT ![i] = "Empty"]
  BY DEF CreateTemp
<1>2. /\ i \in Inodes /\ i # NoInode /\ i \notin temps /\ i # entry /\ i # entryOnDisk
      /\ \A v \in Writers : tmp[v] # i
  BY InodeAssumption DEF Free
<1>3. /\ pc[w] = "called"
      /\ pc' = [pc EXCEPT ![w] = "created"]
      /\ UNCHANGED <<blob, entry, entryOnDisk>>
  BY DEF CreateTemp, Goto
<1>4. TypeOK'
  BY <1>1, <1>2, <1>3 DEF Inv, TypeOK, Steps, Contents
<1>5. TempsAreHeld'
  BY <1>1, <1>2, <1>3 DEF Inv, TypeOK, TempsAreHeld, Holding
<1>6. TempsAreExclusive'
  BY <1>1, <1>2, <1>3 DEF Inv, TypeOK, TempsAreExclusive
<1>7. WrittenIsThere'
  BY <1>1, <1>2, <1>3 DEF Inv, TypeOK, WrittenIsThere, TempsAreHeld, Holding, Resting
<1>8. NamedIsWhole'
  BY <1>1, <1>2, <1>3 DEF Inv, TypeOK, NamedIsWhole
<1> QED
  BY <1>4, <1>5, <1>6, <1>7, <1>8 DEF Inv

LEMMA SetPermissionsInv ==
    ASSUME Inv, NEW w \in Writers, SetPermissions(w)
    PROVE  Inv'
  BY DEF Inv, TypeOK, TempsAreHeld, TempsAreExclusive, WrittenIsThere, NamedIsWhole,
         SetPermissions, Goto, fileSystem, Steps, Resting, Holding

(***************************************************************************)
(* A caller with a temporary file holds one nobody else sees.              *)
(***************************************************************************)
LEMMA HeldTemp ==
    ASSUME Inv, NEW w \in Writers, pc[w] \in Holding
    PROVE  /\ tmp[w] \in Inodes /\ tmp[w] \in temps /\ tmp[w] # NoInode
           /\ tmp[w] # entry /\ tmp[w] # entryOnDisk
           /\ \A v \in Writers : v # w => tmp[v] # tmp[w]
  BY InodeAssumption DEF Inv, TypeOK, TempsAreHeld, TempsAreExclusive

LEMMA WriteAllInv ==
    ASSUME Inv, NEW w \in Writers, WriteAll(w)
    PROVE  Inv'
<1>1. /\ pc[w] = "restricted" /\ pc' = [pc EXCEPT ![w] = "written"]
      /\ cached' = [cached EXCEPT ![tmp[w]] = blob[w]]
      /\ UNCHANGED <<blob, tmp, temps, entry, entryOnDisk, onDisk>>
  BY DEF WriteAll, Goto
<1>2. /\ tmp[w] \in Inodes /\ tmp[w] \in temps /\ tmp[w] # NoInode
      /\ tmp[w] # entry /\ tmp[w] # entryOnDisk
      /\ \A v \in Writers : v # w => tmp[v] # tmp[w]
  BY <1>1, HeldTemp DEF Holding
<1>3. blob[w] \in Blobs
  BY <1>1 DEF Inv, WrittenIsThere, Resting
<1>4. TypeOK'
  BY <1>1, <1>2, <1>3 DEF Inv, TypeOK, Steps, Contents
<1>5. TempsAreHeld' /\ TempsAreExclusive'
  BY <1>1 DEF Inv, TypeOK, TempsAreHeld, TempsAreExclusive, Holding
<1>6. WrittenIsThere'
  BY <1>1, <1>2, <1>3 DEF Inv, TypeOK, WrittenIsThere, Resting
<1>7. NamedIsWhole'
  BY <1>1, <1>2 DEF Inv, TypeOK, NamedIsWhole
<1> QED
  BY <1>4, <1>5, <1>6, <1>7 DEF Inv

LEMMA SyncAllInv ==
    ASSUME Inv, NEW w \in Writers, SyncAll(w)
    PROVE  Inv'
<1>1. /\ pc[w] = "written" /\ pc' = [pc EXCEPT ![w] = "synced"]
      /\ onDisk' = [onDisk EXCEPT ![tmp[w]] = cached[tmp[w]]]
      /\ UNCHANGED <<blob, tmp, temps, entry, entryOnDisk, cached>>
  BY DEF SyncAll, Goto
<1>2. /\ tmp[w] \in Inodes /\ tmp[w] # entry /\ tmp[w] # entryOnDisk
      /\ \A v \in Writers : v # w => tmp[v] # tmp[w]
  BY <1>1, HeldTemp DEF Holding
<1>3. TypeOK'
  BY <1>1, <1>2 DEF Inv, TypeOK, Steps
<1>4. TempsAreHeld' /\ TempsAreExclusive'
  BY <1>1 DEF Inv, TypeOK, TempsAreHeld, TempsAreExclusive, Holding
<1>5. WrittenIsThere'
  BY <1>1, <1>2 DEF Inv, TypeOK, WrittenIsThere, Resting
<1>6. NamedIsWhole'
  BY <1>1, <1>2 DEF Inv, TypeOK, NamedIsWhole
<1> QED
  BY <1>3, <1>4, <1>5, <1>6 DEF Inv

LEMMA PersistInv ==
    ASSUME Inv, NEW w \in Writers, Persist(w)
    PROVE  Inv'
<1>1. /\ pc[w] = "synced" /\ pc' = [pc EXCEPT ![w] = "ok"]
      /\ entry' = tmp[w]
      /\ temps' = temps \ {tmp[w]}
      /\ tmp' = [tmp EXCEPT ![w] = NoInode]
      /\ UNCHANGED <<blob, entryOnDisk, cached, onDisk>>
  BY DEF Persist, Goto
<1>2. /\ tmp[w] \in Inodes /\ tmp[w] # NoInode
      /\ \A v \in Writers : v # w => tmp[v] # tmp[w]
  BY <1>1, HeldTemp DEF Holding
<1>3. cached[tmp[w]] \in Blobs /\ onDisk[tmp[w]] = cached[tmp[w]]
  BY <1>1 DEF Inv, WrittenIsThere, Resting
<1>4. TypeOK'
  BY <1>1, <1>2 DEF Inv, TypeOK, Steps, Resting
<1>5. TempsAreHeld'
  BY <1>1, <1>2 DEF Inv, TypeOK, TempsAreHeld, Holding
<1>6. TempsAreExclusive'
  BY <1>1, <1>2 DEF Inv, TypeOK, TempsAreExclusive
<1>7. WrittenIsThere'
  BY <1>1 DEF Inv, TypeOK, WrittenIsThere, Resting
<1>8. NamedIsWhole'
  BY <1>1, <1>3 DEF Inv, NamedIsWhole
<1> QED
  BY <1>4, <1>5, <1>6, <1>7, <1>8 DEF Inv

LEMMA FailInv ==
    ASSUME Inv, NEW w \in Writers, Fail(w)
    PROVE  Inv'
<1>1. /\ pc' = [pc EXCEPT ![w] = "failed"]
      /\ temps' = temps \ {tmp[w]}
      /\ tmp' = [tmp EXCEPT ![w] = NoInode]
      /\ UNCHANGED <<blob, entry, entryOnDisk, cached, onDisk>>
  BY DEF Fail, Goto, fileSystem
<1>2. TypeOK'
  BY <1>1 DEF Inv, TypeOK, Steps, Resting
<1>3. TempsAreHeld'
  <2> SUFFICES ASSUME NEW v \in Writers
               PROVE  /\ pc'[v] \in Holding => tmp'[v] \in temps'
                      /\ pc'[v] \notin Holding => tmp'[v] = NoInode
    BY DEF TempsAreHeld
  <2>1. CASE v = w
    BY <1>1, <2>1 DEF Inv, TypeOK, Holding
  <2>2. CASE v # w
    <3>1. tmp[w] # NoInode => tmp[v] # tmp[w]
      BY <2>2 DEF Inv, TempsAreExclusive
    <3>2. pc[v] \in Holding => tmp[v] # tmp[w]
      BY <2>2, <3>1, HeldTemp
    <3> QED
      BY <1>1, <2>2, <3>2 DEF Inv, TypeOK, TempsAreHeld
  <2> QED
    BY <2>1, <2>2
<1>4. TempsAreExclusive'
  BY <1>1 DEF Inv, TypeOK, TempsAreExclusive
<1>5. WrittenIsThere'
  BY <1>1 DEF Inv, TypeOK, WrittenIsThere, Resting
<1>6. NamedIsWhole'
  BY <1>1 DEF Inv, NamedIsWhole
<1> QED
  BY <1>2, <1>3, <1>4, <1>5, <1>6 DEF Inv

LEMMA WritebackInv ==
    ASSUME Inv, NEW i \in Inodes, Writeback(i)
    PROVE  Inv'
<1>1. PICK content \in {cached[i], "Partial"} : onDisk' = [onDisk EXCEPT ![i] = content]
  BY DEF Writeback
<1>2. /\ onDisk[i] # cached[i]
      /\ UNCHANGED <<pc, blob, tmp, temps, entry, entryOnDisk, cached>>
  BY DEF Writeback
<1>3. TypeOK'
  BY <1>1, <1>2 DEF Inv, TypeOK, Contents
<1>4. TempsAreHeld' /\ TempsAreExclusive'
  BY <1>2 DEF Inv, TempsAreHeld, TempsAreExclusive
<1>5. WrittenIsThere'
  BY <1>1, <1>2 DEF Inv, TypeOK, WrittenIsThere
<1>6. NamedIsWhole'
  BY <1>1, <1>2 DEF Inv, TypeOK, NamedIsWhole
<1> QED
  BY <1>3, <1>4, <1>5, <1>6 DEF Inv

LEMMA FlushDirectoryInv == Inv /\ FlushDirectory => Inv'
  BY DEF Inv, TypeOK, TempsAreHeld, TempsAreExclusive, WrittenIsThere, NamedIsWhole, FlushDirectory

LEMMA PowerLossInv == Inv /\ PowerLoss => Inv'
  BY DEF Inv, TypeOK, TempsAreHeld, TempsAreExclusive, WrittenIsThere, NamedIsWhole, PowerLoss,
         Steps, Resting, Holding

LEMMA StutterInv == Inv /\ UNCHANGED vars => Inv'
  BY DEF Inv, TypeOK, TempsAreHeld, TempsAreExclusive, WrittenIsThere, NamedIsWhole, vars

LEMMA NextInv == Inv /\ [Next]_vars => Inv'
  BY CallInv, CreateTempInv, SetPermissionsInv, WriteAllInv, SyncAllInv, PersistInv, FailInv,
     WritebackInv, FlushDirectoryInv, PowerLossInv, StutterInv DEF Next

\* The state always has its type, however callers, the disk and power losses interleave.
THEOREM TypeCorrect == Spec => []TypeOK
<1>1. Inv => TypeOK
  BY DEF Inv
<1> QED
  BY <1>1, InitInv, NextInv, PTL DEF Spec

\* "a crash mid-write can never leave a half-written file" (wallet-storage/src/lib.rs:208-210)
THEOREM NeverTorn == Spec => []NeverHalfWritten
<1>1. Inv => NeverHalfWritten
  BY DEF Inv, NamedIsWhole, NeverHalfWritten, InCache, OnDisk
<1> QED
  BY <1>1, InitInv, NextInv, PTL DEF Spec

\* A caller that lets go of its temporary file, or takes one, leaves no other behind.
LEMMA LetsGo ==
    ASSUME TypeOK, NEW w \in Writers, NEW i \in Inodes \cup {NoInode},
           tmp' = [tmp EXCEPT ![w] = i],
           temps' \subseteq (temps \ {tmp[w]}) \cup {i}
    PROVE  Orphans' \subseteq Orphans
<1> SUFFICES ASSUME NEW t \in Orphans'  PROVE t \in Orphans
  OBVIOUS
<1>1. tmp'[w] = i /\ \A v \in Writers : v # w => tmp'[v] = tmp[v]
  BY DEF TypeOK
<1>2. t \in temps' /\ \A v \in Writers : t # tmp'[v]
  BY DEF Orphans
<1>3. t # i
  BY <1>1, <1>2
<1>4. t \in temps /\ t # tmp[w]
  BY <1>2, <1>3
<1>5. \A v \in Writers : t # tmp[v]
  BY <1>1, <1>2, <1>4
<1> QED
  BY <1>4, <1>5 DEF Orphans

\* Only a crash leaves a temporary file behind: every error path of write_atomic takes its
\* own along (wallet-storage/src/lib.rs:217-227).
THEOREM ErrorsLeaveNothing == Spec => OnlyCrashesLeak
<1>1. Inv /\ [Next]_vars => PowerLoss \/ Orphans' \subseteq Orphans
  <2> SUFFICES ASSUME Inv, [Next]_vars  PROVE PowerLoss \/ Orphans' \subseteq Orphans
    OBVIOUS
  <2>1. TypeOK /\ NoInode \in Inodes \cup {NoInode}
    BY DEF Inv
  <2>2. ASSUME NEW w \in Writers, CreateTemp(w)  PROVE Orphans' \subseteq Orphans
    <3>1. PICK i \in Free : tmp' = [tmp EXCEPT ![w] = i] /\ temps' = temps \cup {i}
      BY <2>2 DEF CreateTemp
    <3>2. i \in Inodes /\ tmp[w] \notin temps
      BY <2>2, InodeAssumption DEF Free, CreateTemp, Inv, TypeOK, TempsAreHeld, Holding
    <3> QED
      BY <2>1, <3>1, <3>2, LetsGo
  <2>3. ASSUME NEW w \in Writers, Persist(w) \/ Fail(w)  PROVE Orphans' \subseteq Orphans
    <3>1. tmp' = [tmp EXCEPT ![w] = NoInode] /\ temps' = temps \ {tmp[w]}
      BY <2>3 DEF Persist, Fail
    <3> QED
      BY <2>1, <3>1, LetsGo
  <2>4. ASSUME NEW w \in Writers,
               SetPermissions(w) \/ WriteAll(w) \/ SyncAll(w) \/ \E b \in Blobs : Call(w, b)
        PROVE  UNCHANGED <<tmp, temps>>
    BY <2>4 DEF SetPermissions, WriteAll, SyncAll, Call, fileSystem
  <2>5. ASSUME FlushDirectory \/ (\E i \in Inodes : Writeback(i)) \/ UNCHANGED vars
        PROVE  UNCHANGED <<tmp, temps>>
    BY <2>5 DEF FlushDirectory, Writeback, vars
  <2>6. UNCHANGED <<tmp, temps>> => Orphans' = Orphans
    BY DEF Orphans
  <2> QED
    BY <2>2, <2>3, <2>4, <2>5, <2>6 DEF Next
<1> QED
  BY <1>1, InitInv, NextInv, PTL DEF Spec, OnlyCrashesLeak

-----------------------------------------------------------------------------
(***************************************************************************)
(* The refinement: which step of AtomicFile each step is.                  *)
(***************************************************************************)
Status == [w \in Writers |-> IF pc[w] \in Resting THEN pc[w] ELSE "writing"]

LEMMA InitRefines == Init => Atomic!Init
  BY DEF Init, Atomic!Init, InCache, OnDisk, Resting

\* Steps inside a call change neither what the file is nor how the calls stand.
LEMMA InnerStep ==
    ASSUME TypeOK, NEW w \in Writers, NEW step \in Steps \ Resting,
           pc[w] \notin Resting, Goto(w, step), UNCHANGED <<blob, InCache, OnDisk>>
    PROVE  UNCHANGED Atomic!vars
<1>1. Status' = Status
  BY DEF TypeOK, Goto, Status
<1> QED
  BY <1>1 DEF Atomic!vars, Status

LEMMA CallRefines ==
    ASSUME TypeOK, NEW w \in Writers, NEW b \in Blobs, Call(w, b)
    PROVE  Atomic!Begin(w, b)
<1>1. Status' = [Status EXCEPT ![w] = "writing"]
  BY DEF TypeOK, Call, Goto, Status, Resting
<1>2. Status[w] # "writing"
  BY DEF Call, Status, Resting
<1>3. UNCHANGED <<InCache, OnDisk>>
  BY DEF Call, fileSystem, InCache, OnDisk
<1> QED
  BY <1>1, <1>2, <1>3 DEF Call, Atomic!Begin, Status

LEMMA PersistRefines ==
    ASSUME Inv, NEW w \in Writers, Persist(w)
    PROVE  Atomic!Commit(w)
<1>1. Status' = [Status EXCEPT ![w] = "ok"] /\ Status[w] = "writing"
  BY DEF Inv, TypeOK, Persist, Goto, Status, Resting
<1>2. tmp[w] # NoInode
  BY HeldTemp DEF Persist, Holding
<1>3. InCache' = blob[w]
  BY <1>2 DEF Persist, InCache, Inv, WrittenIsThere
<1>4. UNCHANGED <<OnDisk, blob>>
  BY DEF Persist, OnDisk
<1> QED
  BY <1>1, <1>3, <1>4 DEF Atomic!Commit, Status

LEMMA FailRefines ==
    ASSUME TypeOK, NEW w \in Writers, Fail(w)
    PROVE  Atomic!Abandon(w)
<1>1. Status' = [Status EXCEPT ![w] = "failed"] /\ Status[w] = "writing"
  BY DEF TypeOK, Fail, Goto, Status, Resting
<1>2. UNCHANGED <<InCache, OnDisk, blob>>
  BY DEF Fail, fileSystem, InCache, OnDisk
<1> QED
  BY <1>1, <1>2 DEF Atomic!Abandon, Status

LEMMA FlushDirectoryRefines == Inv /\ FlushDirectory => Atomic!MakeDurable
  BY DEF Inv, NamedIsWhole, FlushDirectory, Atomic!MakeDurable, InCache, OnDisk

LEMMA PowerLossRefines == Inv /\ PowerLoss => Atomic!Crash
<1> SUFFICES ASSUME Inv, PowerLoss  PROVE Atomic!Crash
  OBVIOUS
<1>1. Status' = [w \in Writers |-> "idle"]
  BY DEF PowerLoss, Status, Resting
<1>2. InCache' = OnDisk /\ UNCHANGED <<OnDisk, blob>>
  BY DEF PowerLoss, InCache, OnDisk
<1> QED
  BY <1>1, <1>2 DEF Atomic!Crash, Status

LEMMA StepRefines == Inv /\ [Next]_vars => [Atomic!Next]_(Atomic!vars)
<1> SUFFICES ASSUME Inv, [Next]_vars  PROVE Atomic!Next \/ UNCHANGED Atomic!vars
  OBVIOUS
<1>1. TypeOK
  BY DEF Inv
<1>2. ASSUME NEW w \in Writers, NEW b \in Blobs, Call(w, b)  PROVE Atomic!Next
  BY <1>1, <1>2, CallRefines DEF Atomic!Next
<1>3. ASSUME NEW w \in Writers, CreateTemp(w)  PROVE UNCHANGED Atomic!vars
  <2>1. UNCHANGED <<InCache, OnDisk>>
    BY <1>3 DEF CreateTemp, Free, InCache, OnDisk, Inv, TypeOK
  <2> QED
    BY <1>1, <1>3, <2>1, InnerStep DEF CreateTemp, Steps, Resting
<1>4. ASSUME NEW w \in Writers, SetPermissions(w)  PROVE UNCHANGED Atomic!vars
  <2>1. UNCHANGED <<InCache, OnDisk>>
    BY <1>4 DEF SetPermissions, fileSystem, InCache, OnDisk
  <2> QED
    BY <1>1, <1>4, <2>1, InnerStep DEF SetPermissions, Steps, Resting
<1>5. ASSUME NEW w \in Writers, WriteAll(w)  PROVE UNCHANGED Atomic!vars
  <2>1. UNCHANGED <<InCache, OnDisk>>
    <3>1. tmp[w] # entry
      BY <1>5, HeldTemp DEF WriteAll, Holding
    <3> QED
      BY <1>5, <3>1 DEF WriteAll, InCache, OnDisk, Inv, TypeOK
  <2> QED
    BY <1>1, <1>5, <2>1, InnerStep DEF WriteAll, Steps, Resting
<1>6. ASSUME NEW w \in Writers, SyncAll(w)  PROVE UNCHANGED Atomic!vars
  <2>1. UNCHANGED <<InCache, OnDisk>>
    <3>1. tmp[w] # entryOnDisk
      BY <1>6, HeldTemp DEF SyncAll, Holding
    <3> QED
      BY <1>6, <3>1 DEF SyncAll, InCache, OnDisk, Inv, TypeOK
  <2> QED
    BY <1>1, <1>6, <2>1, InnerStep DEF SyncAll, Steps, Resting
<1>7. ASSUME NEW w \in Writers, Persist(w)  PROVE Atomic!Next
  BY <1>7, PersistRefines DEF Atomic!Next
<1>8. ASSUME NEW w \in Writers, Fail(w)  PROVE Atomic!Next
  BY <1>1, <1>8, FailRefines DEF Atomic!Next
<1>9. ASSUME NEW i \in Inodes, Writeback(i)  PROVE UNCHANGED Atomic!vars
  <2>1. i # entryOnDisk
    BY <1>9, InodeAssumption DEF Writeback, Inv, NamedIsWhole
  <2>2. UNCHANGED <<pc, blob, InCache, OnDisk>>
    BY <1>9, <2>1 DEF Writeback, InCache, OnDisk, Inv, TypeOK
  <2> QED
    BY <2>2 DEF Atomic!vars
<1>10. CASE FlushDirectory
  BY <1>10, FlushDirectoryRefines DEF Atomic!Next
<1>11. CASE PowerLoss
  BY <1>11, PowerLossRefines DEF Atomic!Next
<1>12. CASE UNCHANGED vars
  BY <1>12 DEF vars, Atomic!vars, InCache, OnDisk
<1> QED
  BY <1>2, <1>3, <1>4, <1>5, <1>6, <1>7, <1>8, <1>9, <1>10, <1>11, <1>12 DEF Next

\* write_atomic, whatever its callers, its failures and the crashes, is a file whose
\* saves are atomic (wallet-storage/src/lib.rs:208-229).
THEOREM WriteAtomicIsAtomic == Spec => ImplementsAtomicFile
<1>1. Init => Inv
  BY InitInv
<1> QED
  BY <1>1, InitRefines, NextInv, StepRefines, PTL DEF Spec, ImplementsAtomicFile, Atomic!Spec
=============================================================================
