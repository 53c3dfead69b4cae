-------------------------- MODULE LedgerFileProofs --------------------------
(***************************************************************************)
(* Proofs about LedgerFile, for any number of writers, readers and files:  *)
(* the name never shows a partial write, no update under the lock is lost, *)
(* and the file implements the store that SpendLedger takes it for.        *)
(***************************************************************************)
EXTENDS LedgerFile, TLAPS

USE WriterAssumption, FileAssumption

\* The labels at which a writer has a temporary file of its own.
Staging == {"write", "sync", "replace"}

\* One lock, one holder: who is inside has it.
Locked == ReadModifyWrite => \A w \in Writers : pc[w] # "idle" => lock = w

\* Whatever is or was published is complete and on the disk.
Published ==
    \A f \in Inodes :
        (f = path \/ f = diskPath \/ \E r \in Readers : open[r] = f)
            => files[f].whole /\ files[f].synced

\* A temporary file is nobody else's, and not published.
Fresh ==
    \A w \in Writers :
        pc[w] \in Staging =>
            /\ temp[w] # 0 /\ temp[w] # path /\ temp[w] # diskPath
            /\ \A r \in Readers : open[r] # temp[w]
            /\ \A v \in Writers : v # w /\ pc[v] \in Staging => temp[v] # temp[w]

\* What it holds once it is written, and once it is synced.
Staged ==
    \A w \in Writers :
        /\ pc[w] \in {"sync", "replace"} =>
              files[temp[w]].whole /\ files[temp[w]].log = data[w]
        /\ pc[w] = "replace" => files[temp[w]].synced

\* The content about to be saved is the update of the current one.
Computed ==
    \A w \in Writers : pc[w] \in SavingAt => data[w] = Updated(LogOf(path), w)

\* A writer that is not saving has no temporary name in the directory.
Tidy ==
    \A w \in Writers :
        pc[w] \in {"idle", "load", "create", "unlock"} => temp[w] \notin temps

Inv == TypeOK /\ Locked /\ Published /\ Fresh /\ Staged /\ Computed /\ Tidy
       /\ TempsRemoved

-----------------------------------------------------------------------------
\* Types.
LEMMA TypePreserved == TypeOK /\ [Next]_vars => TypeOK'
<1> SUFFICES ASSUME TypeOK, [Next]_vars PROVE TypeOK'
  OBVIOUS
<1> USE DEF TypeOK, Goto, dirVars, Inodes, File, Pcs, SavingAt, LogOf, Updated
<1>1. ASSUME NEW w \in Writers, Acquire(w) PROVE TypeOK'
  BY <1>1 DEF Acquire
<1>2. ASSUME NEW w \in Writers, Load(w) PROVE TypeOK'
  BY <1>2 DEF Load
<1>3. ASSUME NEW w \in Writers, Refuse(w) PROVE TypeOK'
  BY <1>3 DEF Refuse
<1>4. ASSUME NEW w \in Writers, Create(w) PROVE TypeOK'
  BY <1>4 DEF Create
<1>5. ASSUME NEW w \in Writers, Write(w) PROVE TypeOK'
  BY <1>5 DEF Write
<1>6. ASSUME NEW w \in Writers, Sync(w) PROVE TypeOK'
  BY <1>6 DEF Sync
<1>7. ASSUME NEW w \in Writers, Replace(w) PROVE TypeOK'
  BY <1>7 DEF Replace
<1>8. ASSUME NEW w \in Writers, IOError(w) PROVE TypeOK'
  BY <1>8 DEF IOError
<1>9. ASSUME NEW w \in Writers, Unlink(w) PROVE TypeOK'
  BY <1>9 DEF Unlink
<1>10. ASSUME NEW w \in Writers, Unlock(w) PROVE TypeOK'
  BY <1>10 DEF Unlock
<1>11. ASSUME NEW w \in Writers, Crash(w) PROVE TypeOK'
  <2>1. orphans' \subseteq 1 .. made
    BY <1>11 DEF Crash
  <2>2. /\ lock' \in Writers \cup {NoWriter}
        /\ pc' \in [Writers -> Pcs] /\ temp' \in [Writers -> 0 .. made]
    BY <1>11 DEF Crash
  <2>3. QED
    BY <1>11, <2>1, <2>2 DEF Crash
<1>12. ASSUME NEW r \in Readers, Open(r) PROVE TypeOK'
  BY <1>12 DEF Open
<1>13. ASSUME NEW r \in Readers, Close(r) PROVE TypeOK'
  BY <1>13 DEF Close
<1>14. CASE FlushDirectory
  BY <1>14 DEF FlushDirectory
<1>15. CASE PowerLoss
  <2>1. files' \in [Inodes -> File]
    <3>1. NewFile \in File
      BY DEF NewFile
    <3>2. QED
      BY <1>15, <3>1 DEF PowerLoss
  <2>2. /\ path' \in 0 .. made /\ orphans' \subseteq 1 .. made
        /\ pc' \in [Writers -> Pcs] /\ temp' \in [Writers -> 0 .. made]
        /\ open' \in [Readers -> 0 .. made] /\ lock' = NoWriter
    BY <1>15 DEF PowerLoss
  <2>3. /\ made' = made /\ diskPath' = diskPath /\ temps' = temps /\ data' = data
    BY <1>15 DEF PowerLoss
  <2>4. lock' \in Writers \cup {NoWriter} /\ data' \in [Writers -> Seq(Writers)]
    BY <2>2, <2>3
  <2> HIDE DEF File
  <2>5. QED
    BY <2>1, <2>2, <2>3, <2>4
<1>16. CASE UNCHANGED vars
  BY <1>16 DEF vars
<1>17. QED
  BY <1>1, <1>2, <1>3, <1>4, <1>5, <1>6, <1>7, <1>8, <1>9, <1>10, <1>11,
     <1>12, <1>13, <1>14, <1>15, <1>16 DEF Next, WriterStep

\* Nobody else gets in, and a crash gives the lock back.
LEMMA LockedPreserved == TypeOK /\ Locked /\ [Next]_vars => Locked'
<1> SUFFICES ASSUME TypeOK, Locked, [Next]_vars PROVE Locked'
  OBVIOUS
<1> USE DEF TypeOK, Locked, Goto, SavingAt
<1>1. ASSUME NEW w \in Writers, Acquire(w) PROVE Locked'
  BY <1>1 DEF Acquire
<1>2. ASSUME NEW w \in Writers, Load(w) PROVE Locked'
  BY <1>2 DEF Load
<1>3. ASSUME NEW w \in Writers, Refuse(w) PROVE Locked'
  BY <1>3 DEF Refuse
<1>4. ASSUME NEW w \in Writers, Create(w) PROVE Locked'
  BY <1>4 DEF Create
<1>5. ASSUME NEW w \in Writers, Write(w) PROVE Locked'
  BY <1>5 DEF Write
<1>6. ASSUME NEW w \in Writers, Sync(w) PROVE Locked'
  BY <1>6 DEF Sync
<1>7. ASSUME NEW w \in Writers, Replace(w) PROVE Locked'
  BY <1>7 DEF Replace
<1>8. ASSUME NEW w \in Writers, IOError(w) PROVE Locked'
  BY <1>8 DEF IOError
<1>9. ASSUME NEW w \in Writers, Unlink(w) PROVE Locked'
  BY <1>9 DEF Unlink
<1>10. ASSUME NEW w \in Writers, Unlock(w) PROVE Locked'
  BY <1>10 DEF Unlock
<1>11. ASSUME NEW w \in Writers, Crash(w) PROVE Locked'
  BY <1>11 DEF Crash
<1>12. ASSUME NEW r \in Readers, Open(r) PROVE Locked'
  BY <1>12 DEF Open
<1>13. ASSUME NEW r \in Readers, Close(r) PROVE Locked'
  BY <1>13 DEF Close
<1>14. CASE FlushDirectory
  BY <1>14 DEF FlushDirectory
<1>15. CASE PowerLoss
  BY <1>15 DEF PowerLoss
<1>16. CASE UNCHANGED vars
  BY <1>16 DEF vars
<1>17. QED
  BY <1>1, <1>2, <1>3, <1>4, <1>5, <1>6, <1>7, <1>8, <1>9, <1>10, <1>11,
     <1>12, <1>13, <1>14, <1>15, <1>16 DEF Next, WriterStep

\* mkstemp picks an inode nobody knows; a rename leaves the staging area.
LEMMA FreshPreserved == TypeOK /\ Fresh /\ [Next]_vars => Fresh'
<1> SUFFICES ASSUME TypeOK, Fresh, [Next]_vars PROVE Fresh'
  OBVIOUS
<1> USE DEF TypeOK, Fresh, Goto, dirVars, SavingAt, Staging
<1>1. ASSUME NEW w \in Writers, Acquire(w) PROVE Fresh'
  BY <1>1 DEF Acquire
<1>2. ASSUME NEW w \in Writers, Load(w) PROVE Fresh'
  BY <1>2 DEF Load
<1>3. ASSUME NEW w \in Writers, Refuse(w) PROVE Fresh'
  BY <1>3 DEF Refuse
<1>4. ASSUME NEW w \in Writers, Create(w) PROVE Fresh'
  BY <1>4 DEF Create
<1>5. ASSUME NEW w \in Writers, Write(w) PROVE Fresh'
  BY <1>5 DEF Write
<1>6. ASSUME NEW w \in Writers, Sync(w) PROVE Fresh'
  BY <1>6 DEF Sync
<1>7. ASSUME NEW w \in Writers, Replace(w) PROVE Fresh'
  BY <1>7 DEF Replace
<1>8. ASSUME NEW w \in Writers, IOError(w) PROVE Fresh'
  BY <1>8 DEF IOError
<1>9. ASSUME NEW w \in Writers, Unlink(w) PROVE Fresh'
  BY <1>9 DEF Unlink
<1>10. ASSUME NEW w \in Writers, Unlock(w) PROVE Fresh'
  BY <1>10 DEF Unlock
<1>11. ASSUME NEW w \in Writers, Crash(w) PROVE Fresh'
  BY <1>11 DEF Crash
<1>12. ASSUME NEW r \in Readers, Open(r) PROVE Fresh'
  BY <1>12 DEF Open
<1>13. ASSUME NEW r \in Readers, Close(r) PROVE Fresh'
  BY <1>13 DEF Close
<1>14. CASE FlushDirectory
  BY <1>14 DEF FlushDirectory
<1>15. CASE PowerLoss
  BY <1>15 DEF PowerLoss
<1>16. CASE UNCHANGED vars
  BY <1>16 DEF vars
<1>17. QED
  BY <1>1, <1>2, <1>3, <1>4, <1>5, <1>6, <1>7, <1>8, <1>9, <1>10, <1>11,
     <1>12, <1>13, <1>14, <1>15, <1>16 DEF Next, WriterStep

\* Nobody writes to the temporary file of another.
LEMMA StagedPreserved == TypeOK /\ Fresh /\ Staged /\ [Next]_vars => Staged'
<1> SUFFICES ASSUME TypeOK, Fresh, Staged, [Next]_vars PROVE Staged'
  OBVIOUS
<1> USE DEF TypeOK, Fresh, Staged, Goto, dirVars, SavingAt, Staging, Inodes, File
<1>1. ASSUME NEW w \in Writers, Acquire(w) PROVE Staged'
  BY <1>1 DEF Acquire
<1>2. ASSUME NEW w \in Writers, Load(w) PROVE Staged'
  BY <1>2 DEF Load
<1>3. ASSUME NEW w \in Writers, Refuse(w) PROVE Staged'
  BY <1>3 DEF Refuse
<1>4. ASSUME NEW w \in Writers, Create(w) PROVE Staged'
  BY <1>4 DEF Create
<1>5. ASSUME NEW w \in Writers, Write(w) PROVE Staged'
  BY <1>5 DEF Write
<1>6. ASSUME NEW w \in Writers, Sync(w) PROVE Staged'
  BY <1>6 DEF Sync
<1>7. ASSUME NEW w \in Writers, Replace(w) PROVE Staged'
  BY <1>7 DEF Replace
<1>8. ASSUME NEW w \in Writers, IOError(w) PROVE Staged'
  BY <1>8 DEF IOError
<1>9. ASSUME NEW w \in Writers, Unlink(w) PROVE Staged'
  BY <1>9 DEF Unlink
<1>10. ASSUME NEW w \in Writers, Unlock(w) PROVE Staged'
  BY <1>10 DEF Unlock
<1>11. ASSUME NEW w \in Writers, Crash(w) PROVE Staged'
  BY <1>11 DEF Crash
<1>12. ASSUME NEW r \in Readers, Open(r) PROVE Staged'
  BY <1>12 DEF Open
<1>13. ASSUME NEW r \in Readers, Close(r) PROVE Staged'
  BY <1>13 DEF Close
<1>14. CASE FlushDirectory
  BY <1>14 DEF FlushDirectory
<1>15. CASE PowerLoss
  BY <1>15 DEF PowerLoss
<1>16. CASE UNCHANGED vars
  BY <1>16 DEF vars
<1>17. QED
  BY <1>1, <1>2, <1>3, <1>4, <1>5, <1>6, <1>7, <1>8, <1>9, <1>10, <1>11,
     <1>12, <1>13, <1>14, <1>15, <1>16 DEF Next, WriterStep

\* Only a complete and synced file is renamed, and no one writes it afterwards.
LEMMA PublishedPreserved ==
    TypeOK /\ Fresh /\ Staged /\ Published /\ [Next]_vars => Published'
<1> SUFFICES ASSUME TypeOK, Fresh, Staged, Published, [Next]_vars PROVE Published'
  OBVIOUS
<1> USE DEF TypeOK, Fresh, Staged, Published, Goto, dirVars, SavingAt, Staging,
            Inodes, File
<1>1. ASSUME NEW w \in Writers, Acquire(w) PROVE Published'
  BY <1>1 DEF Acquire
<1>2. ASSUME NEW w \in Writers, Load(w) PROVE Published'
  BY <1>2 DEF Load
<1>3. ASSUME NEW w \in Writers, Refuse(w) PROVE Published'
  BY <1>3 DEF Refuse
<1>4. ASSUME NEW w \in Writers, Create(w) PROVE Published'
  BY <1>4 DEF Create
<1>5. ASSUME NEW w \in Writers, Write(w) PROVE Published'
  BY <1>5 DEF Write
<1>6. ASSUME NEW w \in Writers, Sync(w) PROVE Published'
  BY <1>6 DEF Sync
<1>7. ASSUME NEW w \in Writers, Replace(w) PROVE Published'
  BY <1>7 DEF Replace
<1>8. ASSUME NEW w \in Writers, IOError(w) PROVE Published'
  BY <1>8 DEF IOError
<1>9. ASSUME NEW w \in Writers, Unlink(w) PROVE Published'
  BY <1>9 DEF Unlink
<1>10. ASSUME NEW w \in Writers, Unlock(w) PROVE Published'
  BY <1>10 DEF Unlock
<1>11. ASSUME NEW w \in Writers, Crash(w) PROVE Published'
  BY <1>11 DEF Crash
<1>12. ASSUME NEW r \in Readers, Open(r) PROVE Published'
  BY <1>12 DEF Open
<1>13. ASSUME NEW r \in Readers, Close(r) PROVE Published'
  BY <1>13 DEF Close
<1>14. CASE FlushDirectory
  BY <1>14 DEF FlushDirectory
<1>15. CASE PowerLoss
  <2>1. \A f \in Inodes : files[f].synced => files'[f] = files[f]
    BY <1>15 DEF PowerLoss
  <2>2. path' = diskPath /\ diskPath' = diskPath /\ open' = [r \in Readers |-> 0]
    BY <1>15 DEF PowerLoss
  <2>3. \A f \in Inodes : f # 0
    OBVIOUS
  <2>4. QED
    BY <2>1, <2>2, <2>3
<1>16. CASE UNCHANGED vars
  BY <1>16 DEF vars
<1>17. QED
  BY <1>1, <1>2, <1>3, <1>4, <1>5, <1>6, <1>7, <1>8, <1>9, <1>10, <1>11,
     <1>12, <1>13, <1>14, <1>15, <1>16 DEF Next, WriterStep

\* Under the lock the name does not move between load and rename.
LEMMA ComputedPreserved ==
    TypeOK /\ Locked /\ Fresh /\ Published /\ Computed /\ [Next]_vars => Computed'
<1> SUFFICES ASSUME TypeOK, Locked, Fresh, Published, Computed, [Next]_vars
             PROVE  Computed'
  OBVIOUS
<1> USE DEF TypeOK, Locked, Fresh, Published, Computed, Goto, dirVars, SavingAt,
            Staging, Inodes, File, LogOf, Updated
<1>1. ASSUME NEW w \in Writers, Acquire(w) PROVE Computed'
  BY <1>1 DEF Acquire
<1>2. ASSUME NEW w \in Writers, Load(w) PROVE Computed'
  BY <1>2 DEF Load
<1>3. ASSUME NEW w \in Writers, Refuse(w) PROVE Computed'
  BY <1>3 DEF Refuse
<1>4. ASSUME NEW w \in Writers, Create(w) PROVE Computed'
  BY <1>4 DEF Create
<1>5. ASSUME NEW w \in Writers, Write(w) PROVE Computed'
  <2>1. temp[w] # path
    BY <1>5 DEF Write
  <2>2. LogOf(path)' = LogOf(path)
    BY <1>5, <2>1 DEF Write
  <2>3. QED
    BY <1>5, <2>2 DEF Write
<1>6. ASSUME NEW w \in Writers, Sync(w) PROVE Computed'
  <2>1. temp[w] # path
    BY <1>6 DEF Sync
  <2>2. LogOf(path)' = LogOf(path)
    BY <1>6, <2>1 DEF Sync
  <2>3. QED
    BY <1>6, <2>2 DEF Sync
<1>7. ASSUME NEW w \in Writers, Replace(w) PROVE Computed'
  BY <1>7 DEF Replace
<1>8. ASSUME NEW w \in Writers, IOError(w) PROVE Computed'
  BY <1>8 DEF IOError
<1>9. ASSUME NEW w \in Writers, Unlink(w) PROVE Computed'
  BY <1>9 DEF Unlink
<1>10. ASSUME NEW w \in Writers, Unlock(w) PROVE Computed'
  BY <1>10 DEF Unlock
<1>11. ASSUME NEW w \in Writers, Crash(w) PROVE Computed'
  BY <1>11 DEF Crash
<1>12. ASSUME NEW r \in Readers, Open(r) PROVE Computed'
  BY <1>12 DEF Open
<1>13. ASSUME NEW r \in Readers, Close(r) PROVE Computed'
  BY <1>13 DEF Close
<1>14. CASE FlushDirectory
  BY <1>14 DEF FlushDirectory
<1>15. CASE PowerLoss
  BY <1>15 DEF PowerLoss
<1>16. CASE UNCHANGED vars
  BY <1>16 DEF vars
<1>17. QED
  BY <1>1, <1>2, <1>3, <1>4, <1>5, <1>6, <1>7, <1>8, <1>9, <1>10, <1>11,
     <1>12, <1>13, <1>14, <1>15, <1>16 DEF Next, WriterStep

\* Whoever is done with saving has removed or renamed its temporary file.
LEMMA TidyPreserved == TypeOK /\ Tidy /\ [Next]_vars => Tidy'
<1> SUFFICES ASSUME TypeOK, Tidy, [Next]_vars PROVE Tidy'
  OBVIOUS
<1> USE DEF TypeOK, Tidy, Goto, dirVars, SavingAt
<1>1. ASSUME NEW w \in Writers, Acquire(w) PROVE Tidy'
  BY <1>1 DEF Acquire
<1>2. ASSUME NEW w \in Writers, Load(w) PROVE Tidy'
  BY <1>2 DEF Load
<1>3. ASSUME NEW w \in Writers, Refuse(w) PROVE Tidy'
  BY <1>3 DEF Refuse
<1>4. ASSUME NEW w \in Writers, Create(w) PROVE Tidy'
  BY <1>4 DEF Create
<1>5. ASSUME NEW w \in Writers, Write(w) PROVE Tidy'
  BY <1>5 DEF Write
<1>6. ASSUME NEW w \in Writers, Sync(w) PROVE Tidy'
  BY <1>6 DEF Sync
<1>7. ASSUME NEW w \in Writers, Replace(w) PROVE Tidy'
  BY <1>7 DEF Replace
<1>8. ASSUME NEW w \in Writers, IOError(w) PROVE Tidy'
  BY <1>8 DEF IOError
<1>9. ASSUME NEW w \in Writers, Unlink(w) PROVE Tidy'
  BY <1>9 DEF Unlink
<1>10. ASSUME NEW w \in Writers, Unlock(w) PROVE Tidy'
  BY <1>10 DEF Unlock
<1>11. ASSUME NEW w \in Writers, Crash(w) PROVE Tidy'
  BY <1>11 DEF Crash
<1>12. ASSUME NEW r \in Readers, Open(r) PROVE Tidy'
  BY <1>12 DEF Open
<1>13. ASSUME NEW r \in Readers, Close(r) PROVE Tidy'
  BY <1>13 DEF Close
<1>14. CASE FlushDirectory
  BY <1>14 DEF FlushDirectory
<1>15. CASE PowerLoss
  BY <1>15 DEF PowerLoss
<1>16. CASE UNCHANGED vars
  BY <1>16 DEF vars
<1>17. QED
  BY <1>1, <1>2, <1>3, <1>4, <1>5, <1>6, <1>7, <1>8, <1>9, <1>10, <1>11,
     <1>12, <1>13, <1>14, <1>15, <1>16 DEF Next, WriterStep

\* A temporary name outlives its writer's step only if the writer died.
LEMMA TempsPreserved == TypeOK /\ Tidy /\ TempsRemoved /\ [Next]_vars => TempsRemoved'
<1> SUFFICES ASSUME TypeOK, Tidy, TempsRemoved, [Next]_vars PROVE TempsRemoved'
  OBVIOUS
<1> USE DEF TypeOK, Tidy, TempsRemoved, Goto, dirVars, SavingAt
<1>1. ASSUME NEW w \in Writers, Acquire(w) PROVE TempsRemoved'
  BY <1>1 DEF Acquire
<1>2. ASSUME NEW w \in Writers, Load(w) PROVE TempsRemoved'
  BY <1>2 DEF Load
<1>3. ASSUME NEW w \in Writers, Refuse(w) PROVE TempsRemoved'
  BY <1>3 DEF Refuse
<1>4. ASSUME NEW w \in Writers, Create(w) PROVE TempsRemoved'
  BY <1>4 DEF Create
<1>5. ASSUME NEW w \in Writers, Write(w) PROVE TempsRemoved'
  BY <1>5 DEF Write
<1>6. ASSUME NEW w \in Writers, Sync(w) PROVE TempsRemoved'
  BY <1>6 DEF Sync
<1>7. ASSUME NEW w \in Writers, Replace(w) PROVE TempsRemoved'
  BY <1>7 DEF Replace
<1>8. ASSUME NEW w \in Writers, IOError(w) PROVE TempsRemoved'
  BY <1>8 DEF IOError
<1>9. ASSUME NEW w \in Writers, Unlink(w) PROVE TempsRemoved'
  BY <1>9 DEF Unlink
<1>10. ASSUME NEW w \in Writers, Unlock(w) PROVE TempsRemoved'
  BY <1>10 DEF Unlock
<1>11. ASSUME NEW w \in Writers, Crash(w) PROVE TempsRemoved'
  BY <1>11 DEF Crash
<1>12. ASSUME NEW r \in Readers, Open(r) PROVE TempsRemoved'
  BY <1>12 DEF Open
<1>13. ASSUME NEW r \in Readers, Close(r) PROVE TempsRemoved'
  BY <1>13 DEF Close
<1>14. CASE FlushDirectory
  BY <1>14 DEF FlushDirectory
<1>15. CASE PowerLoss
  BY <1>15 DEF PowerLoss
<1>16. CASE UNCHANGED vars
  BY <1>16 DEF vars
<1>17. QED
  BY <1>1, <1>2, <1>3, <1>4, <1>5, <1>6, <1>7, <1>8, <1>9, <1>10, <1>11,
     <1>12, <1>13, <1>14, <1>15, <1>16 DEF Next, WriterStep

-----------------------------------------------------------------------------
\* The strengthening that every property below follows from.
THEOREM Inductive == Spec => []Inv
<1>1. Init => Inv
  BY DEF Init, Inv, TypeOK, Locked, Published, Fresh, Staged, Computed, Tidy,
         TempsRemoved, Inodes, File, NewFile, Pcs, SavingAt, Staging
<1>2. Inv /\ [Next]_vars => Inv'
  BY TypePreserved, LockedPreserved, FreshPreserved, StagedPreserved,
     PublishedPreserved, ComputedPreserved, TidyPreserved, TempsPreserved DEF Inv
<1>3. QED
  BY <1>1, <1>2, PTL DEF Spec

\* The final path holds complete content at all times, after a power loss too,
\* and so does every file a reader still has open.
THEOREM PathNeverPartial == Spec => []NeverPartial
<1>1. Inv => NeverPartial
  BY DEF Inv, TypeOK, Published, NeverPartial, Inodes
<1>2. QED
  BY <1>1, Inductive, PTL

\* No writer under the lock saves an update of content that is no longer there.
THEOREM NoLostUpdate == Spec => []NothingLost
<1>1. Inv => NothingLost
  BY DEF Inv, Computed, NothingLost, Updated
<1>2. QED
  BY <1>1, Inductive, PTL

\* Only a process that died leaves a temporary file behind.
THEOREM NoLitter == Spec => []TempsRemoved
<1>1. Inv => TempsRemoved
  BY DEF Inv
<1>2. QED
  BY <1>1, Inductive, PTL

-----------------------------------------------------------------------------
(* Refinement *)

\* Only a rename, the writing back of the directory and a power loss move a
\* name; nothing changes the content behind it.
LEMMA StoreStep ==
    ASSUME Inv, [Next]_vars
    PROVE  [Store!StoreNext]_<<LogOf(path), LogOf(diskPath)>>
<1> DEFINE Still == LogOf(path)' = LogOf(path) /\ LogOf(diskPath)' = LogOf(diskPath)
<1> USE DEF Inv, TypeOK, Inodes
<1>1. ASSUME files' = files, path' = path, diskPath' = diskPath PROVE Still
  BY <1>1 DEF LogOf
<1>2. ASSUME NEW w \in Writers, Replace(w) PROVE Store!Update(w)
  <2>1. pc[w] = "replace" /\ path' = temp[w] /\ diskPath' = diskPath /\ files' = files
    BY <1>2 DEF Replace, Goto
  <2>2. temp[w] # 0 /\ files[temp[w]].log = data[w]
    BY <2>1 DEF Fresh, Staged, Staging
  <2>3. LogOf(path)' = data[w]
    BY <2>1, <2>2 DEF LogOf
  <2>4. data[w] = Store!Updated(LogOf(path), w)
    BY <2>1 DEF Computed, SavingAt, Updated, Store!Updated
  <2>5. LogOf(diskPath)' = LogOf(diskPath)
    BY <2>1 DEF LogOf
  <2>6. QED
    BY <2>3, <2>4, <2>5 DEF Store!Update
<1>3. ASSUME NEW w \in Writers, Write(w) \/ Sync(w) PROVE Still
  <2>1. /\ pc[w] \in Staging /\ path' = path /\ diskPath' = diskPath
        /\ \A f \in Inodes : f # temp[w] => files'[f] = files[f]
    BY <1>3 DEF Write, Sync, Goto, Staging, dirVars
  <2>2. temp[w] # path /\ temp[w] # diskPath
    BY <2>1 DEF Fresh
  <2>3. QED
    BY <2>1, <2>2 DEF LogOf
<1>4. CASE FlushDirectory
  <2>1. diskPath' = path /\ path' = path /\ files' = files
    BY <1>4 DEF FlushDirectory
  <2>2. LogOf(diskPath)' = LogOf(path) /\ LogOf(path)' = LogOf(path)
    BY <2>1 DEF LogOf
  <2>3. QED
    BY <2>2 DEF Store!StoreNext, Store!Flush
<1>5. CASE PowerLoss
  <2>1. /\ path' = diskPath /\ diskPath' = diskPath
        /\ \A f \in Inodes : files[f].synced => files'[f] = files[f]
    BY <1>5 DEF PowerLoss, dirVars
  <2>2. diskPath # 0 => files'[diskPath] = files[diskPath]
    BY <2>1 DEF Published
  <2>3. LogOf(path)' = LogOf(diskPath) /\ LogOf(diskPath)' = LogOf(diskPath)
    BY <2>1, <2>2 DEF LogOf
  <2>4. QED
    BY <2>3 DEF Store!StoreNext, Store!FallBack
<1>6. ASSUME NEW w \in Writers,
             \/ Acquire(w) \/ Load(w) \/ Refuse(w) \/ Create(w)
             \/ IOError(w) \/ Unlink(w) \/ Unlock(w) \/ Crash(w)
      PROVE  Still
  <2>1. files' = files /\ path' = path /\ diskPath' = diskPath
    BY <1>6 DEF Acquire, Load, Refuse, Create, IOError, Unlink, Unlock, Crash, dirVars
  <2>2. QED
    BY <1>1, <2>1
<1>7. ASSUME NEW r \in Readers, Open(r) \/ Close(r) PROVE Still
  <2>1. files' = files /\ path' = path /\ diskPath' = diskPath
    BY <1>7 DEF Open, Close, dirVars
  <2>2. QED
    BY <1>1, <2>1
<1>8. CASE UNCHANGED vars
  <2>1. Still
    BY <1>1, <1>8 DEF vars
  <2>2. QED
    BY <2>1
<1>9. QED
  BY <1>2, <1>3, <1>4, <1>5, <1>6, <1>7, <1>8 DEF Next, WriterStep, Store!StoreNext

\* The lock, the temporary file and the rename make each critical section one
\* step of the store, for any number of processes, crashes and power losses.
THEOREM FileImplementsStore == Spec => ImplementsStore
<1>1. Init => Store!StoreInit
  BY DEF Init, Store!StoreInit, LogOf
<1>2. Inv /\ [Next]_vars => [Store!StoreNext]_<<LogOf(path), LogOf(diskPath)>>
  BY StoreStep
<1>3. QED
  BY <1>1, <1>2, Inductive, PTL DEF Spec, ImplementsStore, Store!StoreSpec
=============================================================================
