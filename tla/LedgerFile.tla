---------------------------- MODULE LedgerFile -----------------------------
(***************************************************************************)
(* How the spend ledger and the result files reach the disk: the lock file, *)
(* the temporary file, fsync and the rename of harness/spend.py             *)
(* (_spend_lock, _load_spend_unlocked, _save_spend_unlocked) and of         *)
(* harness/atomic_write.py, which has the same body without the lock.       *)
(*                                                                         *)
(* A file is an inode: the names that point to it come and go, and whoever  *)
(* has it open keeps it.  Its content is the log of the updates it holds.   *)
(***************************************************************************)
EXTENDS Naturals, Sequences, FiniteSets

CONSTANTS
    Writers,          \* processes that update the file
    Readers,          \* processes that read it without a lock
    NoWriter,         \* nobody holds the lock
    ReadModifyWrite,  \* TRUE: spend.py, FALSE: atomic_write.py
    MaxFiles          \* bound: temporary files made in a behaviour

ASSUME WriterAssumption == NoWriter \notin Writers
ASSUME FileAssumption == MaxFiles \in Nat /\ ReadModifyWrite \in BOOLEAN

VARIABLES
    files,      \* the inodes
    made,       \* how many of them exist
    path,       \* the inode spend_path names now; 0: no such file
    diskPath,   \* the inode it names after a power loss
    temps,      \* the inodes that have a temporary name
    orphans,    \* history: those whose writer died before it could unlink
    lock,       \* the holder of the lock on <name>.lock
    pc,         \* the writers' program counters
    data,       \* what a writer has loaded or is about to save
    temp,       \* its temporary file
    open        \* the inode a reader has open; 0: none

vars == <<files, made, path, diskPath, temps, orphans, lock, pc, data, temp, open>>
dirVars == <<path, diskPath>>

-----------------------------------------------------------------------------
Inodes == 1 .. MaxFiles
File == [log : Seq(Writers), whole : BOOLEAN, synced : BOOLEAN]
NewFile == [log |-> <<>>, whole |-> FALSE, synced |-> FALSE]

\* The content behind a name; without a file load returns an empty ledger.
LogOf(f) == IF f = 0 THEN <<>> ELSE files[f].log

\* What an update by w makes of the content l.
Updated(l, w) == IF ReadModifyWrite THEN Append(l, w) ELSE <<w>>

Init ==
    /\ files = [f \in Inodes |-> NewFile]
    /\ made = 0
    /\ path = 0
    /\ diskPath = 0
    /\ temps = {}
    /\ orphans = {}
    /\ lock = NoWriter
    /\ pc = [w \in Writers |-> "idle"]
    /\ data = [w \in Writers |-> <<>>]
    /\ temp = [w \in Writers |-> 0]
    /\ open = [r \in Readers |-> 0]

Goto(w, from, to) ==
    /\ pc[w] = from
    /\ pc' = [pc EXCEPT ![w] = to]

-----------------------------------------------------------------------------
(* The critical section of reserve, settle and reconcile *)

\* Mutant: the lock is shared.
AcquireShared(w) ==
    /\ Goto(w, "idle", IF ReadModifyWrite THEN "load" ELSE "create")
    /\ lock' = IF ReadModifyWrite THEN w ELSE lock
    /\ data' = [data EXCEPT ![w] = Updated(<<>>, w)]
    /\ UNCHANGED <<files, made, temps, orphans, temp, open>>
    /\ UNCHANGED dirVars

\* flock(LOCK_EX): granted when nobody holds the lock.  atomic_write has none.
Acquire(w) ==
    /\ Goto(w, "idle", IF ReadModifyWrite THEN "load" ELSE "create")
    /\ ReadModifyWrite => lock = NoWriter
    /\ lock' = IF ReadModifyWrite THEN w ELSE lock
    /\ data' = [data EXCEPT ![w] = Updated(<<>>, w)]
    /\ UNCHANGED <<files, made, temps, orphans, temp, open>>
    /\ UNCHANGED dirVars

\* The update is computed from what was read under the lock.
Load(w) ==
    /\ Goto(w, "load", "create")
    /\ data' = [data EXCEPT ![w] = Updated(LogOf(path), w)]
    /\ UNCHANGED <<files, made, temps, orphans, lock, temp, open>>
    /\ UNCHANGED dirVars

\* Mutant: a refusal leaves the section without unlocking.
RefuseKeepingLock(w) ==
    /\ Goto(w, "load", "idle")
    /\ UNCHANGED <<files, made, temps, orphans, lock, data, temp, open>>
    /\ UNCHANGED dirVars

\* A refusal (cap exceeded, no matching reservation), a report without
\* --write or a malformed ledger leaves the section without saving.
Refuse(w) ==
    /\ Goto(w, "load", "unlock")
    /\ UNCHANGED <<files, made, temps, orphans, lock, data, temp, open>>
    /\ UNCHANGED dirVars

\* mkstemp: a new inode under a name nobody else uses.
Create(w) ==
    /\ Goto(w, "create", "write")
    /\ made < MaxFiles
    /\ made' = made + 1
    /\ temp' = [temp EXCEPT ![w] = made + 1]
    /\ temps' = temps \cup {made + 1}
    /\ UNCHANGED <<files, orphans, lock, data, open>>
    /\ UNCHANGED dirVars

Write(w) ==
    /\ Goto(w, "write", "sync")
    /\ files' = [files EXCEPT ![temp[w]].log = data[w], ![temp[w]].whole = TRUE]
    /\ UNCHANGED <<made, temps, orphans, lock, data, temp, open>>
    /\ UNCHANGED dirVars

\* Mutant: no fsync before the rename.
SkipSync(w) ==
    /\ Goto(w, "sync", "replace")
    /\ UNCHANGED <<files, made, temps, orphans, lock, data, temp, open>>
    /\ UNCHANGED dirVars

Sync(w) ==
    /\ Goto(w, "sync", "replace")
    /\ files' = [files EXCEPT ![temp[w]].synced = TRUE]
    /\ UNCHANGED <<made, temps, orphans, lock, data, temp, open>>
    /\ UNCHANGED dirVars

\* os.replace: the name moves to the new inode in one step.
Replace(w) ==
    /\ Goto(w, "replace", "unlink")
    /\ path' = temp[w]
    /\ temps' = temps \ {temp[w]}
    /\ UNCHANGED <<files, made, diskPath, orphans, lock, data, temp, open>>

\* An OSError of mkstemp, write, fsync or replace (a full disk) ends in the
\* finally clause; a failed write leaves part of the data behind.
SavingAt == {"create", "write", "sync", "replace"}

\* Mutant: an error does not remove the temporary file.
IOErrorWithoutUnlink(w) ==
    /\ pc[w] \in SavingAt
    /\ pc' = [pc EXCEPT ![w] = "unlock"]
    /\ UNCHANGED <<files, made, temps, orphans, lock, data, temp, open>>
    /\ UNCHANGED dirVars

IOError(w) ==
    /\ pc[w] \in SavingAt
    /\ pc' = [pc EXCEPT ![w] = IF pc[w] = "create" THEN "unlock" ELSE "unlink"]
    /\ UNCHANGED <<files, made, temps, orphans, lock, data, temp, open>>
    /\ UNCHANGED dirVars

\* finally: temp_path.unlink(missing_ok=True).
Unlink(w) ==
    /\ Goto(w, "unlink", "unlock")
    /\ temps' = temps \ {temp[w]}
    /\ UNCHANGED <<files, made, orphans, lock, data, temp, open>>
    /\ UNCHANGED dirVars

Unlock(w) ==
    /\ Goto(w, "unlock", "idle")
    /\ lock' = IF lock = w THEN NoWriter ELSE lock
    /\ temp' = [temp EXCEPT ![w] = 0]
    /\ UNCHANGED <<files, made, temps, orphans, data, open>>
    /\ UNCHANGED dirVars

-----------------------------------------------------------------------------
(* Readers, crashes and power losses *)

\* A reader opens the file and reads it later, while writers go on.
Open(r) ==
    /\ open[r] = 0
    /\ path # 0
    /\ open' = [open EXCEPT ![r] = path]
    /\ UNCHANGED <<files, made, temps, orphans, lock, pc, data, temp>>
    /\ UNCHANGED dirVars

Close(r) ==
    /\ open[r] # 0
    /\ open' = [open EXCEPT ![r] = 0]
    /\ UNCHANGED <<files, made, temps, orphans, lock, pc, data, temp>>
    /\ UNCHANGED dirVars

\* The process dies: the kernel drops its lock, its temporary file stays.
Crash(w) ==
    /\ pc[w] # "idle"
    /\ pc' = [pc EXCEPT ![w] = "idle"]
    /\ lock' = IF lock = w THEN NoWriter ELSE lock
    /\ orphans' = orphans \cup (temps \cap {temp[w]})
    /\ temp' = [temp EXCEPT ![w] = 0]
    /\ UNCHANGED <<files, made, temps, data, open>>
    /\ UNCHANGED dirVars

\* The file system writes the directory back when it likes; nothing here
\* waits for it.
FlushDirectory ==
    /\ diskPath' = path
    /\ UNCHANGED <<files, made, path, temps, orphans, lock, pc, data, temp, open>>

\* Everything dies; the name falls back and data that was not synced is lost.
PowerLoss ==
    /\ path' = diskPath
    /\ files' = [f \in Inodes |-> IF files[f].synced THEN files[f] ELSE NewFile]
    /\ lock' = NoWriter
    /\ pc' = [w \in Writers |-> "idle"]
    /\ orphans' = temps
    /\ temp' = [w \in Writers |-> 0]
    /\ open' = [r \in Readers |-> 0]
    /\ UNCHANGED <<made, diskPath, temps, data>>

-----------------------------------------------------------------------------
WriterStep(w) ==
    \/ Load(w) \/ Refuse(w) \/ Create(w) \/ Write(w) \/ Sync(w)
    \/ Replace(w) \/ IOError(w) \/ Unlink(w) \/ Unlock(w)

Next ==
    \/ \E w \in Writers : Acquire(w) \/ WriterStep(w) \/ Crash(w)
    \/ \E r \in Readers : Open(r) \/ Close(r)
    \/ FlushDirectory
    \/ PowerLoss

Spec == Init /\ [][Next]_vars

\* Between taking the lock and releasing it nothing waits for another process.
FairSpec == Spec /\ \A w \in Writers : WF_vars(WriterStep(w))

-----------------------------------------------------------------------------
(* Properties *)

Pcs == {"idle", "load", "create", "write", "sync", "replace", "unlink", "unlock"}
TypeOK ==
    /\ files \in [Inodes -> File]
    /\ made \in 0 .. MaxFiles
    /\ path \in 0 .. made
    /\ diskPath \in 0 .. made
    /\ temps \subseteq 1 .. made
    /\ orphans \subseteq 1 .. made
    /\ lock \in Writers \cup {NoWriter}
    /\ pc \in [Writers -> Pcs]
    /\ data \in [Writers -> Seq(Writers)]
    /\ temp \in [Writers -> 0 .. made]
    /\ open \in [Readers -> 0 .. made]

\* The final path never holds a partial write: neither now nor after a power
\* loss, and neither for a reader that opened it before the last rename
\* (atomic_write.py: "the final path always holds either the previous
\* complete content or the new complete content").
NeverPartial ==
    \A f \in {path, diskPath} \cup {open[r] : r \in Readers} :
        f # 0 => files[f].whole

\* A writer in the critical section works on the current content until it
\* renames: nothing was published since it loaded, so nothing is lost.
NothingLost ==
    ReadModifyWrite =>
        \A w \in Writers : pc[w] \in SavingAt => data[w] = Append(LogOf(path), w)

\* Only a process that died leaves a temporary file behind; an exception or
\* a refusal does not.
TempsRemoved ==
    \A f \in temps \ orphans : \E w \in Writers : temp[w] = f /\ pc[w] # "idle"

\* Through the rename each critical section is one step of the abstract
\* store, and every other step, crash or failure is none.
Store == INSTANCE LedgerStore WITH
    content <- LogOf(path), durable <- LogOf(diskPath)
ImplementsStore == Store!StoreSpec

\* Whoever holds the lock gives it back, also after a refusal or an error.
LockReleased == \A w \in Writers : lock = w ~> lock # w
=============================================================================
