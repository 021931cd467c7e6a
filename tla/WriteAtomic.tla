---------------------------- MODULE WriteAtomic -----------------------------
(***************************************************************************)
(* write_atomic (wallet-storage/src/lib.rs:213-229), system call by system *)
(* call: temporary file, permissions, write_all, sync_all, rename.  Any    *)
(* call may fail, which drops the temporary file; several callers may save *)
(* the same path at once; the power may fail between any two calls.        *)
(*                                                                         *)
(* The file system below it is external: contents and names are changed in *)
(* a cache, reach the disk in any order at any later time, contents also   *)
(* in part, and a crash keeps only what is on the disk.                    *)
(***************************************************************************)
EXTENDS Integers

CONSTANTS Writers, Blobs, Absent,
          Inodes,    \* files, whatever their name
          NoInode

ASSUME InodeAssumption == NoInode \notin Inodes

ASSUME BlobAssumption == Absent \notin Blobs /\ {"Empty", "Partial"} \cap Blobs = {}

Contents == Blobs \cup {"Empty", "Partial"}

VARIABLES
    pc,          \* where each caller is
    blob,        \* what it writes
    tmp,         \* the inode of its NamedTempFile
    temps,       \* the inodes that have a temporary name in the directory
    entry,       \* the inode `path` names, in the cache
    entryOnDisk, \* the same on the disk
    cached,      \* contents of the inodes, in the cache
    onDisk       \* the same on the disk

vars == <<pc, blob, tmp, temps, entry, entryOnDisk, cached, onDisk>>

fileSystem == <<entry, entryOnDisk, cached, onDisk>>

Resting == {"idle", "ok", "failed"}

Steps == Resting \cup {"called", "created", "restricted", "written", "synced"}

TypeOK ==
    /\ pc \in [Writers -> Steps]
    /\ blob \in [Writers -> Blobs \cup {Absent}]
    /\ tmp \in [Writers -> Inodes \cup {NoInode}]
    /\ temps \subseteq Inodes
    /\ entry \in Inodes \cup {NoInode}
    /\ entryOnDisk \in Inodes \cup {NoInode}
    /\ cached \in [Inodes -> Contents]
    /\ onDisk \in [Inodes -> Contents]

Init ==
    /\ pc = [w \in Writers |-> "idle"]
    /\ blob = [w \in Writers |-> Absent]
    /\ tmp = [w \in Writers |-> NoInode]
    /\ temps = {}
    /\ entry = NoInode
    /\ entryOnDisk = NoInode
    /\ cached = [i \in Inodes |-> "Empty"]
    /\ onDisk = [i \in Inodes |-> "Empty"]

Goto(w, step) == pc' = [pc EXCEPT ![w] = step]

-----------------------------------------------------------------------------
(* write_atomic *)

\* The mutant goes on when sealing fails.
Call_Unsealed(w, b) ==
    /\ pc[w] \in Resting
    /\ Goto(w, "called")
    /\ \E content \in {b, "Empty"} : blob' = [blob EXCEPT ![w] = content]
    /\ UNCHANGED <<tmp, temps, fileSystem>>

\* save_share_to_file and save_to_file: the blob is sealed before the file is touched.
Call(w, b) ==
    /\ pc[w] \in Resting
    /\ Goto(w, "called")
    /\ blob' = [blob EXCEPT ![w] = b]
    /\ UNCHANGED <<tmp, temps, fileSystem>>

\* Inodes that no name and no open file keeps.
Free == Inodes \ (temps \cup {entry, entryOnDisk} \cup {tmp[w] : w \in Writers})

\* NamedTempFile::new_in(dir)
CreateTemp(w) ==
    /\ pc[w] = "called"
    /\ Goto(w, "created")
    /\ \E i \in Free :
        /\ tmp' = [tmp EXCEPT ![w] = i]
        /\ temps' = temps \cup {i}
        /\ cached' = [cached EXCEPT ![i] = "Empty"]
        /\ onDisk' = [onDisk EXCEPT ![i] = "Empty"]
    /\ UNCHANGED <<blob, entry, entryOnDisk>>

SetPermissions(w) ==
    /\ pc[w] = "created"
    /\ Goto(w, "restricted")
    /\ UNCHANGED <<blob, tmp, temps, fileSystem>>

WriteAll(w) ==
    /\ pc[w] = "restricted"
    /\ Goto(w, "written")
    /\ cached' = [cached EXCEPT ![tmp[w]] = blob[w]]
    /\ UNCHANGED <<blob, tmp, temps, entry, entryOnDisk, onDisk>>

\* The mutant only waits for the bytes to be handed to the cache.
SyncAll_Flush(w) ==
    /\ pc[w] = "written"
    /\ Goto(w, "synced")
    /\ UNCHANGED <<blob, tmp, temps, fileSystem>>

SyncAll(w) ==
    /\ pc[w] = "written"
    /\ Goto(w, "synced")
    /\ onDisk' = [onDisk EXCEPT ![tmp[w]] = cached[tmp[w]]]
    /\ UNCHANGED <<blob, tmp, temps, entry, entryOnDisk, cached>>

\* persist renames the temporary file over path and gives it up.
Persist(w) ==
    /\ pc[w] = "synced"
    /\ Goto(w, "ok")
    /\ entry' = tmp[w]
    /\ temps' = temps \ {tmp[w]}
    /\ tmp' = [tmp EXCEPT ![w] = NoInode]
    /\ UNCHANGED <<blob, entryOnDisk, cached, onDisk>>

\* The mutant leaves the temporary file behind.
Fail_KeepsTemp(w) ==
    /\ pc[w] \notin Resting
    /\ Goto(w, "failed")
    /\ tmp' = [tmp EXCEPT ![w] = NoInode]
    /\ UNCHANGED <<blob, temps, fileSystem>>

\* Any `?` returns early and drops the NamedTempFile, which unlinks it.
Fail(w) ==
    /\ pc[w] \notin Resting
    /\ Goto(w, "failed")
    /\ tmp' = [tmp EXCEPT ![w] = NoInode]
    /\ temps' = temps \ {tmp[w]}
    /\ UNCHANGED <<blob, fileSystem>>

-----------------------------------------------------------------------------
(* The file system, external *)

\* The cache reaches the disk, possibly in part.
Writeback(i) ==
    /\ onDisk[i] # cached[i]
    /\ \E content \in {cached[i], "Partial"} : onDisk' = [onDisk EXCEPT ![i] = content]
    /\ UNCHANGED <<pc, blob, tmp, temps, entry, entryOnDisk, cached>>

FlushDirectory ==
    /\ entryOnDisk' = entry
    /\ UNCHANGED <<pc, blob, tmp, temps, entry, cached, onDisk>>

PowerLoss ==
    /\ pc' = [w \in Writers |-> "idle"]
    /\ tmp' = [w \in Writers |-> NoInode]
    /\ temps' \in SUBSET temps
    /\ entry' = entryOnDisk
    /\ cached' = onDisk
    /\ UNCHANGED <<blob, entryOnDisk, onDisk>>

Next ==
    \/ \E w \in Writers :
          \/ \E b \in Blobs : Call(w, b)
          \/ CreateTemp(w)
          \/ SetPermissions(w)
          \/ WriteAll(w)
          \/ SyncAll(w)
          \/ Persist(w)
          \/ Fail(w)
    \/ \E i \in Inodes : Writeback(i)
    \/ FlushDirectory
    \/ PowerLoss

Spec == Init /\ [][Next]_vars

-----------------------------------------------------------------------------
(* Properties *)

InCache == IF entry = NoInode THEN Absent ELSE cached[entry]

OnDisk == IF entryOnDisk = NoInode THEN Absent ELSE onDisk[entryOnDisk]

\* "a crash mid-write can never leave a half-written file" (lib.rs:208-210):
\* neither a reader nor a reader after a power loss finds anything but a whole blob.
NeverHalfWritten == {InCache, OnDisk} \subseteq Blobs \cup {Absent}

Orphans == temps \ {tmp[w] : w \in Writers}

\* Temporary files are left in the wallet's directory by a crash only, never by
\* an error path (lib.rs:217-227 returns through the drop of the NamedTempFile).
OnlyCrashesLeak == [][PowerLoss \/ Orphans' \subseteq Orphans]_vars

\* The promise write_atomic makes of the file as a whole.
Atomic == INSTANCE AtomicFile WITH
    current <- InCache,
    durable <- OnDisk,
    status <- [w \in Writers |-> IF pc[w] \in Resting THEN pc[w] ELSE "writing"],
    wanted <- blob

ImplementsAtomicFile == Atomic!Spec
=============================================================================
