----------------------------- MODULE AtomicFile -----------------------------
(***************************************************************************)
(* What write_atomic (wallet-storage/src/lib.rs:208-229) promises of one   *)
(* file: a save either lands as a whole or leaves the file as it was.      *)
(*                                                                         *)
(* It does not promise that a save that returned Ok survives a power loss: *)
(* the directory is never synced, so a crash may bring back the version    *)
(* that was last made durable.  It is never a mixture of versions.         *)
(***************************************************************************)
CONSTANTS Writers,   \* concurrent callers
          Blobs,     \* sealed contents a caller may write
          Absent     \* the file does not exist

VARIABLES
    current,   \* what a reader sees
    durable,   \* what a reader would see after a power loss
    status,    \* of each writer's last call
    wanted     \* the blob of each writer's last call

vars == <<current, durable, status, wanted>>

Statuses == {"idle", "writing", "ok", "failed"}

TypeOK ==
    /\ current \in Blobs \cup {Absent}
    /\ durable \in Blobs \cup {Absent}
    /\ status \in [Writers -> Statuses]
    /\ wanted \in [Writers -> Blobs \cup {Absent}]

Init ==
    /\ current = Absent
    /\ durable = Absent
    /\ status = [w \in Writers |-> "idle"]
    /\ wanted = [w \in Writers |-> Absent]

Begin(w, b) ==
    /\ status[w] # "writing"
    /\ status' = [status EXCEPT ![w] = "writing"]
    /\ wanted' = [wanted EXCEPT ![w] = b]
    /\ UNCHANGED <<current, durable>>

Commit(w) ==
    /\ status[w] = "writing"
    /\ status' = [status EXCEPT ![w] = "ok"]
    /\ current' = wanted[w]
    /\ UNCHANGED <<durable, wanted>>

Abandon(w) ==
    /\ status[w] = "writing"
    /\ status' = [status EXCEPT ![w] = "failed"]
    /\ UNCHANGED <<current, durable, wanted>>

MakeDurable ==
    /\ durable' = current
    /\ UNCHANGED <<current, status, wanted>>

Crash ==
    /\ current' = durable
    /\ status' = [w \in Writers |-> "idle"]
    /\ UNCHANGED <<durable, wanted>>

Next ==
    \/ \E w \in Writers : (\E b \in Blobs : Begin(w, b)) \/ Commit(w) \/ Abandon(w)
    \/ MakeDurable
    \/ Crash

Spec == Init /\ [][Next]_vars
=============================================================================
