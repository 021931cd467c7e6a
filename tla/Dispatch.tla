------------------------------ MODULE Dispatch ------------------------------
(***************************************************************************)
(* The C entry points of wallet-ffi/src/lib.rs: invoke, set_base_dir and   *)
(* free_string, and validate_dir, which every handler that touches a       *)
(* wallet calls first.  Calls run on the host's threads at the same time.  *)
(*                                                                         *)
(* A name is what a request gives for a directory; the file system says    *)
(* which place it leads to, and may come to say otherwise while a request  *)
(* is under way.  A place is a canonical path.  It leads to itself when it *)
(* is found, but it is a path like any other: what a handler does with it  *)
(* resolves it again, and by then a directory on it may have been replaced *)
(* by a link.                                                              *)
(***************************************************************************)
EXTENDS Integers, FiniteSets

CONSTANTS
    Threads,
    Names,     \* directories that requests name
    Bases,     \* those the app may set as its data directory; they are not moved
    Places,
    Under,     \* the places at or below a place
    Unset      \* no data directory yet

ASSUME NameAssumption ==
    Bases \subseteq Names /\ Names \cap Places = {} /\ Unset \notin Names \cup Places

ASSUME UnderAssumption ==
    Under \in [Places -> SUBSET Places] /\ \A p \in Places : p \in Under[p]

VARIABLES
    call,      \* per thread: where its call is, what was asked, for which name, the
               \* place validate_dir has found for it, and what was returned
    base,      \* BASE_DIR
    first,     \* what it was set to first
    leads,     \* the place each name, and each canonical path, leads to
    existing,  \* the places that are there
    wallets    \* what handlers have written: by which path, and in which place

sandbox == <<base, first>>

disk == <<leads, existing, wallets>>

vars == <<call, sandbox, disk>>

Running == {"received", "based", "created", "resolved", "valid", "panicking"}

\* A null pointer; no UTF-8, too long, no JSON or an unknown method; ping and
\* get_version; a method that takes a dir.
Requests == {"null", "malformed", "trivial", "wallet"}

Answers == {"none", "null", "ok", "error"}

Call == [at : {"idle", "answered"} \cup Running, request : Requests, dir : Names \cup {Unset},
         place : Places \cup {Unset}, answer : Answers]

Idle == [at |-> "idle", request |-> "null", dir |-> Unset, place |-> Unset, answer |-> "none"]

TypeOK ==
    /\ call \in [Threads -> Call]
    /\ base \in Bases \cup {Unset}
    /\ first \in Bases \cup {Unset}
    /\ leads \in [Names \cup Places -> Places]
    /\ existing \subseteq Places
    /\ wallets \subseteq [path : Places, place : Places]

Init ==
    /\ call = [t \in Threads |-> Idle]
    /\ base = Unset
    /\ first = Unset
    /\ leads \in [Names \cup Places -> Places]
    /\ \A p \in Places : leads[p] = p
    /\ existing = {leads[b] : b \in Bases}
    /\ wallets = {}

At(t, step) == call[t].at = step

Goto(t, step) == call' = [call EXCEPT ![t].at = step]

Return(t, a) == call' = [call EXCEPT ![t] = [Idle EXCEPT !.at = "answered", !.answer = a]]

-----------------------------------------------------------------------------

\* The mutant keeps the place for the name.
SetBaseDir_Canonical(b) ==
    /\ base' = IF base = Unset THEN leads[b] ELSE base
    /\ first' = IF first = Unset THEN b ELSE first
    /\ UNCHANGED <<call, disk>>

\* set_base_dir: the OnceLock keeps what it was given first.
SetBaseDir(b) ==
    /\ base' = IF base = Unset THEN b ELSE base
    /\ first' = IF first = Unset THEN b ELSE first
    /\ UNCHANGED <<call, disk>>

\* A wallet request without a dir, or with an empty one, has Unset for it; the others
\* have none.
Invoke(t, r, d) ==
    /\ At(t, "idle")
    /\ r # "wallet" => d = Unset
    /\ call' = [call EXCEPT ![t] = [Idle EXCEPT !.at = "received", !.request = r, !.dir = d]]
    /\ UNCHANGED <<sandbox, disk>>

Reply(r) ==
    CASE r = "null" -> "null"
      [] r = "trivial" -> "ok"
      [] OTHER -> "error"

\* process_request and the head of every handler, with the first line of validate_dir
ProcessRequest(t) ==
    /\ At(t, "received")
    /\ IF call[t].request = "wallet" /\ call[t].dir # Unset /\ base # Unset
       THEN Goto(t, "based")
       ELSE Return(t, Reply(call[t].request))
    /\ UNCHANGED <<sandbox, disk>>

\* create_dir_all, whose failure is ignored
CreateDir(t) ==
    /\ At(t, "based")
    /\ \E created \in SUBSET {leads[call[t].dir]} : existing' = existing \cup created
    /\ Goto(t, "created")
    /\ UNCHANGED <<sandbox, leads, wallets>>

Canonicalize(t) ==
    /\ At(t, "created")
    /\ LET place == leads[call[t].dir]
       IN  IF place \in existing
           THEN call' = [call EXCEPT ![t].at = "resolved", ![t].place = place]
           ELSE Return(t, "error")
    /\ UNCHANGED <<sandbox, disk>>

\* starts_with, on canonical paths
CheckSandbox(t) ==
    /\ At(t, "resolved")
    /\ IF leads[base] \in existing /\ call[t].place \in Under[leads[base]]
       THEN Goto(t, "valid")
       ELSE Return(t, "error")
    /\ UNCHANGED <<sandbox, disk>>

Outcome(t) == Return(t, "ok") \/ Return(t, "error") \/ Goto(t, "panicking")

\* The mutant works on the name it was given.
Write_ByName(t) ==
    /\ At(t, "valid")
    /\ LET place == leads[call[t].dir]
       IN  /\ existing' = existing \cup {place}
           /\ wallets' = wallets \cup {[path |-> call[t].place, place |-> place]}
    /\ UNCHANGED <<call, sandbox, leads>>

\* One of the writes of create_wallet or import_wallet, by the canonical path, which is
\* resolved again; create_dir_all makes a directory that is gone.
Write(t) ==
    /\ At(t, "valid")
    /\ LET place == leads[call[t].place]
       IN  /\ existing' = existing \cup {place}
           /\ wallets' = wallets \cup {[path |-> call[t].place, place |-> place]}
    /\ UNCHANGED <<call, sandbox, leads>>

\* A handler comes to its end at any point: other parameters may be missing, and
\* anything may fail or panic.
Finish(t) ==
    /\ At(t, "valid")
    /\ \/ \E a \in {"ok", "error"} : Return(t, a)
       \/ Goto(t, "panicking")
    /\ UNCHANGED <<sandbox, disk>>

\* The mutant lets the panic reach the C caller, which aborts the process.
CatchUnwind_None(t) ==
    /\ At(t, "panicking")
    /\ call' = [s \in Threads |-> Idle]
    /\ UNCHANGED <<sandbox, disk>>

CatchUnwind(t) ==
    /\ At(t, "panicking")
    /\ Return(t, "error")
    /\ UNCHANGED <<sandbox, disk>>

Step(t) ==
    \/ ProcessRequest(t)
    \/ CreateDir(t)
    \/ Canonicalize(t)
    \/ CheckSandbox(t)
    \/ Write(t)
    \/ Finish(t)
    \/ CatchUnwind(t)

\* free_string; the host calls it once for every answer.
FreeString(t) ==
    /\ At(t, "answered")
    /\ call' = [call EXCEPT ![t] = Idle]
    /\ UNCHANGED <<sandbox, disk>>

\* Anyone may have a name lead elsewhere, but for the app's data directories.
Relink(d, p) ==
    /\ d \notin Bases
    /\ leads[p] = p
    /\ leads' = [leads EXCEPT ![d] = p]
    /\ UNCHANGED <<call, sandbox, existing, wallets>>

\* A directory that no data directory lies in makes way for a link, for good; what led
\* into it leads to where the link goes.
Replace(d) ==
    /\ d \in existing
    /\ leads[d] = d
    /\ \A b \in Bases : leads[b] \notin Under[d]
    /\ \E into \in [Under[d] -> {p \in Places \ Under[d] : leads[p] = p}] :
          /\ \A p \in Under[d] : into[p] \in Under[into[d]]
          /\ leads' = [n \in Names \cup Places |->
                         IF leads[n] \in Under[d] THEN into[leads[n]] ELSE leads[n]]
    /\ UNCHANGED <<call, sandbox, existing, wallets>>

Next ==
    \/ \E b \in Bases : SetBaseDir(b)
    \/ \E t \in Threads :
          \/ \E r \in Requests, d \in Names \cup {Unset} : Invoke(t, r, d)
          \/ Step(t)
          \/ FreeString(t)
    \/ \E d \in Names, p \in Places : Relink(d, p)
    \/ \E d \in Places : Replace(d)

\* Every file operation and every query returns, in time or with a timeout.
Fairness == \A t \in Threads : WF_vars(Step(t))

Spec == Init /\ [][Next]_vars

FairSpec == Spec /\ Fairness

-----------------------------------------------------------------------------
(* Properties *)

\* "All wallet operations must use paths under this directory" (lib.rs:95-101): a
\* wallet is only ever written below the first directory the app has set, whatever
\* names lead to by then, and whichever of two settings comes later.  It may be written
\* elsewhere only by a path on which a directory has been replaced since it was found.
WalletsStayInTheSandbox ==
    wallets # {} =>
        /\ first \in Bases
        /\ \A w \in wallets : w.place \in Under[leads[first]] \/ leads[w.path] # w.path

\* "Never ... instead of failing just the one request" (lib.rs:35-43): every request
\* gets its answer, also the one that panics and those on the other threads.
EveryRequestIsAnswered == \A t \in Threads : call[t].at \in Running ~> At(t, "answered")
=============================================================================
