---------------------------- MODULE DispatchProofs ----------------------------
(***************************************************************************)
(* The sandbox of the C entry points, for any number of threads, names and *)
(* places.                                                                 *)
(***************************************************************************)
EXTENDS Dispatch, TLAPS

\* BASE_DIR is what it was set to first.
BaseIsFirst == base = first

\* A call that has passed a check still satisfies it, whatever happened since.
Checked(t) ==
    /\ call[t].at \in {"based", "created"} => call[t].dir \in Names /\ base # Unset
    /\ At(t, "resolved") => call[t].place \in Places /\ base # Unset
    /\ At(t, "valid") => call[t].place \in Places /\ base # Unset /\ call[t].place \in Under[leads[base]]

Inv ==
    /\ TypeOK
    /\ BaseIsFirst
    /\ \A t \in Threads : Checked(t)
    /\ WalletsStayInTheSandbox

LEMMA UnsetIsNoBase == \A b \in Bases : b # Unset /\ b \in Names
  BY NameAssumption

LEMMA InitInv == Init => Inv
<1> SUFFICES ASSUME Init  PROVE Inv
  OBVIOUS
<1>1. existing \subseteq Places
  BY NameAssumption DEF Init
<1>2. TypeOK
  BY <1>1 DEF Init, TypeOK, Idle, Call, Running, Requests, Answers
<1> QED
  BY <1>2 DEF Init, Inv, BaseIsFirst, Checked, At, Idle, WalletsStayInTheSandbox

\* What a handler has written lies below the data directory, or a directory on the path
\* it was written by has been replaced.
Excused(w) == base # Unset /\ (w.place \in Under[leads[base]] \/ leads[w.path] # w.path)

LEMMA WalletsAreExcused ==
    ASSUME TypeOK, BaseIsFirst
    PROVE  WalletsStayInTheSandbox <=> \A w \in wallets : Excused(w)
  BY UnsetIsNoBase DEF TypeOK, BaseIsFirst, WalletsStayInTheSandbox, Excused

\* No name the app uses for its data directory is moved, and what was set stays set.
LEMMA OthersKeep ==
    ASSUME TypeOK, NEW t \in Threads, Checked(t), call'[t] = call[t],
           base = Unset \/ base' = base,
           \A b \in Bases : leads'[b] = leads[b],
           base' \in Bases \cup {Unset}
    PROVE  Checked(t)'
  BY UnsetIsNoBase DEF TypeOK, Checked, At

\* A step of a call that ends where nothing has been checked yet.
LEMMA Ends ==
    ASSUME TypeOK, NEW t \in Threads, NEW a \in Answers, Return(t, a)
    PROVE  /\ call' \in [Threads -> Call]
           /\ Checked(t)'
           /\ \A s \in Threads \ {t} : call'[s] = call[s]
<1>1. [Idle EXCEPT !.at = "answered", !.answer = a] \in Call
  BY DEF Idle, Call, Running, Requests, Answers
<1>2. call' = [call EXCEPT ![t] = [Idle EXCEPT !.at = "answered", !.answer = a]]
  BY DEF Return
<1>3. call'[t].at = "answered"
  BY <1>2 DEF TypeOK, Idle
<1> QED
  BY <1>1, <1>2, <1>3 DEF TypeOK, Checked, At

LEMMA Moves ==
    ASSUME TypeOK, NEW t \in Threads, NEW step \in Running, Goto(t, step)
    PROVE  /\ call' \in [Threads -> Call]
           /\ call'[t] = [call[t] EXCEPT !.at = step]
           /\ \A s \in Threads \ {t} : call'[s] = call[s]
  BY DEF TypeOK, Goto, Call

\* A step of one call that leaves the others, BASE_DIR and the names alone.
LEMMA StepOfOne ==
    ASSUME Inv, NEW t \in Threads, UNCHANGED <<base, first, leads>>,
           call' \in [Threads -> Call], Checked(t)',
           \A s \in Threads \ {t} : call'[s] = call[s],
           existing' \subseteq Places, wallets' \subseteq [path : Places, place : Places],
           \A w \in wallets' : w \in wallets \/ Excused(w)
    PROVE  Inv'
<1>1. TypeOK'
  BY DEF Inv, TypeOK
<1>2. ASSUME NEW s \in Threads \ {t}  PROVE Checked(s)'
  BY OthersKeep DEF Inv, TypeOK
<1>3. \A w \in wallets : Excused(w)
  BY WalletsAreExcused DEF Inv
<1>4. BaseIsFirst'
  BY DEF Inv, BaseIsFirst
<1>5. \A w \in wallets' : Excused(w)'
  BY <1>3 DEF Excused
<1>6. WalletsStayInTheSandbox'
  BY <1>1, <1>4, <1>5, UnsetIsNoBase DEF TypeOK, BaseIsFirst, WalletsStayInTheSandbox, Excused
<1> QED
  BY <1>1, <1>2, <1>4, <1>6 DEF Inv

LEMMA SetBaseDirInv ==
    ASSUME Inv, NEW b \in Bases, SetBaseDir(b)
    PROVE  Inv'
<1>1. /\ base' = IF base = Unset THEN b ELSE base
      /\ first' = IF first = Unset THEN b ELSE first
      /\ UNCHANGED <<call, leads, existing, wallets>>
  BY DEF SetBaseDir, disk
<1>2. TypeOK'
  BY <1>1 DEF Inv, TypeOK
<1>3. ASSUME NEW t \in Threads  PROVE Checked(t)'
  BY <1>1, OthersKeep DEF Inv, TypeOK
<1>4. BaseIsFirst'
  BY <1>1 DEF Inv, BaseIsFirst
<1>5. base # Unset => base' = base /\ first' = first
  BY <1>1 DEF Inv, BaseIsFirst
<1>6. WalletsStayInTheSandbox'
  BY <1>1, <1>5, UnsetIsNoBase DEF Inv, BaseIsFirst, WalletsStayInTheSandbox
<1> QED
  BY <1>2, <1>3, <1>4, <1>6 DEF Inv

LEMMA InvokeInv ==
    ASSUME Inv, NEW t \in Threads, NEW r \in Requests, NEW d \in Names \cup {Unset}, Invoke(t, r, d)
    PROVE  Inv'
<1>1. /\ call' = [call EXCEPT ![t] = [Idle EXCEPT !.at = "received", !.request = r, !.dir = d]]
      /\ UNCHANGED <<base, first, leads, existing, wallets>>
  BY DEF Invoke, sandbox, disk
<1>2. [Idle EXCEPT !.at = "received", !.request = r, !.dir = d] \in Call
  BY DEF Idle, Call, Running, Answers
<1>3. call' \in [Threads -> Call] /\ \A s \in Threads \ {t} : call'[s] = call[s]
  BY <1>1, <1>2 DEF Inv, TypeOK
<1>4. call'[t].at = "received"
  BY <1>1 DEF Inv, TypeOK, Idle
<1>5. Checked(t)'
  BY <1>4 DEF Checked, At
<1> QED
  BY <1>1, <1>3, <1>5, StepOfOne DEF Inv, TypeOK

LEMMA ProcessRequestInv ==
    ASSUME Inv, NEW t \in Threads, ProcessRequest(t)
    PROVE  Inv'
<1>1. UNCHANGED <<base, first, leads, existing, wallets>>
  BY DEF ProcessRequest, sandbox, disk
<1>2. CASE call[t].request = "wallet" /\ call[t].dir # Unset /\ base # Unset
  <2>1. Goto(t, "based") /\ "based" \in Running
    BY <1>2 DEF ProcessRequest, Running
  <2>2. call' \in [Threads -> Call] /\ \A s \in Threads \ {t} : call'[s] = call[s]
    BY <2>1, Moves DEF Inv
  <2>3. call'[t] = [call[t] EXCEPT !.at = "based"]
    BY <2>1, Moves DEF Inv
  <2>4. call'[t].at = "based" /\ call'[t].dir \in Names
    BY <1>2, <2>3 DEF Inv, TypeOK, Call
  <2>5. Checked(t)'
    BY <1>1, <1>2, <2>4 DEF Checked, At
  <2> QED
    BY <1>1, <2>2, <2>5, StepOfOne DEF Inv, TypeOK
<1>3. CASE ~(call[t].request = "wallet" /\ call[t].dir # Unset /\ base # Unset)
  <2>1. Return(t, Reply(call[t].request))
    BY <1>3 DEF ProcessRequest
  <2>2. call[t].request \in Requests
    BY DEF Inv, TypeOK, Call
  <2>3. Reply(call[t].request) \in Answers
    BY <2>2 DEF Reply, Answers, Requests
  <2>4. /\ call' \in [Threads -> Call] /\ Checked(t)'
        /\ \A s \in Threads \ {t} : call'[s] = call[s]
    BY <2>1, <2>3, Ends DEF Inv
  <2> QED
    BY <1>1, <2>4, StepOfOne DEF Inv, TypeOK
<1> QED
  BY <1>2, <1>3

LEMMA CreateDirInv ==
    ASSUME Inv, NEW t \in Threads, CreateDir(t)
    PROVE  Inv'
<1>1. /\ call[t].at = "based" /\ Goto(t, "created") /\ "created" \in Running
      /\ UNCHANGED <<base, first, leads, wallets>>
  BY DEF CreateDir, At, sandbox, Running
<1>2. call[t].dir \in Names /\ base # Unset
  BY <1>1 DEF Inv, Checked
<1>3. existing' \subseteq Places
  BY <1>2 DEF CreateDir, Inv, TypeOK
<1>4. call' \in [Threads -> Call] /\ \A s \in Threads \ {t} : call'[s] = call[s]
  BY <1>1, Moves DEF Inv
<1>5. call'[t] = [call[t] EXCEPT !.at = "created"]
  BY <1>1, Moves DEF Inv
<1>6. call'[t].at = "created" /\ call'[t].dir \in Names
  BY <1>2, <1>5 DEF Inv, TypeOK, Call
<1>7. Checked(t)'
  BY <1>1, <1>2, <1>6 DEF Checked, At
<1> QED
  BY <1>1, <1>3, <1>4, <1>7, StepOfOne DEF Inv, TypeOK

LEMMA CanonicalizeInv ==
    ASSUME Inv, NEW t \in Threads, Canonicalize(t)
    PROVE  Inv'
<1> DEFINE place == leads[call[t].dir]
<1>1. call[t].at = "created" /\ UNCHANGED <<base, first, leads, existing, wallets>>
  BY DEF Canonicalize, At, sandbox, disk
<1>2. base # Unset /\ place \in Places
  BY <1>1 DEF Inv, TypeOK, Checked
<1>3. CASE place \in existing
  <2>1. call' = [call EXCEPT ![t].at = "resolved", ![t].place = place]
    BY <1>3 DEF Canonicalize
  <2> HIDE DEF place
  <2>2. call'[t] = [call[t] EXCEPT !.at = "resolved", !.place = place]
    BY <2>1 DEF Inv, TypeOK
  <2>3. call[t] \in Call
    BY DEF Inv, TypeOK
  <2>4. call'[t] \in Call /\ call'[t].at = "resolved" /\ call'[t].place = place
    BY <1>2, <2>2, <2>3 DEF Call, Running
  <2>5. call' \in [Threads -> Call] /\ \A s \in Threads \ {t} : call'[s] = call[s]
    BY <2>1, <2>4 DEF Inv, TypeOK
  <2>6. Checked(t)'
    BY <1>1, <1>2, <2>4 DEF Checked, At
  <2> QED
    BY <1>1, <2>5, <2>6, StepOfOne DEF Inv, TypeOK
<1>4. CASE place \notin existing
  <2>1. Return(t, "error") /\ "error" \in Answers
    BY <1>4 DEF Canonicalize, Answers
  <2>2. /\ call' \in [Threads -> Call] /\ Checked(t)'
        /\ \A s \in Threads \ {t} : call'[s] = call[s]
    BY <2>1, Ends DEF Inv
  <2> QED
    BY <1>1, <2>2, StepOfOne DEF Inv, TypeOK
<1> QED
  BY <1>3, <1>4

LEMMA CheckSandboxInv ==
    ASSUME Inv, NEW t \in Threads, CheckSandbox(t)
    PROVE  Inv'
<1>1. call[t].at = "resolved" /\ UNCHANGED <<base, first, leads, existing, wallets>>
  BY DEF CheckSandbox, At, sandbox, disk
<1>2. call[t].place \in Places /\ base # Unset
  BY <1>1 DEF Inv, Checked, At
<1>3. CASE leads[base] \in existing /\ call[t].place \in Under[leads[base]]
  <2>1. Goto(t, "valid") /\ "valid" \in Running
    BY <1>3 DEF CheckSandbox, Running
  <2>2. call' \in [Threads -> Call] /\ \A s \in Threads \ {t} : call'[s] = call[s]
    BY <2>1, Moves DEF Inv
  <2>3. call'[t] = [call[t] EXCEPT !.at = "valid"]
    BY <2>1, Moves DEF Inv
  <2>4. call'[t].at = "valid" /\ call'[t].place = call[t].place
    BY <2>3 DEF Inv, TypeOK, Call
  <2>5. Checked(t)'
    BY <1>1, <1>2, <1>3, <2>4 DEF Checked, At
  <2> QED
    BY <1>1, <2>2, <2>5, StepOfOne DEF Inv, TypeOK
<1>4. CASE ~(leads[base] \in existing /\ call[t].place \in Under[leads[base]])
  <2>1. Return(t, "error") /\ "error" \in Answers
    BY <1>4 DEF CheckSandbox, Answers
  <2>2. /\ call' \in [Threads -> Call] /\ Checked(t)'
        /\ \A s \in Threads \ {t} : call'[s] = call[s]
    BY <2>1, Ends DEF Inv
  <2> QED
    BY <1>1, <2>2, StepOfOne DEF Inv, TypeOK
<1> QED
  BY <1>3, <1>4

LEMMA WriteInv ==
    ASSUME Inv, NEW t \in Threads, Write(t)
    PROVE  Inv'
<1> DEFINE w == [path |-> call[t].place, place |-> leads[call[t].place]]
<1>1. /\ call[t].at = "valid" /\ UNCHANGED <<call, base, first, leads>>
      /\ existing' = existing \cup {w.place} /\ wallets' = wallets \cup {w}
  BY DEF Write, At, sandbox
<1>2. call[t].place \in Places /\ base # Unset /\ call[t].place \in Under[leads[base]]
  BY <1>1 DEF Inv, Checked, At
<1>3. w \in [path : Places, place : Places] /\ w.place \in Places
  BY <1>2 DEF Inv, TypeOK
<1>4. Excused(w)
  BY <1>2 DEF Excused
<1> HIDE DEF w
<1>5. Checked(t)'
  BY <1>1 DEF Inv, Checked, At
<1>6. /\ existing' \subseteq Places /\ wallets' \subseteq [path : Places, place : Places]
      /\ \A x \in wallets' : x \in wallets \/ Excused(x)
  BY <1>1, <1>3, <1>4 DEF Inv, TypeOK
<1> QED
  BY <1>1, <1>5, <1>6, StepOfOne DEF Inv, TypeOK

LEMMA FinishInv ==
    ASSUME Inv, NEW t \in Threads, Finish(t)
    PROVE  Inv'
<1>1. UNCHANGED <<base, first, leads, existing, wallets>>
  BY DEF Finish, sandbox, disk
<1>2. CASE \E a \in {"ok", "error"} : Return(t, a)
  <2>1. /\ call' \in [Threads -> Call] /\ Checked(t)'
        /\ \A s \in Threads \ {t} : call'[s] = call[s]
    BY <1>2, Ends DEF Inv, Answers
  <2> QED
    BY <1>1, <2>1, StepOfOne DEF Inv, TypeOK
<1>3. CASE Goto(t, "panicking")
  <2>1. "panicking" \in Running
    BY DEF Running
  <2>2. call' \in [Threads -> Call] /\ \A s \in Threads \ {t} : call'[s] = call[s]
    BY <1>3, <2>1, Moves DEF Inv
  <2>3. call'[t] = [call[t] EXCEPT !.at = "panicking"]
    BY <1>3, <2>1, Moves DEF Inv
  <2>4. call'[t].at = "panicking"
    BY <2>3 DEF Inv, TypeOK, Call
  <2>5. Checked(t)'
    BY <2>4 DEF Checked, At
  <2> QED
    BY <1>1, <2>2, <2>5, StepOfOne DEF Inv, TypeOK
<1> QED
  BY <1>2, <1>3 DEF Finish

LEMMA CatchUnwindInv ==
    ASSUME Inv, NEW t \in Threads, CatchUnwind(t)
    PROVE  Inv'
<1>1. /\ Return(t, "error") /\ "error" \in Answers
      /\ UNCHANGED <<base, first, leads, existing, wallets>>
  BY DEF CatchUnwind, sandbox, disk, Answers
<1>2. /\ call' \in [Threads -> Call] /\ Checked(t)'
      /\ \A s \in Threads \ {t} : call'[s] = call[s]
  BY <1>1, Ends DEF Inv
<1> QED
  BY <1>1, <1>2, StepOfOne DEF Inv, TypeOK

LEMMA FreeStringInv ==
    ASSUME Inv, NEW t \in Threads, FreeString(t)
    PROVE  Inv'
<1>1. call' = [call EXCEPT ![t] = Idle] /\ UNCHANGED <<base, first, leads, existing, wallets>>
  BY DEF FreeString, sandbox, disk
<1>2. Idle \in Call
  BY DEF Idle, Call, Running, Requests, Answers
<1>3. call' \in [Threads -> Call] /\ \A s \in Threads \ {t} : call'[s] = call[s]
  BY <1>1, <1>2 DEF Inv, TypeOK
<1>4. call'[t].at = "idle"
  BY <1>1 DEF Inv, TypeOK, Idle
<1>5. Checked(t)'
  BY <1>4 DEF Checked, At
<1> QED
  BY <1>1, <1>3, <1>5, StepOfOne DEF Inv, TypeOK

\* A change of the file system alone: the data directories stay where they are, and a
\* path on which a directory was replaced does not lead to itself again.
LEMMA Elsewhere ==
    ASSUME Inv, UNCHANGED <<call, base, first, existing, wallets>>,
           leads' \in [Names \cup Places -> Places],
           \A b \in Bases : leads'[b] = leads[b],
           \A p \in Places : leads[p] # p => leads'[p] # p
    PROVE  Inv'
<1>1. TypeOK' /\ BaseIsFirst'
  BY DEF Inv, TypeOK, BaseIsFirst
<1>2. ASSUME NEW t \in Threads  PROVE Checked(t)'
  BY OthersKeep DEF Inv, TypeOK
<1>3. ASSUME NEW w \in wallets  PROVE Excused(w)'
  <2>1. Excused(w) /\ w.path \in Places /\ base \in Bases \cup {Unset}
    BY WalletsAreExcused DEF Inv, TypeOK
  <2> QED
    BY <2>1 DEF Excused
<1>4. WalletsStayInTheSandbox'
  BY <1>1, <1>3, UnsetIsNoBase DEF TypeOK, BaseIsFirst, WalletsStayInTheSandbox, Excused
<1> QED
  BY <1>1, <1>2, <1>4 DEF Inv

LEMMA RelinkInv ==
    ASSUME Inv, NEW d \in Names, NEW p \in Places, Relink(d, p)
    PROVE  Inv'
<1>1. /\ d \notin Bases /\ leads' = [leads EXCEPT ![d] = p]
      /\ UNCHANGED <<call, base, first, existing, wallets>>
  BY DEF Relink, sandbox
<1>2. leads' \in [Names \cup Places -> Places]
  BY <1>1 DEF Inv, TypeOK
<1>3. /\ \A b \in Bases : leads'[b] = leads[b]
      /\ \A q \in Places : leads'[q] = leads[q]
  BY <1>1, NameAssumption DEF Inv, TypeOK
<1> QED
  BY <1>1, <1>2, <1>3, Elsewhere

LEMMA ReplaceInv ==
    ASSUME Inv, NEW d \in Places, Replace(d)
    PROVE  Inv'
<1>1. /\ UNCHANGED <<call, base, first, existing, wallets>>
      /\ \A b \in Bases : leads[b] \notin Under[d]
  BY DEF Replace, sandbox
<1>2. PICK into \in [Under[d] -> {p \in Places \ Under[d] : leads[p] = p}] :
          leads' = [n \in Names \cup Places |->
                     IF leads[n] \in Under[d] THEN into[leads[n]] ELSE leads[n]]
  BY DEF Replace
<1>3. leads \in [Names \cup Places -> Places]
  BY DEF Inv, TypeOK
<1>4. ASSUME NEW n \in Names \cup Places
      PROVE  /\ leads'[n] = IF leads[n] \in Under[d] THEN into[leads[n]] ELSE leads[n]
             /\ leads'[n] \in Places
             /\ leads'[n] = leads[n] \/ leads[leads'[n]] = leads'[n]
  BY <1>2, <1>3
<1>5. leads' \in [Names \cup Places -> Places]
  BY <1>2, <1>4
<1>6. \A b \in Bases : leads'[b] = leads[b]
  BY <1>1, <1>4, NameAssumption
<1>7. \A p \in Places : leads[p] # p => leads'[p] # p
  BY <1>4
<1> QED
  BY <1>1, <1>5, <1>6, <1>7, Elsewhere

LEMMA NextInv == Inv /\ [Next]_vars => Inv'
<1> SUFFICES ASSUME Inv, [Next]_vars  PROVE Inv'
  OBVIOUS
<1>1. ASSUME NEW t \in Threads, Step(t)  PROVE Inv'
  BY <1>1, ProcessRequestInv, CreateDirInv, CanonicalizeInv, CheckSandboxInv, WriteInv,
     FinishInv, CatchUnwindInv DEF Step
<1>2. CASE UNCHANGED vars
  <2>1. UNCHANGED <<call, base, first, leads, existing, wallets>>
    BY <1>2 DEF vars, sandbox, disk
  <2>2. TypeOK' /\ BaseIsFirst' /\ WalletsStayInTheSandbox'
    BY <2>1 DEF Inv, TypeOK, BaseIsFirst, WalletsStayInTheSandbox
  <2>3. \A t \in Threads : Checked(t)'
    BY <2>1 DEF Inv, Checked, At
  <2> QED
    BY <2>2, <2>3 DEF Inv
<1> QED
  BY <1>1, <1>2, SetBaseDirInv, InvokeInv, FreeStringInv, RelinkInv, ReplaceInv DEF Next

-----------------------------------------------------------------------------
\* The state of the calls and of the file system keeps its types: in particular no
\* directory is made, and no place found, for a request that names none.
THEOREM TypeCorrect == Spec => []TypeOK
<1>1. Inv => TypeOK
  BY DEF Inv
<1> QED
  BY <1>1, InitInv, NextInv, PTL DEF Spec

\* Wallets are only written below the first data directory that was set, although names
\* are resolved long before they are used and may lead elsewhere by then; what is written
\* elsewhere was written by a path on which a directory has been replaced by a link since
\* the path was found (wallet-ffi/src/lib.rs:95-130, wallet-core/src/wallet.rs:78-98).
THEOREM SandboxHolds == Spec => []WalletsStayInTheSandbox
<1>1. Inv => WalletsStayInTheSandbox
  BY DEF Inv
<1> QED
  BY <1>1, InitInv, NextInv, PTL DEF Spec
=============================================================================
