------------------------------- MODULE Wallet -------------------------------
(***************************************************************************)
(* The life of one wallet directory: create_wallet, import_wallet and the  *)
(* loads of wallet-core/src/wallet.rs, called through the handlers of      *)
(* wallet-ffi/src/lib.rs.  invoke (lib.rs:45-60) takes no lock, so calls   *)
(* on different threads interleave between any two file operations; a file *)
(* operation may fail, and the process may be killed (its files stay: what *)
(* a power loss does to a single file is the subject of WriteAtomic).      *)
(*                                                                         *)
(* A share is what seal_share seals; a set of shares stands for the list   *)
(* handed to a call, since a repeated share is refused like a wrong count. *)
(* Calls that fail before they change anything are stutters.               *)
(***************************************************************************)
EXTENDS Integers, FiniteSets

CONSTANTS
    Keys,          \* group keys the generator draws, each once
    Passphrases,
    Splits,        \* <<threshold, n>> pairs a caller asks for
    Callers,       \* threads that call invoke
    Absent,        \* no such file
    Torn,          \* a pubkey file that fs::write has only truncated
    Imports,       \* the host calls import_wallet
    IoFailures,    \* file operations and sealing may fail
    Kills          \* the process may be killed

ASSUME SplitAssumption ==
    /\ Splits # {}
    /\ \A s \in Splits : s \in (2 .. 255) \X (2 .. 255) /\ s[1] <= s[2]

ASSUME NameAssumption == Absent # Torn /\ {Absent, Torn} \cap Keys = {}

ASSUME PassphraseAssumption == Passphrases # {}

ASSUME SwitchAssumption == {Imports, IoFailures, Kills} \subseteq BOOLEAN

Indices == UNION {1 .. s[2] : s \in Splits}

Share == [key : Keys, index : Indices, threshold : {s[1] : s \in Splits}, pass : Passphrases]

ASSUME ShareAssumption == Absent \notin Share

\* Mixing the shares of several keys interpolates to a key of its own, which the
\* points of the mixture stand for.
Mixtures == SUBSET (Keys \X Indices)

Addresses == Keys \cup Mixtures

VARIABLES
    shareFile,   \* share_<index>.dat
    pubFile,     \* pubkey
    origin,      \* which call wrote pubFile last (no code keeps it)
    held,        \* external shares that create_wallet has returned to the host
    reported,    \* the addresses create_wallet has returned
    pc, pass,    \* per caller: where its call is, and its passphrase
    dealt,       \* per caller: the shares in its memory
    address,     \* per caller: the public key in its memory
    last,        \* the last send or unlock that returned
    drawn        \* the keys the generator has drawn

files == <<shareFile, pubFile, origin>>

host == <<held, reported>>

memory == <<pc, pass, dealt, address>>

vars == <<files, host, memory, last, drawn>>

Steps == {"idle", "split", "ready", "truncated", "written", "loaded", "opened"}

Result == [call : {"none", "send", "unlock"}, ok : BOOLEAN, address : Addresses,
           pass : Passphrases, opened : SUBSET Share]

TypeOK ==
    /\ shareFile \in [Indices -> Share \cup {Absent}]
    /\ pubFile \in Addresses \cup {Absent, Torn}
    /\ origin \in {"none", "create", "import"}
    /\ held \subseteq Share
    /\ reported \subseteq Keys
    /\ pc \in [Callers -> Steps]
    /\ pass \in [Callers -> Passphrases]
    /\ dealt \in [Callers -> SUBSET Share]
    /\ address \in [Callers -> Addresses]
    /\ last \in Result
    /\ drawn \subseteq Keys

NoPass == CHOOSE p \in Passphrases : TRUE

Init ==
    /\ shareFile = [i \in Indices |-> Absent]
    /\ pubFile = Absent
    /\ origin = "none"
    /\ held = {}
    /\ reported = {}
    /\ pc = [c \in Callers |-> "idle"]
    /\ pass = [c \in Callers |-> NoPass]
    /\ dealt = [c \in Callers |-> {}]
    /\ address = [c \in Callers |-> {}]
    /\ drawn = {}
    /\ last = [call |-> "none", ok |-> FALSE, address |-> {}, pass |-> NoPass, opened |-> {}]

-----------------------------------------------------------------------------
(* Shamir reconstruction and the share files *)

\* The checks of reconstruct: exactly the declared threshold, no index twice.
Reconstructs(shares) ==
    /\ shares # {}
    /\ \A s \in shares : s.threshold = Cardinality(shares)
    /\ \A r, s \in shares : r.index = s.index => r = s

\* The key reconstruct interpolates.
KeyOf(shares) ==
    IF \E k \in Keys : \A s \in shares : s.key = k
    THEN CHOOSE k \in Keys : \A s \in shares : s.key = k
    ELSE {<<s.key, s.index>> : s \in shares}

\* split; the mutant counts from zero, where the secret itself lies.
Deal_FromZero(k, split, p) ==
    {[key |-> k, index |-> i, threshold |-> split[1], pass |-> p] : i \in 0 .. split[2] - 1}

Deal(k, split, p) ==
    {[key |-> k, index |-> i, threshold |-> split[1], pass |-> p] : i \in 1 .. split[2]}

\* load_public_key: the file exists and its bytes are a key.
PublicKeyLoads == pubFile \notin {Absent, Torn}

\* load_shares(dir, pass, &[1])
LocalShareOpens(p) == shareFile[1] # Absent /\ shareFile[1].pass = p

OpensUnder(shares, p) == \A s \in shares : s.pass = p

-----------------------------------------------------------------------------
(* create_wallet and import_wallet *)

Move(c, step) == pc' = [pc EXCEPT ![c] = step]

\* generate_and_split_key
BeginCreate(c, split, p) ==
    /\ pc[c] = "idle"
    /\ \E k \in Keys \ drawn :
        /\ drawn' = drawn \cup {k}
        /\ dealt' = [dealt EXCEPT ![c] = Deal(k, split, p)]
        /\ address' = [address EXCEPT ![c] = k]
    /\ pass' = [pass EXCEPT ![c] = p]
    /\ Move(c, "split")
    /\ UNCHANGED <<files, host, last>>

\* The mutant goes on when the file cannot be written.
SaveShare_IgnoresError(c) ==
    /\ pc[c] = "split"
    /\ \/ \E s \in dealt[c] : s.index = 1 /\ shareFile' = [shareFile EXCEPT ![1] = s]
       \/ IoFailures /\ UNCHANGED shareFile
    /\ Move(c, "ready")
    /\ UNCHANGED <<pubFile, origin, host, pass, dealt, address, last, drawn>>

\* The loop over the shares: index 1 goes to its file, whole or not at all, the
\* others are sealed in memory.
SaveShare(c) ==
    /\ pc[c] = "split"
    /\ \E s \in dealt[c] : s.index = 1 /\ shareFile' = [shareFile EXCEPT ![1] = s]
    /\ Move(c, "ready")
    /\ UNCHANGED <<pubFile, origin, host, pass, dealt, address, last, drawn>>

\* import_wallet opens every share, reconstructs with no key to check against,
\* and saves no share.
BeginImport(c, shares, p) ==
    /\ Imports
    /\ pc[c] = "idle"
    /\ Cardinality(shares) >= 2
    /\ OpensUnder(shares, p)
    /\ Reconstructs(shares)
    /\ address' = [address EXCEPT ![c] = KeyOf(shares)]
    /\ pass' = [pass EXCEPT ![c] = p]
    /\ Move(c, "ready")
    /\ UNCHANGED <<files, host, dealt, last, drawn>>

\* fs::write opens with O_TRUNC, ...
TruncatePubkey(c) ==
    /\ pc[c] = "ready"
    /\ pubFile' = Torn
    /\ Move(c, "truncated")
    /\ UNCHANGED <<shareFile, origin, host, pass, dealt, address, last, drawn>>

\* ... then writes.
WritePubkey(c) ==
    /\ pc[c] = "truncated"
    /\ pubFile' = address[c]
    /\ origin' = IF dealt[c] = {} THEN "import" ELSE "create"
    /\ Move(c, "written")
    /\ UNCHANGED <<shareFile, host, pass, dealt, address, last, drawn>>

Forget(c) ==
    /\ dealt' = [dealt EXCEPT ![c] = {}]
    /\ address' = [address EXCEPT ![c] = {}]
    /\ pass' = [pass EXCEPT ![c] = NoPass]
    /\ Move(c, "idle")

External(shares) == {s \in shares : s.index # 1}

\* The response: create_wallet hands its address and the external shares out.
Respond(c) ==
    /\ pc[c] = "written"
    /\ held' = held \cup External(dealt[c])
    /\ reported' = reported \cup {s.key : s \in dealt[c]}
    /\ Forget(c)
    /\ UNCHANGED <<files, last, drawn>>

-----------------------------------------------------------------------------
(* send_transaction and unlock_wallet *)

\* The address the chain id, nonce and fees are then fetched for.
BeginSend(c) ==
    /\ pc[c] = "idle"
    /\ PublicKeyLoads
    /\ address' = [address EXCEPT ![c] = pubFile]
    /\ Move(c, "loaded")
    /\ UNCHANGED <<files, host, pass, dealt, last, drawn>>

\* The local share, if it opens; if not, only where there are external ones.
LocalShare(p) == IF LocalShareOpens(p) THEN {shareFile[1]} ELSE {}

\* reconstruct_and_verify against the loaded key, then the signature.
FinishSend(c, external, p) ==
    /\ pc[c] = "loaded"
    /\ LET opened == LocalShare(p) \cup external
           ok == /\ OpensUnder(external, p)
                 /\ Reconstructs(opened)
                 /\ KeyOf(opened) = address[c]
       IN  last' = [call |-> "send", ok |-> ok, address |-> address[c],
                    pass |-> p, opened |-> opened]
    /\ Forget(c)
    /\ UNCHANGED <<files, host, drawn>>

BeginUnlock(c, p) ==
    /\ pc[c] = "idle"
    /\ LocalShareOpens(p)
    /\ pass' = [pass EXCEPT ![c] = p]
    /\ Move(c, "opened")
    /\ UNCHANGED <<files, host, dealt, address, last, drawn>>

FinishUnlock(c) ==
    /\ pc[c] = "opened"
    /\ last' = [call |-> "unlock", ok |-> PublicKeyLoads, pass |-> pass[c], opened |-> {},
                address |-> IF PublicKeyLoads THEN pubFile ELSE {}]
    /\ Forget(c)
    /\ UNCHANGED <<files, host, drawn>>

-----------------------------------------------------------------------------
(* Failures *)

\* The mutant seals the external shares only after the pubkey file is written.
IoFail_SealsLast(c) ==
    /\ IoFailures
    /\ pc[c] \in {"split", "ready", "truncated", "written"}
    /\ Forget(c)
    /\ UNCHANGED <<files, host, last, drawn>>

\* Any `?` of create_wallet or import_wallet: nothing is rolled back.
IoFail(c) ==
    /\ IoFailures
    /\ pc[c] \in {"split", "ready", "truncated"}
    /\ Forget(c)
    /\ UNCHANGED <<files, host, last, drawn>>

Kill ==
    /\ Kills
    /\ pc' = [c \in Callers |-> "idle"]
    /\ pass' = [c \in Callers |-> NoPass]
    /\ dealt' = [c \in Callers |-> {}]
    /\ address' = [c \in Callers |-> {}]
    /\ UNCHANGED <<files, host, last, drawn>>

Next ==
    \/ \E c \in Callers :
          \/ \E split \in Splits, p \in Passphrases : BeginCreate(c, split, p)
          \/ \E shares \in SUBSET held, p \in Passphrases :
                BeginImport(c, shares, p) \/ FinishSend(c, shares, p)
          \/ \E p \in Passphrases : BeginUnlock(c, p)
          \/ SaveShare(c)
          \/ TruncatePubkey(c)
          \/ WritePubkey(c)
          \/ Respond(c)
          \/ BeginSend(c)
          \/ FinishUnlock(c)
          \/ IoFail(c)
    \/ Kill

Spec == Init /\ [][Next]_vars

-----------------------------------------------------------------------------
(* Properties *)

Stored == {shareFile[i] : i \in Indices} \ {Absent}

\* Some shares, all sealed under one passphrase as every call requires, reconstruct k.
Recoverable(k, shares) ==
    \E quorum \in SUBSET shares :
        /\ Reconstructs(quorum)
        /\ KeyOf(quorum) = k
        /\ \E p \in Passphrases : OpensUnder(quorum, p)

\* However calls interleave and whichever of them fail, the public key a host can
\* load is one whose key can be had back: a quorum for it is in the directory, with
\* the host, or still in the memory of the call that will hand it out.  It holds
\* because create_wallet writes the pubkey file last (wallet.rs:83-97), and needs
\* splits with a share to spare: two creates in one directory share one share file.
AddressIsRecoverable ==
    PublicKeyLoads => Recoverable(pubFile, held \cup Stored \cup UNION {dealt[c] : c \in Callers})

\* One caller that creates and imports as often as it likes, failed writes and kills:
\* beside an address that create_wallet wrote lies that wallet's local share, or the
\* share of a create that was cut off later and never returned an address; never the
\* share of another wallet that the host has been told of. It holds because the share
\* is on disk before the address is (wallet.rs:85-95). An import saves no share, so
\* the share beside its address may be any wallet's.
LocalShareBeforeAddress ==
    PublicKeyLoads /\ origin = "create" =>
        /\ shareFile[1] # Absent
        /\ shareFile[1].key = pubFile \/ shareFile[1].key \notin reported

\* "If the error was actually a wrong passphrase, the loop below will catch it"
\* (lib.rs:522-523): a send that signs had the local share's passphrase, if there is one.
WrongPassphraseIsCaught ==
    [][last'.call = "send" /\ last'.ok
           => shareFile[1] = Absent \/ shareFile[1].pass = last'.pass]_last
=============================================================================
