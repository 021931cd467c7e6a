-------------------------------- MODULE Send --------------------------------
(***************************************************************************)
(* What one account asks of the network and sends to it: the handlers      *)
(* get_balance, get_erc20_balance, send_transaction and                    *)
(* send_erc20_transaction of wallet-ffi/src/lib.rs, and cmd_balance and    *)
(* cmd_send of wallet-cli/src/main.rs, which take the same steps.  Chain   *)
(* id, and then nonce or balance, are asked of the primary endpoint and    *)
(* cross-checked against every other (wallet-rpc/src/lib.rs), fees are     *)
(* asked of the primary alone, and the signed transaction is handed to the *)
(* primary alone.                                                          *)
(*                                                                         *)
(* Endpoint 1 is the primary.  An honest endpoint tells what it knows of   *)
(* the chain it serves, which may lag; the others answer anything; every   *)
(* query may fail or time out.  The calls interleave (the FFI takes no     *)
(* lock), each may be a retry of a payment that another has failed to      *)
(* report, and the account may also be used from another device.           *)
(***************************************************************************)
EXTENDS Integers, Sequences, Fees

CONSTANTS
    Calls,         \* calls ever made, a bound
    Payments,      \* what the user wants paid: recipient, value, calldata
    Inquiry,       \* what a call asks for that only wants to know a balance
    Elsewhere,     \* a transaction of this account sent by another device
    ChainIds,
    Endpoints,     \* how many are configured
    Honest,        \* those that do not lie
    Serves,        \* the chain of each honest endpoint
    MaxLag,        \* how many of the account's transactions an honest one may miss
    MaxNonce,      \* bound on the account's transactions
    BaseFees       \* what the primary may report, any of 0 .. MaxU128

ASSUME EndpointAssumption ==
    /\ Endpoints \in Nat \ {0}
    /\ Honest \subseteq 1 .. Endpoints
    /\ Serves \in [Honest -> ChainIds]

ASSUME ChainAssumption == ChainIds # {}

ASSUME BoundAssumption == MaxLag \in Nat /\ MaxNonce \in Nat

ASSUME ElsewhereAssumption == Elsewhere \notin Payments

ASSUME InquiryAssumption == Inquiry \notin Payments

ASSUME BaseFeeAssumption == BaseFees \subseteq 0 .. MaxU128

Transactions == [payment : Payments, nonce : 0 .. MaxNonce, signedAt : 0 .. MaxNonce]

VARIABLES
    pc,        \* where each call is
    chain,     \* the chain id the user asks for
    payment,   \* what it pays, or Inquiry
    seen,      \* how many transactions the account had when it began, later when it signed
    asked,     \* how many endpoints have answered the query in progress with ...
    value,     \* ... this value
    base,      \* the base fee it goes by
    pool,      \* signed transactions that wait in the network
    mined      \* the account's mined transactions, by nonce, on the chain of the honest endpoints

request == <<chain, payment>>

agreement == <<asked, value>>

vars == <<pc, request, seen, agreement, base, pool, mined>>

network == <<pool, mined>>

Returned == {"ok", "error"}

Steps == {"idle", "chain", "nonce", "balance", "fees", "sign", "broadcast"} \cup Returned

NoChain == CHOOSE i \in ChainIds : TRUE

TypeOK ==
    /\ pc \in [Calls -> Steps]
    /\ chain \in [Calls -> ChainIds]
    /\ payment \in [Calls -> Payments \cup {Inquiry}]
    /\ seen \in [Calls -> 0 .. MaxNonce]
    /\ asked \in [Calls -> 0 .. Endpoints]
    /\ value \in [Calls -> ChainIds \cup 0 .. MaxNonce]
    /\ base \in [Calls -> 0 .. MaxU128]
    /\ pool \subseteq Transactions
    /\ mined \in Seq(Transactions \cup {Elsewhere})
    /\ Len(mined) <= MaxNonce

Init ==
    /\ pc = [c \in Calls |-> "idle"]
    /\ chain = [c \in Calls |-> NoChain]
    /\ payment = [c \in Calls |-> Inquiry]
    /\ seen = [c \in Calls |-> 0]
    /\ asked = [c \in Calls |-> 0]
    /\ value = [c \in Calls |-> 0]
    /\ base = [c \in Calls |-> 0]
    /\ pool = {}
    /\ mined = <<>>

Goto(c, step) == pc' = [pc EXCEPT ![c] = step]

-----------------------------------------------------------------------------
(* The calls *)

Begin(c, i, p) ==
    /\ pc[c] = "idle"
    /\ Goto(c, "chain")
    /\ chain' = [chain EXCEPT ![c] = i]
    /\ payment' = [payment EXCEPT ![c] = p]
    /\ seen' = [seen EXCEPT ![c] = Len(mined)]
    /\ UNCHANGED <<agreement, base, network>>

SendTransaction(c) == \E i \in ChainIds, p \in Payments : Begin(c, i, p)

GetBalance(c) == \E i \in ChainIds : Begin(c, i, Inquiry)

\* What endpoint e may answer.  transaction_count and balance ask for the block
\* "latest", which pending transactions do not count in; a balance is told by the
\* number of transactions that made it.
Answers(e, query) ==
    IF query = "chain" THEN IF e \in Honest THEN {Serves[e]} ELSE ChainIds
    ELSE IF e \in Honest THEN {n \in 0 .. Len(mined) : n + MaxLag >= Len(mined)}
    ELSE 0 .. MaxNonce

Asking(c) == pc[c] \in {"chain", "nonce", "balance"}

AskPrimary(c) ==
    /\ Asking(c)
    /\ asked[c] = 0
    /\ \E v \in Answers(1, pc[c]) : value' = [value EXCEPT ![c] = v]
    /\ asked' = [asked EXCEPT ![c] = 1]
    /\ UNCHANGED <<pc, request, seen, base, network>>

\* The mutants go one endpoint too far, count an endpoint that fails as one that
\* agrees, and begin anew on a disagreement.
CrossCheck_OneTooMany(c) ==
    /\ Asking(c)
    /\ asked[c] \in 1 .. Endpoints
    /\ value[c] \in Answers(asked[c] + 1, pc[c])
    /\ asked' = [asked EXCEPT ![c] = @ + 1]
    /\ UNCHANGED <<pc, request, seen, value, base, network>>

CrossCheck_IgnoresErrors(c) ==
    /\ Asking(c)
    /\ asked[c] \in 1 .. Endpoints - 1
    /\ asked' = [asked EXCEPT ![c] = @ + 1]
    /\ UNCHANGED <<pc, request, seen, value, base, network>>

CrossCheck_Retries(c) ==
    /\ Asking(c)
    /\ asked[c] \in 1 .. Endpoints - 1
    /\ \E v \in Answers(asked[c] + 1, pc[c]) :
          asked' = [asked EXCEPT ![c] = IF v = value[c] THEN @ + 1 ELSE 0]
    /\ UNCHANGED <<pc, request, seen, value, base, network>>

\* try_cross_check, one endpoint after the other; anything but the primary's value
\* is a Fail.
CrossCheck(c) ==
    /\ Asking(c)
    /\ asked[c] \in 1 .. Endpoints - 1
    /\ value[c] \in Answers(asked[c] + 1, pc[c])
    /\ asked' = [asked EXCEPT ![c] = @ + 1]
    /\ UNCHANGED <<pc, request, seen, value, base, network>>

\* Where a call goes on to once its endpoints agree.
After(c) ==
    CASE pc[c] = "chain" -> IF payment[c] = Inquiry THEN "balance" ELSE "nonce"
      [] pc[c] = "nonce" -> "fees"
      [] pc[c] = "balance" -> "ok"

\* The mutant takes the chain the endpoints agree on for the one asked for.
Agreed_AnyChain(c) ==
    /\ Asking(c)
    /\ asked[c] = Endpoints
    /\ Goto(c, After(c))
    /\ asked' = [asked EXCEPT ![c] = 0]
    /\ UNCHANGED <<request, seen, value, base, network>>

Agreed(c) ==
    /\ Asking(c)
    /\ asked[c] = Endpoints
    /\ pc[c] = "chain" => value[c] = chain[c]
    /\ Goto(c, After(c))
    /\ asked' = [asked EXCEPT ![c] = 0]
    /\ UNCHANGED <<request, seen, value, base, network>>

\* fee_suggestion of the primary, then build_unsigned_transfer under the ceiling.
SuggestFees(c) ==
    /\ pc[c] = "fees"
    /\ \E fee \in BaseFees : /\ MaxFeePerGas(fee) <= Ceiling
                             /\ base' = [base EXCEPT ![c] = fee]
    /\ Goto(c, "sign")
    /\ UNCHANGED <<request, seen, agreement, network>>

\* The shares open and the ceremony signs, for the nonce agreed on.
Sign(c) ==
    /\ pc[c] = "sign"
    /\ Goto(c, "broadcast")
    /\ seen' = [seen EXCEPT ![c] = Len(mined)]
    /\ UNCHANGED <<request, agreement, base, network>>

Signed(c) == [payment |-> payment[c], nonce |-> value[c], signedAt |-> seen[c]]

\* send_raw_transaction to the primary alone, whose word is trusted.  An honest one
\* may refuse, or accept and have its answer lost; a lying one may do anything.
Broadcast(c) ==
    /\ pc[c] = "broadcast"
    /\ \E accepted \in BOOLEAN, result \in Returned :
        /\ 1 \in Honest /\ result = "ok" => accepted
        /\ pool' = IF accepted THEN pool \cup {Signed(c)} ELSE pool
        /\ Goto(c, result)
    /\ UNCHANGED <<request, seen, agreement, base, mined>>

\* Before the broadcast, whatever goes wrong ends the call: a transport error or a
\* timeout, a disagreement, another chain, a fee above the ceiling, a failed ceremony.
Fail(c) ==
    /\ pc[c] \notin Returned \cup {"idle", "broadcast"}
    /\ Goto(c, "error")
    /\ UNCHANGED <<request, seen, agreement, base, network>>

Step(c) ==
    \/ AskPrimary(c)
    \/ CrossCheck(c)
    \/ Agreed(c)
    \/ SuggestFees(c)
    \/ Sign(c)
    \/ Broadcast(c)
    \/ Fail(c)

-----------------------------------------------------------------------------
(* The network, external: a transaction is mined when its nonce is next *)

Mine ==
    /\ Len(mined) < MaxNonce
    /\ \E tx \in pool :
        /\ tx.nonce = Len(mined)
        /\ mined' = Append(mined, tx)
        /\ pool' = pool \ {tx}
    /\ UNCHANGED <<pc, request, seen, agreement, base>>

MineElsewhere ==
    /\ Len(mined) < MaxNonce
    /\ mined' = Append(mined, Elsewhere)
    /\ UNCHANGED <<pc, request, seen, agreement, base, pool>>

Next ==
    \/ \E c \in Calls : SendTransaction(c) \/ GetBalance(c) \/ Step(c)
    \/ Mine
    \/ MineElsewhere

\* Every query is under the agent's timeouts, so a call that runs goes on.
Fairness == \A c \in Calls : WF_vars(Step(c))

Spec == Init /\ [][Next]_vars

FairSpec == Spec /\ Fairness

-----------------------------------------------------------------------------
(* Properties *)

\* One honest endpoint is enough: whatever the others, the primary among them,
\* answer, the nonce a call goes on with and the balance a call reports are ones the
\* account had during the call (or missed by that endpoint's lag), never ones ahead
\* of the chain (evm.rs:164-166 and 181-189, lib.rs:84-102 of wallet-rpc).
AnswersAreCurrent ==
    Honest # {} =>
        \A c \in Calls :
            pc[c] \in {"fees", "sign"} \/ (pc[c] = "ok" /\ payment[c] = Inquiry) =>
                value[c] \in 0 .. Len(mined) /\ value[c] + MaxLag >= seen[c]

\* Nobody cross-checks the fee, so the arithmetic has to hold: a transaction that is
\* signed offers the tip on top of at least the base fee reported, never more than
\* the ceiling, and no base fee is so large that doubling it makes it look small
\* (evm.rs:68-74 and 110-143 of wallet-core, evm.rs:215-218 of wallet-rpc).
FeesFit ==
    \A c \in Calls : pc[c] \in {"sign", "broadcast"} =>
        base[c] + PriorityFee <= MaxFeePerGas(base[c]) /\ MaxFeePerGas(base[c]) <= Ceiling

\* A user who retries while an earlier attempt waits in the network pays once: of
\* two mined transactions for one payment, the later one was signed only after
\* the earlier one had been mined.
RetryWhilePendingPaysOnce ==
    Honest # {} =>
        \A i, j \in DOMAIN mined :
            /\ i < j
            /\ Elsewhere \notin {mined[i], mined[j]}
            /\ mined[i].payment = mined[j].payment
            => mined[j].signedAt >= i

\* "a misconfigured or malicious node answering for the wrong chain" (wallet-cli
\* main.rs:183-186): a call that gets as far as asking for nonce or balance is for the
\* chain that every honest endpoint serves.
OnlyTheChainAskedFor ==
    \A c \in Calls : pc[c] \in {"nonce", "balance", "fees", "sign", "broadcast"} =>
        \A e \in Honest : Serves[e] = chain[c]

\* Every call returns, with a result or an error.
CallsReturn == \A c \in Calls : pc[c] # "idle" ~> pc[c] \in Returned
=============================================================================
