------------------------------ MODULE SendProofs ------------------------------
(***************************************************************************)
(* What one honest endpoint gives a call, for any number of endpoints,     *)
(* calls, chains, nonces and fees.                                         *)
(***************************************************************************)
EXTENDS Send, TLAPS

ForPayment == {"nonce", "fees", "sign", "broadcast"}

OnTheChain == {"nonce", "balance", "fees", "sign", "broadcast"}

\* Some honest endpoint is among those that have answered.
Vouched(c) == \E e \in Honest : e <= asked[c]

\* A number the account had during call c, or missed by an honest endpoint's lag.
Current(c) == value[c] \in 0 .. Len(mined) /\ value[c] + MaxLag >= seen[c]

\* The query in progress was not answered before the call began, and the chain every
\* honest endpoint serves is the one its answers, and then the user, name.
ChainIsChecked(c) ==
    /\ pc[c] = "idle" => asked[c] = 0
    /\ pc[c] = "chain" => \A e \in Honest : e <= asked[c] => value[c] = Serves[e]
    /\ pc[c] \in OnTheChain => \A e \in Honest : Serves[e] = chain[c]
    /\ pc[c] \in ForPayment => payment[c] # Inquiry

Settled(c) == pc[c] \in {"fees", "sign"} \/ (pc[c] = "ok" /\ payment[c] = Inquiry)

\* What the call has been told, while it asks and when it goes on.
NumberIsVouched(c) ==
    /\ pc[c] \in {"nonce", "balance"} /\ asked[c] > 0 => value[c] \in 0 .. MaxNonce
    /\ pc[c] \in {"nonce", "balance"} /\ Vouched(c) => Current(c)
    /\ Settled(c) \/ pc[c] = "broadcast" => value[c] \in 0 .. MaxNonce
    /\ Settled(c) /\ Honest # {} => Current(c)
    /\ pc[c] = "broadcast" /\ Honest # {} => value[c] <= seen[c]

FeeIsBounded(c) == pc[c] \in {"sign", "broadcast"} => MaxFeePerGas(base[c]) <= Ceiling

CallInv(c) ==
    /\ seen[c] <= Len(mined)
    /\ ChainIsChecked(c)
    /\ NumberIsVouched(c)
    /\ FeeIsBounded(c)

\* No transaction is ahead of the chain it was signed on, and each is mined in its place.
NetworkInv ==
    Honest # {} =>
        /\ \A tx \in pool : tx.nonce <= tx.signedAt
        /\ \A k \in DOMAIN mined : mined[k] # Elsewhere =>
              mined[k].nonce = k - 1 /\ mined[k].nonce <= mined[k].signedAt

Inv == TypeOK /\ (\A c \in Calls : CallInv(c)) /\ NetworkInv

(***************************************************************************)
(* One saturating operation after the other reaches the ceiling before it  *)
(* hides anything, because the ceiling is below the limit of u128.         *)
(***************************************************************************)
LEMMA FeeCoversBaseAndTip ==
    ASSUME NEW b \in 0 .. MaxU128, MaxFeePerGas(b) <= Ceiling
    PROVE  b + PriorityFee <= MaxFeePerGas(b)
  BY FeeAssumption, CeilingAssumption DEF MaxFeePerGas, Saturated

LEMMA InitInv == Init => Inv
<1> SUFFICES ASSUME Init  PROVE Inv
  OBVIOUS
<1>1. NoChain \in ChainIds
  BY ChainAssumption DEF NoChain
<1>2. TypeOK
  BY <1>1, FeeAssumption, BoundAssumption, EndpointAssumption DEF Init, TypeOK, Steps, Returned
<1>3. \A c \in Calls : CallInv(c)
  BY DEF Init, CallInv, ChainIsChecked, NumberIsVouched, FeeIsBounded, OnTheChain, ForPayment, Settled
<1>4. NetworkInv
  BY DEF Init, NetworkInv
<1> QED
  BY <1>2, <1>3, <1>4 DEF Inv

\* A call is not disturbed by what the others do, nor by what is mined.
LEMMA OthersKeep ==
    ASSUME TypeOK, NEW d \in Calls, CallInv(d), mined' \in Seq(Transactions \cup {Elsewhere}),
           Len(mined) <= Len(mined'),
           pc'[d] = pc[d], chain'[d] = chain[d], payment'[d] = payment[d], seen'[d] = seen[d],
           asked'[d] = asked[d], value'[d] = value[d], base'[d] = base[d]
    PROVE  CallInv(d)'
<1>1. Len(mined) \in Nat /\ Len(mined') \in Nat /\ seen[d] \in Nat
  BY BoundAssumption DEF TypeOK
<1>2. (seen[d] <= Len(mined))'
  BY <1>1 DEF CallInv
<1>3. ChainIsChecked(d)' /\ FeeIsBounded(d)'
  BY DEF CallInv, ChainIsChecked, FeeIsBounded
<1>4. Current(d) => Current(d)'
  BY <1>1, BoundAssumption DEF Current
<1>5. NumberIsVouched(d)'
  BY <1>4 DEF CallInv, NumberIsVouched, Vouched, Settled
<1> QED
  BY <1>2, <1>3, <1>5 DEF CallInv

\* Every step of a call leaves the others, and what is mined, alone.
LEMMA StepOfOne ==
    ASSUME Inv, NEW c \in Calls, CallInv(c)', TypeOK', NetworkInv', UNCHANGED mined,
           \A d \in Calls \ {c} :
              /\ pc'[d] = pc[d] /\ chain'[d] = chain[d] /\ payment'[d] = payment[d]
              /\ seen'[d] = seen[d] /\ asked'[d] = asked[d] /\ value'[d] = value[d]
              /\ base'[d] = base[d]
    PROVE  Inv'
<1>1. ASSUME NEW d \in Calls \ {c}  PROVE CallInv(d)'
  BY OthersKeep DEF Inv, TypeOK
<1> QED
  BY <1>1 DEF Inv

LEMMA BeginInv ==
    ASSUME Inv, NEW c \in Calls, NEW i \in ChainIds, NEW p \in Payments \cup {Inquiry},
           Begin(c, i, p)
    PROVE  Inv'
<1>1. /\ pc[c] = "idle" /\ pc' = [pc EXCEPT ![c] = "chain"]
      /\ chain' = [chain EXCEPT ![c] = i]
      /\ payment' = [payment EXCEPT ![c] = p]
      /\ seen' = [seen EXCEPT ![c] = Len(mined)]
      /\ UNCHANGED <<asked, value, base, pool, mined>>
  BY DEF Begin, Goto, agreement, network
<1>2. TypeOK'
  BY <1>1, BoundAssumption DEF Inv, TypeOK, Steps
<1>3. asked[c] = 0
  BY <1>1 DEF Inv, CallInv, ChainIsChecked
<1>4. \A e \in Honest : e > 0
  BY EndpointAssumption
<1>5. ChainIsChecked(c)'
  BY <1>1, <1>3, <1>4, EndpointAssumption DEF Inv, TypeOK, ChainIsChecked, OnTheChain, ForPayment
<1>6. CallInv(c)'
  BY <1>1, <1>5 DEF Inv, TypeOK, CallInv, NumberIsVouched, FeeIsBounded, Settled
<1>7. NetworkInv'
  BY <1>1 DEF Inv, NetworkInv
<1> QED
  BY <1>1, <1>2, <1>6, <1>7, StepOfOne

(***************************************************************************)
(* What an endpoint may answer is a chain or a number within bounds; an    *)
(* honest one is right about the chain, and about the number up to a lag.  *)
(***************************************************************************)
LEMMA AnswersAreTyped ==
    ASSUME TypeOK, NEW e \in 1 .. Endpoints, NEW query \in {"chain", "nonce", "balance"},
           NEW v \in Answers(e, query)
    PROVE  /\ query = "chain" => v \in ChainIds
           /\ query # "chain" => v \in 0 .. MaxNonce
  BY EndpointAssumption, BoundAssumption DEF TypeOK, Answers

LEMMA HonestAnswers ==
    ASSUME NEW e \in Honest, NEW query \in {"chain", "nonce", "balance"},
           NEW v \in Answers(e, query)
    PROVE  /\ query = "chain" => v = Serves[e]
           /\ query # "chain" => v \in 0 .. Len(mined) /\ v + MaxLag >= Len(mined)
  BY DEF Answers

\* An endpoint that gives the value the call holds, which those before it gave as well.
LEMMA AnsweredInv ==
    ASSUME Inv, NEW c \in Calls, Asking(c), NEW v, asked[c] + 1 \in 1 .. Endpoints,
           asked[c] > 0 => v = value[c],
           v \in Answers(asked[c] + 1, pc[c]),
           value' = [value EXCEPT ![c] = v],
           asked' = [asked EXCEPT ![c] = asked[c] + 1],
           UNCHANGED <<pc, request, seen, base, network>>
    PROVE  Inv'
<1>1. UNCHANGED <<pc, chain, payment, seen, base, pool, mined>>
  BY DEF request, network
<1>2. pc[c] \in {"chain", "nonce", "balance"}
  BY DEF Asking
<1>3. /\ pc[c] = "chain" => v \in ChainIds
      /\ pc[c] # "chain" => v \in 0 .. MaxNonce
  BY <1>2, AnswersAreTyped DEF Inv
<1>4. value'[c] = v /\ asked'[c] = asked[c] + 1 /\ asked[c] \in Nat
  BY EndpointAssumption DEF Inv, TypeOK
<1>5. TypeOK'
  <2>1. v \in ChainIds \cup 0 .. MaxNonce
    BY <1>3
  <2>2. value' \in [Calls -> ChainIds \cup 0 .. MaxNonce]
    BY <2>1 DEF Inv, TypeOK
  <2>3. asked' \in [Calls -> 0 .. Endpoints]
    BY EndpointAssumption DEF Inv, TypeOK
  <2> QED
    BY <1>1, <2>2, <2>3 DEF Inv, TypeOK
<1>6. \A e \in Honest : e \in Nat /\ (e <= asked[c] + 1 => e = asked[c] + 1 \/ e <= asked[c])
  BY <1>4, EndpointAssumption
<1>7. \A e \in Honest : e <= asked[c] => asked[c] > 0
  BY <1>4, EndpointAssumption
<1>8. ASSUME pc[c] = "chain", NEW e \in Honest, e <= asked[c] + 1  PROVE v = Serves[e]
  <2>1. CASE e = asked[c] + 1
    BY <1>8, <2>1, HonestAnswers
  <2>2. CASE e <= asked[c]
    <3>1. v = value[c]
      BY <1>7, <2>2
    <3> QED
      BY <1>8, <2>2, <3>1 DEF Inv, CallInv, ChainIsChecked
  <2> QED
    BY <1>6, <1>8, <2>1, <2>2
<1>9. ChainIsChecked(c)'
  BY <1>1, <1>2, <1>4, <1>8 DEF Inv, CallInv, ChainIsChecked
<1>10. ASSUME pc[c] # "chain", NEW e \in Honest, e <= asked[c] + 1
       PROVE  v \in 0 .. Len(mined) /\ v + MaxLag >= seen[c]
  <2>1. CASE e = asked[c] + 1
    <3>1. v \in 0 .. Len(mined) /\ v + MaxLag >= Len(mined)
      BY <1>2, <1>10, <2>1, HonestAnswers
    <3>2. seen[c] <= Len(mined) /\ seen[c] \in Nat /\ Len(mined) \in Nat
      BY BoundAssumption DEF Inv, TypeOK, CallInv
    <3> QED
      BY <3>1, <3>2, BoundAssumption
  <2>2. CASE e <= asked[c]
    <3>1. v = value[c]
      BY <1>7, <2>2
    <3>2. Current(c)
      BY <1>2, <1>10, <2>2 DEF Inv, CallInv, NumberIsVouched, Vouched
    <3> QED
      BY <3>1, <3>2 DEF Current
  <2> QED
    BY <1>6, <1>10, <2>1, <2>2
<1>11. pc[c] # "chain" /\ Vouched(c)' => Current(c)'
  BY <1>1, <1>4, <1>10 DEF Vouched, Current
<1>12. NumberIsVouched(c)'
  BY <1>1, <1>2, <1>3, <1>4, <1>11 DEF NumberIsVouched, Settled
<1>13. (seen[c] <= Len(mined))' /\ FeeIsBounded(c)'
  BY <1>1 DEF Inv, CallInv, FeeIsBounded
<1>14. CallInv(c)'
  BY <1>9, <1>12, <1>13 DEF CallInv
<1>15. NetworkInv'
  BY <1>1 DEF Inv, NetworkInv
<1>16. \A d \in Calls \ {c} : value'[d] = value[d] /\ asked'[d] = asked[d]
  BY DEF Inv, TypeOK
<1> QED
  BY <1>1, <1>5, <1>14, <1>15, <1>16, StepOfOne

LEMMA AskPrimaryInv ==
    ASSUME Inv, NEW c \in Calls, AskPrimary(c)
    PROVE  Inv'
<1>1. PICK v \in Answers(1, pc[c]) : value' = [value EXCEPT ![c] = v]
  BY DEF AskPrimary
<1>2. /\ Asking(c) /\ asked[c] = 0 /\ asked[c] + 1 = 1
      /\ asked' = [asked EXCEPT ![c] = asked[c] + 1]
      /\ UNCHANGED <<pc, request, seen, base, network>>
  BY DEF AskPrimary
<1>3. asked[c] + 1 \in 1 .. Endpoints /\ ~(asked[c] > 0)
  BY <1>2, EndpointAssumption
<1> QED
  BY <1>1, <1>2, <1>3, AnsweredInv

LEMMA CrossCheckInv ==
    ASSUME Inv, NEW c \in Calls, CrossCheck(c)
    PROVE  Inv'
<1>1. /\ Asking(c) /\ value[c] \in Answers(asked[c] + 1, pc[c])
      /\ asked' = [asked EXCEPT ![c] = asked[c] + 1]
      /\ UNCHANGED <<pc, request, seen, base, network>>
  BY DEF CrossCheck
<1>2. asked[c] + 1 \in 1 .. Endpoints
  BY EndpointAssumption DEF CrossCheck
<1>3. value' = [value EXCEPT ![c] = value[c]]
  BY DEF CrossCheck, Inv, TypeOK
<1> QED
  BY <1>1, <1>2, <1>3, AnsweredInv

LEMMA AgreedInv ==
    ASSUME Inv, NEW c \in Calls, Agreed(c)
    PROVE  Inv'
<1>1. /\ pc[c] \in {"chain", "nonce", "balance"}
      /\ asked[c] = Endpoints
      /\ pc[c] = "chain" => value[c] = chain[c]
      /\ pc' = [pc EXCEPT ![c] = After(c)]
      /\ asked' = [asked EXCEPT ![c] = 0]
      /\ UNCHANGED <<chain, payment, seen, value, base, pool, mined>>
  BY DEF Agreed, Asking, Goto, request, network
<1>2. \A e \in Honest : e <= asked[c] /\ e > 0
  BY <1>1, EndpointAssumption
<1>3. /\ pc[c] = "chain" => After(c) = IF payment[c] = Inquiry THEN "balance" ELSE "nonce"
      /\ pc[c] = "nonce" => After(c) = "fees"
      /\ pc[c] = "balance" => After(c) = "ok"
  BY DEF After
<1>4. pc'[c] = After(c) /\ asked'[c] = 0
  BY <1>1 DEF Inv, TypeOK
<1>5. TypeOK'
  <2>1. After(c) \in Steps
    BY <1>1, <1>3 DEF Steps, Returned
  <2>2. asked' \in [Calls -> 0 .. Endpoints]
    BY <1>1, EndpointAssumption DEF Inv, TypeOK
  <2> QED
    BY <1>1, <2>1, <2>2 DEF Inv, TypeOK
<1>6. pc[c] # "balance" => \A e \in Honest : Serves[e] = chain[c]
  BY <1>1, <1>2 DEF Inv, CallInv, ChainIsChecked, OnTheChain
<1>7. After(c) \in ForPayment => payment[c] # Inquiry
  BY <1>1, <1>3 DEF Inv, CallInv, ChainIsChecked, ForPayment
<1>8. ChainIsChecked(c)'
  BY <1>1, <1>2, <1>3, <1>4, <1>6, <1>7 DEF ChainIsChecked, OnTheChain
<1>9. pc[c] # "chain" => value[c] \in 0 .. MaxNonce
  BY <1>1, EndpointAssumption DEF Inv, CallInv, NumberIsVouched
<1>10. pc[c] # "chain" /\ Honest # {} => Current(c)
  BY <1>1, <1>2 DEF Inv, CallInv, NumberIsVouched, Vouched
<1>11. Current(c) => Current(c)'
  BY <1>1 DEF Current
<1>12. ~Vouched(c)'
  BY <1>2, <1>4, EndpointAssumption DEF Vouched
<1>13. NumberIsVouched(c)'
  BY <1>1, <1>3, <1>4, <1>9, <1>10, <1>11, <1>12 DEF NumberIsVouched, Settled
<1>14. CallInv(c)'
  BY <1>1, <1>3, <1>4, <1>8, <1>13 DEF Inv, CallInv, FeeIsBounded
<1>15. NetworkInv'
  BY <1>1 DEF Inv, NetworkInv
<1>16. \A d \in Calls \ {c} : pc'[d] = pc[d] /\ asked'[d] = asked[d]
  BY <1>1 DEF Inv, TypeOK
<1> QED
  BY <1>1, <1>5, <1>14, <1>15, <1>16, StepOfOne

LEMMA SuggestFeesInv ==
    ASSUME Inv, NEW c \in Calls, SuggestFees(c)
    PROVE  Inv'
<1>1. PICK fee \in BaseFees : MaxFeePerGas(fee) <= Ceiling /\ base' = [base EXCEPT ![c] = fee]
  BY DEF SuggestFees
<1>2. /\ pc[c] = "fees" /\ pc' = [pc EXCEPT ![c] = "sign"]
      /\ UNCHANGED <<chain, payment, seen, asked, value, pool, mined>>
  BY DEF SuggestFees, Goto, request, agreement, network
<1>3. TypeOK'
  BY <1>1, <1>2, BaseFeeAssumption DEF Inv, TypeOK, Steps
<1>4. pc'[c] = "sign" /\ base'[c] = fee
  BY <1>1, <1>2 DEF Inv, TypeOK
<1>5. ChainIsChecked(c)'
  BY <1>2, <1>4 DEF Inv, CallInv, ChainIsChecked, OnTheChain, ForPayment
<1>6. NumberIsVouched(c)'
  BY <1>2, <1>4 DEF Inv, CallInv, NumberIsVouched, Settled, Current
<1>7. CallInv(c)'
  BY <1>1, <1>2, <1>4, <1>5, <1>6 DEF Inv, CallInv, FeeIsBounded
<1>8. NetworkInv'
  BY <1>2 DEF Inv, NetworkInv
<1>9. \A d \in Calls \ {c} : pc'[d] = pc[d] /\ base'[d] = base[d]
  BY <1>1, <1>2 DEF Inv, TypeOK
<1> QED
  BY <1>2, <1>3, <1>7, <1>8, <1>9, StepOfOne

LEMMA SignInv ==
    ASSUME Inv, NEW c \in Calls, Sign(c)
    PROVE  Inv'
<1>1. /\ pc[c] = "sign" /\ pc' = [pc EXCEPT ![c] = "broadcast"]
      /\ seen' = [seen EXCEPT ![c] = Len(mined)]
      /\ UNCHANGED <<chain, payment, asked, value, base, pool, mined>>
  BY DEF Sign, Goto, request, agreement, network
<1>2. TypeOK'
  BY <1>1, BoundAssumption DEF Inv, TypeOK, Steps
<1>3. pc'[c] = "broadcast" /\ seen'[c] = Len(mined)
  BY <1>1 DEF Inv, TypeOK
<1>4. ChainIsChecked(c)'
  BY <1>1, <1>3 DEF Inv, CallInv, ChainIsChecked, OnTheChain, ForPayment
<1>5. value[c] \in 0 .. MaxNonce /\ (Honest # {} => value[c] <= Len(mined))
  BY <1>1 DEF Inv, CallInv, NumberIsVouched, Settled, Current
<1>6. NumberIsVouched(c)'
  BY <1>1, <1>3, <1>5 DEF NumberIsVouched, Settled
<1>7. CallInv(c)'
  BY <1>1, <1>3, <1>4, <1>6 DEF Inv, TypeOK, CallInv, FeeIsBounded
<1>8. NetworkInv'
  BY <1>1 DEF Inv, NetworkInv
<1>9. \A d \in Calls \ {c} : pc'[d] = pc[d] /\ seen'[d] = seen[d]
  BY <1>1 DEF Inv, TypeOK
<1> QED
  BY <1>1, <1>2, <1>7, <1>8, <1>9, StepOfOne

LEMMA BroadcastInv ==
    ASSUME Inv, NEW c \in Calls, Broadcast(c)
    PROVE  Inv'
<1>1. PICK accepted \in BOOLEAN, result \in Returned :
         /\ pool' = IF accepted THEN pool \cup {Signed(c)} ELSE pool
         /\ pc' = [pc EXCEPT ![c] = result]
  BY DEF Broadcast, Goto
<1>2. /\ pc[c] = "broadcast"
      /\ UNCHANGED <<chain, payment, seen, asked, value, base, mined>>
  BY DEF Broadcast, request, agreement
<1>3. payment[c] \in Payments /\ value[c] \in 0 .. MaxNonce /\ seen[c] \in 0 .. MaxNonce
  BY <1>2 DEF Inv, TypeOK, CallInv, ChainIsChecked, NumberIsVouched, ForPayment
<1>4. Signed(c) \in Transactions
  BY <1>3 DEF Signed, Transactions
<1>5. TypeOK'
  BY <1>1, <1>2, <1>4 DEF Inv, TypeOK, Steps
<1>6. pc'[c] \in Returned /\ payment[c] # Inquiry
  BY <1>1, <1>2 DEF Inv, TypeOK, CallInv, ChainIsChecked, ForPayment
<1>7. CallInv(c)'
  BY <1>2, <1>6 DEF Inv, CallInv, ChainIsChecked, NumberIsVouched, FeeIsBounded, Settled,
                    Returned, OnTheChain, ForPayment
<1>8. Honest # {} => Signed(c).nonce <= Signed(c).signedAt
  BY <1>2 DEF Inv, CallInv, NumberIsVouched, Signed
<1>9. NetworkInv'
  BY <1>1, <1>2, <1>8 DEF Inv, NetworkInv
<1>10. \A d \in Calls \ {c} : pc'[d] = pc[d]
  BY <1>1 DEF Inv, TypeOK
<1> QED
  BY <1>2, <1>5, <1>7, <1>9, <1>10, StepOfOne

LEMMA FailInv ==
    ASSUME Inv, NEW c \in Calls, Fail(c)
    PROVE  Inv'
<1>1. /\ pc' = [pc EXCEPT ![c] = "error"]
      /\ UNCHANGED <<chain, payment, seen, asked, value, base, pool, mined>>
  BY DEF Fail, Goto, request, agreement, network
<1>2. TypeOK'
  BY <1>1 DEF Inv, TypeOK, Steps, Returned
<1>3. pc'[c] = "error"
  BY <1>1 DEF Inv, TypeOK
<1>4. CallInv(c)'
  BY <1>1, <1>3 DEF Inv, CallInv, ChainIsChecked, NumberIsVouched, FeeIsBounded, Settled,
                    OnTheChain, ForPayment
<1>5. NetworkInv'
  BY <1>1 DEF Inv, NetworkInv
<1>6. \A d \in Calls \ {c} : pc'[d] = pc[d]
  BY <1>1 DEF Inv, TypeOK
<1> QED
  BY <1>1, <1>2, <1>4, <1>5, <1>6, StepOfOne

\* The account's next transaction is mined, whoever signed it.
LEMMA AppendInv ==
    ASSUME Inv, NEW tx \in Transactions \cup {Elsewhere}, Len(mined) < MaxNonce,
           mined' = Append(mined, tx), pool' \subseteq pool,
           UNCHANGED <<pc, request, seen, agreement, base>>,
           tx # Elsewhere /\ Honest # {} => tx.nonce = Len(mined) /\ tx.nonce <= tx.signedAt
    PROVE  Inv'
<1>1. UNCHANGED <<pc, chain, payment, seen, asked, value, base>>
  BY DEF request, agreement
<1>2. /\ mined \in Seq(Transactions \cup {Elsewhere})
      /\ mined' \in Seq(Transactions \cup {Elsewhere})
      /\ Len(mined) \in Nat /\ Len(mined') = Len(mined) + 1
      /\ \A k \in 1 .. Len(mined) : mined'[k] = mined[k]
      /\ mined'[Len(mined) + 1] = tx
      /\ DOMAIN mined = 1 .. Len(mined) /\ DOMAIN mined' = 1 .. Len(mined) + 1
  BY DEF Inv, TypeOK
<1>3. TypeOK'
  BY <1>1, <1>2, BoundAssumption DEF Inv, TypeOK
<1>4. ASSUME NEW d \in Calls  PROVE CallInv(d)'
  <2>1. Len(mined) <= Len(mined') /\ CallInv(d)
    BY <1>2 DEF Inv
  <2> QED
    BY <1>1, <1>2, <2>1, OthersKeep DEF Inv
<1>5. NetworkInv'
  <2> SUFFICES ASSUME Honest # {}
               PROVE  /\ \A t \in pool' : t.nonce <= t.signedAt
                      /\ \A k \in DOMAIN mined' : mined'[k] # Elsewhere =>
                            mined'[k].nonce = k - 1 /\ mined'[k].nonce <= mined'[k].signedAt
    BY DEF NetworkInv
  <2>1. \A t \in pool' : t.nonce <= t.signedAt
    BY DEF Inv, NetworkInv
  <2>2. ASSUME NEW k \in DOMAIN mined', mined'[k] # Elsewhere
        PROVE  mined'[k].nonce = k - 1 /\ mined'[k].nonce <= mined'[k].signedAt
    <3>1. CASE k = Len(mined) + 1
      BY <1>2, <2>2, <3>1
    <3>2. CASE k \in 1 .. Len(mined)
      BY <1>2, <2>2, <3>2 DEF Inv, NetworkInv
    <3> QED
      BY <1>2, <3>1, <3>2
  <2> QED
    BY <2>1, <2>2
<1> QED
  BY <1>3, <1>4, <1>5 DEF Inv

LEMMA MineInv == Inv /\ Mine => Inv'
<1> SUFFICES ASSUME Inv, Mine  PROVE Inv'
  OBVIOUS
<1>1. PICK tx \in pool : /\ tx.nonce = Len(mined)
                         /\ mined' = Append(mined, tx)
                         /\ pool' = pool \ {tx}
  BY DEF Mine
<1>2. /\ tx \in Transactions /\ pool' \subseteq pool /\ Len(mined) < MaxNonce
      /\ UNCHANGED <<pc, request, seen, agreement, base>>
  BY <1>1 DEF Mine, Inv, TypeOK
<1>3. Honest # {} => tx.nonce <= tx.signedAt
  BY DEF Inv, NetworkInv
<1> QED
  BY <1>1, <1>2, <1>3, AppendInv

LEMMA MineElsewhereInv == Inv /\ MineElsewhere => Inv'
  BY AppendInv DEF MineElsewhere

LEMMA StutterInv == Inv /\ UNCHANGED vars => Inv'
<1> SUFFICES ASSUME Inv, UNCHANGED vars  PROVE Inv'
  OBVIOUS
<1>1. UNCHANGED <<pc, chain, payment, seen, asked, value, base, pool, mined>>
  BY DEF vars, request, agreement
<1>2. TypeOK' /\ NetworkInv'
  BY <1>1 DEF Inv, TypeOK, NetworkInv
<1>3. ASSUME NEW d \in Calls  PROVE CallInv(d)'
  BY <1>1, OthersKeep DEF Inv, TypeOK
<1> QED
  BY <1>2, <1>3 DEF Inv

LEMMA NextInv == Inv /\ [Next]_vars => Inv'
<1> SUFFICES ASSUME Inv, [Next]_vars  PROVE Inv'
  OBVIOUS
<1>1. ASSUME NEW c \in Calls, SendTransaction(c) \/ GetBalance(c)  PROVE Inv'
  BY <1>1, BeginInv DEF SendTransaction, GetBalance
<1>2. ASSUME NEW c \in Calls, Step(c)  PROVE Inv'
  BY <1>2, AskPrimaryInv, CrossCheckInv, AgreedInv, SuggestFeesInv, SignInv, BroadcastInv,
     FailInv DEF Step
<1> QED
  BY <1>1, <1>2, MineInv, MineElsewhereInv, StutterInv DEF Next

-----------------------------------------------------------------------------
\* The state of the calls, the pool and the chain keeps its types: in particular what
\* is signed carries a nonce and never a chain id that the previous query left behind.
THEOREM TypeCorrect == Spec => []TypeOK
<1>1. Inv => TypeOK
  BY DEF Inv
<1> QED
  BY <1>1, InitInv, NextInv, PTL DEF Spec

\* One honest endpoint is enough for the nonce a call goes on with and the balance it
\* reports, whatever the others answer (wallet-rpc/src/lib.rs:84-102).
THEOREM OneHonestEndpointIsEnough == Spec => []AnswersAreCurrent
<1>1. Inv => AnswersAreCurrent
  BY DEF Inv, CallInv, NumberIsVouched, Settled, Current, AnswersAreCurrent
<1> QED
  BY <1>1, InitInv, NextInv, PTL DEF Spec

\* A call that goes past the chain check is for the chain every honest endpoint serves
\* (wallet-cli/src/main.rs:183-186).
THEOREM WrongChainsAreRefused == Spec => []OnlyTheChainAskedFor
<1>1. Inv => OnlyTheChainAskedFor
  BY DEF Inv, CallInv, ChainIsChecked, OnTheChain, OnlyTheChainAskedFor
<1> QED
  BY <1>1, InitInv, NextInv, PTL DEF Spec

\* No base fee, up to the limit of u128, makes a signed offer smaller than the fee it
\* answers to or larger than the ceiling (wallet-core/src/evm.rs:110-143).
THEOREM SaturationMeetsTheCeiling == Spec => []FeesFit
<1>1. Inv => FeesFit
  <2> SUFFICES ASSUME Inv, NEW c \in Calls, pc[c] \in {"sign", "broadcast"}
               PROVE  /\ base[c] + PriorityFee <= MaxFeePerGas(base[c])
                      /\ MaxFeePerGas(base[c]) <= Ceiling
    BY DEF FeesFit
  <2>1. MaxFeePerGas(base[c]) <= Ceiling /\ base[c] \in 0 .. MaxU128
    BY DEF Inv, TypeOK, CallInv, FeeIsBounded
  <2> QED
    BY <2>1, FeeCoversBaseAndTip
<1> QED
  BY <1>1, InitInv, NextInv, PTL DEF Spec

\* A payment that is retried while an earlier attempt waits is mined once, since each
\* attempt is signed for a nonce no higher than what the chain had then
\* (wallet-rpc/src/evm.rs:181-189).
THEOREM RetriesPayOnce == Spec => []RetryWhilePendingPaysOnce
<1>1. Inv => RetryWhilePendingPaysOnce
  <2> SUFFICES ASSUME Inv, Honest # {}, NEW i \in DOMAIN mined, NEW j \in DOMAIN mined,
                      i < j, mined[j] # Elsewhere
               PROVE  mined[j].signedAt >= i
    BY DEF RetryWhilePendingPaysOnce
  <2>1. mined[j].nonce = j - 1 /\ mined[j].nonce <= mined[j].signedAt
    BY DEF Inv, NetworkInv
  <2>2. mined[j] \in Transactions /\ i \in Nat /\ j \in Nat
    BY DEF Inv, TypeOK
  <2>3. mined[j].signedAt \in Nat
    BY <2>2, BoundAssumption DEF Transactions
  <2> QED
    BY <2>1, <2>2, <2>3
<1> QED
  BY <1>1, InitInv, NextInv, PTL DEF Spec
=============================================================================
