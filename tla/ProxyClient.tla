----------------------------- MODULE ProxyClient -----------------------------
(***************************************************************************)
(* A user's tasks (sol:proxy:request, stake, submitproof and claim of      *)
(* tasks/proxy/setProxy.ts, with the functions of tasks/proxy/utils.ts     *)
(* they call).  A task checks its arguments, asks the program for the      *)
(* message's fee, and sends a transaction with the fee it was told.        *)
(* Between the two the fee, the OFT's own fee and the pause may change.    *)
(* request and claim wait for their transaction, which may be seen too     *)
(* late: the task throws, the transaction lands all the same, and the user *)
(* has perhaps sent another.  stake does not wait.                         *)
(*                                                                         *)
(* The client is built with an interface: target/types, or the committed   *)
(* types/solana_proxy.ts.  What the program checks is translated from it;  *)
(* the endpoint's fee and the accounts a send needs beyond the program's   *)
(* own are external.                                                       *)
(***************************************************************************)
EXTENDS Environments, Interfaces

PT  == INSTANCE PayloadTypes
OCC == INSTANCE OCCTypes

CONSTANTS
    Env,            \* --env
    PayloadArgs,    \* payload types a user may ask for
    Amounts,        \* amounts a user may stake, in whole ORDER
    OnSolana, OnEthereum, Shared,  \* an ORDER in each side's units
    InitialOrder,   \* what the wallet holds, in Solana's units
    Fees,           \* what the endpoint may ask for a message
    OFTFees,        \* percents the OFT may keep
    Needed,         \* accounts of a stake that must come from the lookup table
    AltCapacity,    \* addresses a lookup table can hold
    Idle, None,
    MaxInFlight,    \* bound on transactions seen too late
    MaxChanges      \* bound on changes of the fees and the pause

ASSUME ClientAssumption ==
    /\ Env \in ENV
    /\ Amounts \subseteq Nat /\ Fees \subseteq Nat /\ OFTFees \subseteq 0..100
    /\ OnSolana \in Nat /\ OnEthereum \in Nat
    /\ Shared \in Nat \ {0} /\ OnSolana % Shared = 0
    /\ Needed <= AltCapacity

VARIABLES
    interface,      \* the IDL the client was built with
    goal,           \* the task the user keeps running until it has worked
    fee, oft_fee, paused, changes,  \* what others may change meanwhile
    order,          \* the wallet's ORDER
    alt,            \* addresses in the lookup table
    claim_data,     \* whether the user's claim_data exists
    sent,           \* messages that left: requests, claims and stakes
    session,        \* the running task, or Idle
    in_flight       \* transactions the task no longer waits for

worldVars == <<fee, oft_fee, paused, changes>>
chainVars == <<order, alt, claim_data, sent>>
vars == <<interface, goal, worldVars, chainVars, session, in_flight>>
built == <<interface, goal>>

idl == IF interface = "target" THEN ProxyProgram ELSE ProxyIDL
layouts == IF interface = "target" THEN ProgramLayouts ELSE IDLLayouts

-----------------------------------------------------------------------------
\* Arguments.

\* checkPayloadType: the types the command line accepts, by number or by name.
checkPayloadType(type) ==
    type \in {PT!Stake, PT!CreateOrderUnstakeRequest,
              PT!CancelOrderUnstakeRequest, PT!WithdrawOrder,
              PT!EsOrderUnstakeAndVest, PT!CancelVestingRequest,
              PT!ClaimVestingRequest, PT!RedeemValor, PT!ClaimUsdcRevenue,
              PT!UnstakeOrderNow}

\* checkPayload: those with a payload of 32 bytes; some are amounts, in the
\* ledger's units, the others numbers as they are.
ScaledPayloads == {PT!CreateOrderUnstakeRequest, PT!CancelOrderUnstakeRequest,
                   PT!WithdrawOrder, PT!EsOrderUnstakeAndVest,
                   PT!UnstakeOrderNow}
PlainPayloads  == {PT!CancelVestingRequest, PT!CancelAllVestingRequests,
                   PT!ClaimVestingRequest, PT!RedeemValor, PT!ClaimUsdcRevenue}

(* Bug: Stake let through as a request. *)
MutStakePayload(type) ==
    type \in {PT!Stake} \cup ScaledPayloads \cup PlainPayloads

checkPayload(type) == type \in ScaledPayloads \cup PlainPayloads

convertIntoBytes32(amount, scale) == amount * scale
getOrderAmountInBytes32(amount)   == convertIntoBytes32(amount, OnEthereum)
getOrderAmountInBigInt(amount)    == amount * OnSolana

\* The message LedgerOCCManager is to get, and the OFT transfer that carries it.
createStakingMsg(amount) ==
    [token |-> OCC!ORDER, amount |-> getOrderAmountInBytes32(amount),
     payload_type |-> PT!Stake]

(* Bug: no minimum. *)
MutNoMinimum(amount, native_fee) ==
    [amount_ld |-> getOrderAmountInBigInt(amount), min_amount_ld |-> 0,
     compose_msg |-> createStakingMsg(amount), native_fee |-> native_fee]

oftSendParams(amount, native_fee) ==
    [amount_ld |-> getOrderAmountInBigInt(amount),
     min_amount_ld |-> getOrderAmountInBigInt(amount),
     compose_msg |-> createStakingMsg(amount), native_fee |-> native_fee]

-----------------------------------------------------------------------------
\* Transactions.

RequestTx(type, native_fee) ==
    [kind |-> "request", type |-> type, native_fee |-> native_fee]
ClaimTx(native_fee) == [kind |-> "claim", native_fee |-> native_fee]
StakeTx(amount, native_fee) ==
    [kind |-> "stake", params |-> oftSendParams(amount, native_fee)]
ExtendTx == [kind |-> "extend"]

\* set_backward_fee's two fees are the same to these properties.
backward_fee(type) ==
    IF type \in {PT!WithdrawOrder, PT!ClaimVestingRequest, PT!UnstakeOrderNow,
                 PT!ClaimUsdcRevenue} THEN 1 ELSE 0

(* Bug: the backward fee left out of the quote's sum. *)
MutLzFeeOnly(type) == fee

quoteFee(type) == fee + backward_fee(type)
quoteClaimFee  == fee + 1

Instruction(kind) == IF kind = "request" THEN "sendRequest" ELSE "sendClaim"

\* The OFT keeps its fee, and cuts what shared decimals cannot express.
Delivered(amount_ld) ==
    LET kept == (amount_ld * oft_fee) \div 100
    IN  ((amount_ld - kept) \div Shared) * Shared

Accepted(tx) ==
    CASE tx.kind = "request" ->
           /\ ~paused
           /\ Reads(idl, layouts, "sendRequest")
           /\ PT!check_request_payload_type(PT!from_u8(tx.type))
           /\ backward_fee(tx.type) < tx.native_fee
           /\ quoteFee(tx.type) <= tx.native_fee
      [] tx.kind = "claim" ->
           /\ ~paused
           /\ Reads(idl, layouts, "sendClaim")
           /\ claim_data
           /\ quoteClaimFee <= tx.native_fee
      [] tx.kind = "stake" ->
           /\ StakeReads
           /\ order >= tx.params.amount_ld
           /\ Delivered(tx.params.amount_ld) >= tx.params.min_amount_ld
           /\ fee <= tx.params.native_fee
      [] tx.kind = "extend" -> alt + Needed <= AltCapacity

\* A message is what the ledger chain is told; a stake's also says what the
\* OFT brings there.
Effect(tx) ==
    \/ /\ tx.kind = "request"
       /\ sent' = sent \cup {[kind |-> "request", type |-> tx.type]}
       /\ UNCHANGED <<order, alt, claim_data>>
    \/ /\ tx.kind = "claim"
       /\ sent' = sent \cup {[kind |-> "claim"]}
       /\ claim_data' = FALSE
       /\ UNCHANGED <<order, alt>>
    \/ /\ tx.kind = "stake"
       /\ sent' = sent \cup {[kind |-> "stake", told |-> tx.params.compose_msg,
                              brought |-> Delivered(tx.params.amount_ld)]}
       /\ order' = order - tx.params.amount_ld
       /\ UNCHANGED <<alt, claim_data>>
    \/ /\ tx.kind = "extend"
       /\ alt' = alt + Needed
       /\ UNCHANGED <<order, claim_data, sent>>

Lands(tx) == Accepted(tx) /\ Effect(tx)

-----------------------------------------------------------------------------

StakingMsgs == [token : {OCC!ORDER}, amount : {a * OnEthereum : a \in Amounts},
                payload_type : {PT!Stake}]
Messages == [kind : {"request"}, type : PayloadArgs] \cup [kind : {"claim"}]
    \cup [kind : {"stake"}, told : StakingMsgs, brought : 0..InitialOrder]

Tasks == {"request", "stake", "submitproof", "claim"}
Steps == {"quote", "extend", "extending", "send", "sending"}

TypeOK ==
    /\ interface \in {"target", "types"}
    /\ goal \in {"request", "stake"}
    /\ fee \in Fees /\ oft_fee \in OFTFees /\ paused \in BOOLEAN
    /\ changes \in 0..MaxChanges
    /\ order \in 0..InitialOrder
    /\ alt \in 0..AltCapacity
    /\ claim_data \in BOOLEAN
    /\ sent \subseteq Messages
    /\ session = Idle \/ (session.task \in Tasks /\ session.step \in Steps)
    /\ Cardinality(in_flight) <= MaxInFlight

Init ==
    /\ interface \in {"target", "types"}
    /\ goal \in {"request", "stake"}
    /\ fee \in Fees /\ oft_fee \in OFTFees /\ paused \in BOOLEAN
    /\ changes = 0
    /\ order = InitialOrder
    /\ alt = 0
    /\ claim_data = FALSE
    /\ sent = {}
    /\ session = Idle
    /\ in_flight = {}

Start(record) ==
    /\ session = Idle
    /\ session' = record
    /\ UNCHANGED <<built, worldVars, chainVars, in_flight>>

Begin(task) ==
    Start([task |-> task, step |-> "quote", type |-> None, amount |-> None,
           extendAlt |-> FALSE, fee |-> None])

Request(type) ==
    /\ checkPayloadType(type) /\ checkPayload(type)
    /\ Start([task |-> "request", step |-> "quote", type |-> type,
              amount |-> None, extendAlt |-> FALSE, fee |-> None])

\* The OFT's peer account is derived from oftStore, which qa's table lacks.
Stake(amount, extendAlt) ==
    /\ getOftAccounts(Env).oftStore # Missing
    /\ Start([task |-> "stake", step |-> "quote", type |-> None,
              amount |-> amount, extendAlt |-> extendAlt, fee |-> None])

\* The instruction cannot be encoded without proxyConfig: it is in the program
\* and in target/types, and submitProof does not name it.
SubmitProofTask == Begin("submitproof")

\* The task stops before it asks for a fee when there is no claim_data to read.
Claim == claim_data /\ Agree(layouts, {"claimData"}) /\ Begin("claim")

\* What another client of the program does for the user: the web application.
SubmitProofElsewhere ==
    /\ ~claim_data
    /\ claim_data' = TRUE
    /\ UNCHANGED <<built, worldVars, order, alt, sent, session, in_flight>>

Goto(step) == session' = [session EXCEPT !.step = step]
Throw == /\ session' = Idle
         /\ UNCHANGED <<built, worldVars, chainVars, in_flight>>

\* The program's view: quote_request and quote_claim check what the send will.
Quoted ==
    CASE session.task = "request" ->
           IF /\ Builds(idl, "quoteRequest") /\ ~paused
              /\ Reads(idl, layouts, "quoteRequest")
           THEN {quoteFee(session.type)} ELSE {}
      [] session.task = "claim" ->
           IF /\ Builds(idl, "quoteClaim") /\ ~paused /\ claim_data
              /\ Reads(idl, layouts, "quoteClaim")
           THEN {quoteClaimFee} ELSE {}
      [] session.task = "stake" ->
           IF Delivered(getOrderAmountInBigInt(session.amount))
                  >= getOrderAmountInBigInt(session.amount)
           THEN {fee} ELSE {}
      [] OTHER -> {}

\* With nothing quoted the task throws; submitproof throws for its accounts,
\* or when the program reads them.
Quote ==
    /\ session # Idle /\ session.step = "quote"
    /\ IF Quoted = {} THEN Throw
       ELSE /\ \E f \in Quoted :
                 session' = [session EXCEPT !.fee = f, !.step =
                                 IF session.extendAlt THEN "extend" ELSE "send"]
            /\ UNCHANGED <<built, worldVars, chainVars, in_flight>>

Tx == CASE session.step \in {"extend", "extending"} -> ExtendTx
        [] session.task = "request" -> RequestTx(session.type, session.fee)
        [] session.task = "claim"   -> ClaimTx(session.fee)
        [] OTHER                    -> StakeTx(session.amount, session.fee)

\* createAndSendV0Tx: sign and send, then wait.
SendAndWait ==
    /\ session # Idle
    /\ \/ session.step = "extend" /\ Goto("extending")
       \/ /\ session.step = "send" /\ session.task # "stake"
          /\ Builds(idl, Instruction(session.task))
          /\ Goto("sending")
    /\ UNCHANGED <<built, worldVars, chainVars, in_flight>>

\* createAndSendV0TxWithTable: without the table's addresses the transaction is
\* too large; with them it is sent and the task is over.
SendWithTable ==
    /\ session # Idle /\ session.task = "stake" /\ session.step = "send"
    /\ IF alt < Needed THEN Throw
       ELSE /\ Cardinality(in_flight \cup {Tx}) <= MaxInFlight
            /\ in_flight' = in_flight \cup {Tx}
            /\ session' = Idle
            /\ UNCHANGED <<built, worldVars, chainVars>>

Waiting == session # Idle /\ session.step \in {"extending", "sending"}

Confirmed ==
    /\ Waiting
    /\ Lands(Tx)
    /\ IF session.step = "extending" THEN Goto("send") ELSE session' = Idle
    /\ UNCHANGED <<built, worldVars, in_flight>>

Rejected == Waiting /\ ~Accepted(Tx) /\ Throw

TimedOut ==
    /\ Waiting
    /\ Cardinality(in_flight \cup {Tx}) <= MaxInFlight
    /\ in_flight' = in_flight \cup {Tx}
    /\ session' = Idle
    /\ UNCHANGED <<built, worldVars, chainVars>>

\* Runs may have sent the same transaction: a copy of one that landed may stay.
LandsLate(tx) ==
    /\ Lands(tx)
    /\ UNCHANGED <<built, worldVars, session, in_flight>>

Expires(tx) ==
    /\ in_flight' = in_flight \ {tx}
    /\ UNCHANGED <<built, worldVars, chainVars, session>>

\* The endpoint's fee, the OFT's, and the admin's pause.
Change ==
    /\ changes < MaxChanges
    /\ changes' = changes + 1
    /\ \/ fee' \in Fees \ {fee} /\ UNCHANGED <<oft_fee, paused>>
       \/ oft_fee' \in OFTFees \ {oft_fee} /\ UNCHANGED <<fee, paused>>
       \/ paused' = ~paused /\ UNCHANGED <<fee, oft_fee>>
    /\ UNCHANGED <<built, chainVars, session, in_flight>>

Next ==
    \/ \E type \in PayloadArgs : Request(type)
    \/ \E amount \in Amounts, extendAlt \in BOOLEAN : Stake(amount, extendAlt)
    \/ SubmitProofTask \/ Claim \/ SubmitProofElsewhere
    \/ Quote \/ SendAndWait \/ SendWithTable
    \/ Confirmed \/ Rejected \/ TimedOut
    \/ \E tx \in in_flight : LandsLate(tx) \/ Expires(tx)
    \/ Change

Spec == Init /\ [][Next]_vars

-----------------------------------------------------------------------------
\* The user runs the task of its goal again and again, stake with --extend-alt
\* while the table has not what it needs.  A task that runs goes on; a
\* transaction of the goal that could be confirmed again and again is, or lands
\* where the task does not wait; one that does not land expires with its
\* blockhash.
RequestTypes == {type \in PayloadArgs : checkPayloadType(type)
                                        /\ checkPayload(type)}

Wanted ==
    \/ goal = "request" /\ \E type \in RequestTypes : Request(type)
    \/ goal = "stake" /\ \E amount \in Amounts : Stake(amount, alt < Needed)

Fairness ==
    /\ SF_vars(Wanted)
    /\ WF_vars(Quote) /\ WF_vars(SendAndWait) /\ SF_vars(SendWithTable)
    /\ WF_vars(Rejected \/ TimedOut \/ Confirmed)
    /\ SF_vars(session # Idle /\ session.task = goal /\ Confirmed)
    /\ WF_vars(\E tx \in in_flight : Expires(tx))
    /\ SF_vars(\E tx \in in_flight : tx.kind = goal /\ LandsLate(tx))

FairSpec == Spec /\ Fairness

(* Every stake tells LedgerOCCManager just the ORDER the transfer brings,
   although the two amounts are scaled by different decimals and the OFT may
   come to keep a fee between the quote and the send. *)
StakeTellsWhatItBrings ==
    \A m \in sent : m.kind = "stake" =>
        m.told.amount * OnSolana = m.brought * OnEthereum

(* A request the client lets through is of a type the program sends and
   LedgerOApp receives, so that the user does not pay for a refusal. *)
RequestsAreUnderstood ==
    session # Idle /\ session.task = "request" =>
        /\ PT!check_request_payload_type(PT!from_u8(session.type))
        /\ OCC!checkVaultPayloadType(session.type)

(* A user who keeps running a request or a stake gets it sent, unless the
   program stays paused or the OFT keeps a fee for good: the client encodes
   what the program reads, what it quotes is enough for what it sends, and a
   stake that lacks the table's addresses gets them. *)
GoalIsReached ==
    []<>(~paused /\ oft_fee = 0) => <>(\E m \in sent : m.kind = goal)

(* The client can encode every task's instructions for the program: it names
   all their accounts.  submitproof does not. *)
EveryTaskBuilds ==
    session # Idle /\ session.task = "submitproof" => Builds(idl, "submitProof")
=============================================================================
