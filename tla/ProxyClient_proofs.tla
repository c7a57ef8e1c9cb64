------------------------- MODULE ProxyClient_proofs -------------------------
(***************************************************************************)
(* Proofs about ProxyClient for any amounts, fees, payload types, decimals *)
(* and bounds that ClientAssumption allows.                                *)
(***************************************************************************)
EXTENDS ProxyClient, TLAPS

Prices == Fees \cup {f + 0 : f \in Fees} \cup {f + 1 : f \in Fees}

SessionRecords ==
    [task : Tasks, step : Steps, type : PayloadArgs \cup {None},
     amount : Amounts \cup {None}, extendAlt : BOOLEAN,
     fee : Prices \cup {None}]

\* A task runs with the arguments it was given and checked; submitproof gets
\* no further than its first step.
SessionInv ==
    session # Idle =>
        /\ session \in SessionRecords
        /\ session.task = "request" => session.type \in RequestTypes
        /\ session.task = "stake" => session.amount \in Amounts
        /\ session.task = "submitproof" => session.step = "quote"

IsStake(tx) == \E a \in Amounts, f \in Prices \cup {None} :
                  tx.params = oftSendParams(a, f)

\* Whatever stake may still land was made for an amount the user named.
StakesInv == \A tx \in in_flight : tx.kind = "stake" => IsStake(tx)

ClientInv ==
    /\ fee \in Fees /\ oft_fee \in OFTFees
    /\ SessionInv
    /\ StakesInv
    /\ StakeTellsWhatItBrings

-----------------------------------------------------------------------------
(* Amounts.                                                                *)

LEMMA FloorIsBelow ==
    ASSUME NEW a \in Int, NEW b \in Nat \ {0}
    PROVE  (a \div b) * b <= a /\ (a \div b) * b \in Int
  BY SMT

\* The OFT never brings more than it takes.
LEMMA DeliveredBound ==
    ASSUME oft_fee \in OFTFees, NEW amount_ld \in Nat
    PROVE  Delivered(amount_ld) \in Int /\ Delivered(amount_ld) <= amount_ld
<1>. DEFINE product == amount_ld * oft_fee
            kept    == product \div 100
            rest    == amount_ld - kept
<1>1. oft_fee \in Nat
  BY ClientAssumption
<1>2. product \in Nat
  BY <1>1, SMT
<1>3. kept \in Nat
  BY <1>2, SMT
<1>4. rest \in Int /\ rest <= amount_ld
  BY <1>3, SMT
<1>5. Delivered(amount_ld) = (rest \div Shared) * Shared
  BY DEF Delivered
<1>. HIDE DEF rest
<1>6. (rest \div Shared) * Shared \in Int /\ (rest \div Shared) * Shared <= rest
  BY <1>4, FloorIsBelow, ClientAssumption
<1>. QED BY <1>4, <1>5, <1>6, SMT

\* A stake that lands brings what its message says.
LEMMA AcceptedStakeBrings ==
    ASSUME oft_fee \in OFTFees, NEW tx, tx.kind = "stake", IsStake(tx),
           Accepted(tx)
    PROVE  tx.params.compose_msg.amount * OnSolana
             = Delivered(tx.params.amount_ld) * OnEthereum
<1>1. PICK a \in Amounts, f \in Prices \cup {None} :
        tx.params = oftSendParams(a, f)
  BY DEF IsStake
<1>2. a \in Nat /\ OnSolana \in Nat /\ OnEthereum \in Nat
  BY ClientAssumption
<1>. DEFINE ld == a * OnSolana
<1>3. /\ tx.params.amount_ld = ld
      /\ tx.params.min_amount_ld = ld
      /\ tx.params.compose_msg.amount = a * OnEthereum
  BY <1>1 DEF oftSendParams, createStakingMsg, getOrderAmountInBytes32,
              getOrderAmountInBigInt, convertIntoBytes32
<1>4. Delivered(tx.params.amount_ld) >= tx.params.min_amount_ld
  BY DEF Accepted
<1>5. ld \in Nat
  BY <1>2, SMT
<1>. HIDE DEF ld
<1>6. Delivered(ld) = ld
  BY <1>3, <1>4, <1>5, DeliveredBound, SMT
<1>7. a * OnEthereum * OnSolana = a * OnSolana * OnEthereum
  BY <1>2, SMT
<1>. QED BY <1>3, <1>6, <1>7 DEF ld

-----------------------------------------------------------------------------
(* The invariant.                                                          *)

LEMMA ClientInit == Init => ClientInv
  BY DEF Init, ClientInv, SessionInv, StakesInv, StakeTellsWhatItBrings

\* A transaction the running task sends is one of a stake only for an amount
\* the user named.
LEMMA TxIsStake ==
    ASSUME SessionInv, session # Idle, session.step # "quote",
           Tx.kind = "stake"
    PROVE  IsStake(Tx)
<1>1. session.task = "stake"
  BY DEF SessionInv, SessionRecords, Tasks, Tx, ExtendTx, RequestTx, ClaimTx,
         StakeTx
<1>2. Tx = StakeTx(session.amount, session.fee)
  BY <1>1 DEF Tx, ExtendTx
<1>3. session.amount \in Amounts /\ session.fee \in Prices \cup {None}
  BY <1>1 DEF SessionInv, SessionRecords
<1>. QED BY <1>2, <1>3 DEF IsStake, StakeTx

LEMMA LandingKeeps ==
    ASSUME ClientInv, NEW tx, Lands(tx), tx.kind = "stake" => IsStake(tx)
    PROVE  StakeTellsWhatItBrings'
<1>1. CASE tx.kind = "request"
  BY <1>1 DEF Lands, Effect, ClientInv, StakeTellsWhatItBrings
<1>2. CASE tx.kind = "claim"
  BY <1>2 DEF Lands, Effect, ClientInv, StakeTellsWhatItBrings
<1>3. CASE tx.kind = "extend"
  BY <1>3 DEF Lands, Effect, ClientInv, StakeTellsWhatItBrings
<1>4. CASE tx.kind = "stake"
  <2>. DEFINE message == [kind |-> "stake", told |-> tx.params.compose_msg,
                          brought |-> Delivered(tx.params.amount_ld)]
  <2>1. sent' = sent \cup {message}
    BY <1>4 DEF Lands, Effect
  <2>2. message.told.amount * OnSolana = message.brought * OnEthereum
    BY <1>4, AcceptedStakeBrings DEF Lands, ClientInv
  <2>. HIDE DEF message
  <2>. QED BY <2>1, <2>2 DEF ClientInv, StakeTellsWhatItBrings
<1>. QED BY <1>1, <1>2, <1>3, <1>4 DEF Lands, Effect

LEMMA QuotesArePrices ==
    ASSUME fee \in Fees, NEW type
    PROVE  quoteFee(type) \in Prices /\ quoteClaimFee \in Prices /\ fee \in Prices
<1>1. backward_fee(type) \in {0, 1}
  BY DEF backward_fee
<1>2. quoteFee(type) \in {fee + 0, fee + 1}
  BY <1>1 DEF quoteFee
<1>. QED BY <1>2 DEF quoteClaimFee, Prices

LEMMA StartKeeps ==
    ASSUME ClientInv, NEW record, Start(record),
           record \in SessionRecords,
           record.task = "request" => record.type \in RequestTypes,
           record.task = "stake" => record.amount \in Amounts,
           record.step = "quote"
    PROVE  ClientInv'
  BY DEF Start, ClientInv, SessionInv, StakesInv, StakeTellsWhatItBrings,
         worldVars, chainVars, built, oftSendParams, RequestTypes

LEMMA ClientStep == ClientInv /\ [Next]_vars => ClientInv'
<1>. SUFFICES ASSUME ClientInv, [Next]_vars
              PROVE  ClientInv'
  OBVIOUS
<1>. USE DEF ClientInv
<1>1. ASSUME NEW type \in PayloadArgs, Request(type)
      PROVE  ClientInv'
  BY <1>1, StartKeeps DEF Request, SessionRecords, Tasks, Steps, RequestTypes
<1>2. ASSUME NEW amount \in Amounts, NEW extendAlt \in BOOLEAN,
             Stake(amount, extendAlt)
      PROVE  ClientInv'
  BY <1>2, StartKeeps DEF Stake, SessionRecords, Tasks, Steps
<1>3. CASE SubmitProofTask
  BY <1>3, StartKeeps DEF SubmitProofTask, Begin, SessionRecords, Tasks, Steps
<1>4. CASE Claim
  BY <1>4, StartKeeps DEF Claim, Begin, SessionRecords, Tasks, Steps
<1>5. CASE SubmitProofElsewhere
  BY <1>5 DEF SubmitProofElsewhere, built, worldVars, SessionInv, StakesInv,
              StakeTellsWhatItBrings
<1>6. CASE Throw
  BY <1>6 DEF Throw, built, worldVars, chainVars, SessionInv, StakesInv,
              StakeTellsWhatItBrings
<1>7. CASE Quote
  <2>1. CASE Quoted = {}
    BY <1>6, <1>7, <2>1 DEF Quote
  <2>2. CASE Quoted # {}
    <3>1. PICK f \in Quoted, step \in {"extend", "send"} :
            session' = [session EXCEPT !.fee = f, !.step = step]
      BY <1>7, <2>2 DEF Quote
    <3>2. session # Idle /\ session \in SessionRecords
      BY <1>7 DEF Quote, SessionInv
    <3>3. f \in Prices
      BY <3>1, QuotesArePrices DEF Quoted
    <3>4. session.task # "submitproof"
      BY <3>1 DEF Quoted
    <3>5. /\ session' \in SessionRecords
          /\ session'.task = session.task /\ session'.type = session.type
          /\ session'.amount = session.amount
      BY <3>1, <3>2, <3>3 DEF SessionRecords, Steps
    <3>6. SessionInv'
      BY <3>2, <3>4, <3>5 DEF SessionInv, RequestTypes
    <3>7. UNCHANGED <<worldVars, chainVars, in_flight>>
      BY <1>7, <2>2 DEF Quote
    <3>. QED BY <3>6, <3>7 DEF worldVars, chainVars, StakesInv,
                              StakeTellsWhatItBrings
  <2>. QED BY <2>1, <2>2
<1>8. ASSUME NEW step \in Steps, session # Idle, Goto(step),
             session.task # "submitproof"
      PROVE  SessionInv'
  <2>1. session \in SessionRecords
    BY <1>8 DEF SessionInv
  <2>2. session' = [session EXCEPT !.step = step]
    BY <1>8 DEF Goto
  <2>3. /\ session' \in SessionRecords
        /\ session'.task = session.task /\ session'.type = session.type
        /\ session'.amount = session.amount
    BY <1>8, <2>1, <2>2 DEF SessionRecords
  <2>. QED BY <1>8, <2>3 DEF SessionInv, RequestTypes
<1>9. ASSUME session # Idle, session.step # "quote"
      PROVE  session.task # "submitproof"
  BY <1>9 DEF SessionInv
<1>10. CASE SendAndWait
  <2>1. SessionInv'
    BY <1>8, <1>9, <1>10 DEF SendAndWait, Steps
  <2>. QED BY <2>1, <1>10 DEF SendAndWait, built, worldVars, chainVars,
                              StakesInv, StakeTellsWhatItBrings
<1>11. ASSUME session # Idle, session.step # "quote", session' = Idle,
              in_flight' = in_flight \cup {Tx},
              UNCHANGED <<built, worldVars, chainVars>>
       PROVE  ClientInv'
  <2>1. \A tx \in in_flight' : tx.kind = "stake" => IsStake(tx)
    BY <1>11, TxIsStake DEF StakesInv
  <2>2. StakesInv'
    BY <2>1 DEF StakesInv, IsStake, oftSendParams
  <2>. QED BY <1>11, <2>2 DEF built, worldVars, chainVars, SessionInv,
                              StakeTellsWhatItBrings
<1>12. CASE SendWithTable
  BY <1>6, <1>11, <1>12 DEF SendWithTable
<1>13. CASE Confirmed
  <2>1. session # Idle /\ session.step # "quote"
    BY <1>13 DEF Confirmed, Waiting
  <2>2. SessionInv'
    <3>1. CASE session.step = "extending"
      BY <1>8, <1>9, <1>13, <2>1, <3>1 DEF Confirmed, Steps
    <3>2. CASE session.step # "extending"
      BY <1>13, <3>2 DEF Confirmed, SessionInv
    <3>. QED BY <3>1, <3>2
  <2>3. StakeTellsWhatItBrings'
    BY <1>13, <2>1, TxIsStake, LandingKeeps DEF Confirmed
  <2>. QED BY <1>13, <2>2, <2>3 DEF Confirmed, built, worldVars, StakesInv
<1>14. CASE Rejected
  BY <1>6, <1>14 DEF Rejected
<1>15. CASE TimedOut
  BY <1>11, <1>15 DEF TimedOut, Waiting
<1>16. ASSUME NEW tx \in in_flight, LandsLate(tx)
       PROVE  ClientInv'
  <2>1. StakeTellsWhatItBrings'
    BY <1>16, LandingKeeps DEF LandsLate, StakesInv
  <2>. QED BY <1>16, <2>1 DEF LandsLate, built, worldVars, SessionInv, StakesInv
<1>17. ASSUME NEW tx \in in_flight, Expires(tx)
       PROVE  ClientInv'
  BY <1>17 DEF Expires, built, worldVars, chainVars, SessionInv, StakesInv,
               StakeTellsWhatItBrings
<1>18. CASE Change
  BY <1>18 DEF Change, built, chainVars, SessionInv, StakesInv,
               StakeTellsWhatItBrings
<1>19. CASE UNCHANGED vars
  BY <1>19 DEF vars, built, worldVars, chainVars, SessionInv, StakesInv,
               StakeTellsWhatItBrings
<1>. QED BY <1>1, <1>2, <1>3, <1>4, <1>5, <1>7, <1>10, <1>12, <1>13, <1>14,
            <1>15, <1>16, <1>17, <1>18, <1>19 DEF Next

(* What a running task was given, what may still land, and what has landed. *)
THEOREM ClientInvariant == Spec => []ClientInv
  BY ClientInit, ClientStep, PTL DEF Spec

(* However the fees move, a stake that lands brings the ORDER its message
   tells LedgerOCCManager of. *)
THEOREM StakesBringWhatTheyTell == Spec => []StakeTellsWhatItBrings
<1>1. ClientInv => StakeTellsWhatItBrings
  BY DEF ClientInv
<1>. QED BY <1>1, ClientInvariant, PTL

(* The codes of the client are within those of the program and the contract. *)
THEOREM RequestsMeanTheSame == Spec => []RequestsAreUnderstood
<1>1. ASSUME NEW type, checkPayloadType(type), checkPayload(type)
      PROVE  /\ PT!check_request_payload_type(PT!from_u8(type))
             /\ OCC!checkVaultPayloadType(type)
  BY <1>1 DEF checkPayloadType, checkPayload, ScaledPayloads, PlainPayloads,
     PT!Stake, PT!CreateOrderUnstakeRequest, PT!CancelOrderUnstakeRequest,
     PT!WithdrawOrder, PT!EsOrderUnstakeAndVest, PT!CancelVestingRequest,
     PT!CancelAllVestingRequests, PT!ClaimVestingRequest, PT!RedeemValor,
     PT!ClaimUsdcRevenue, PT!UnstakeOrderNow, PT!ClaimReward,
     PT!ClaimRewardSolana, PT!from_u8, PT!check_request_payload_type,
     OCC!checkVaultPayloadType, OCC!CreateOrderUnstakeRequest,
     OCC!ClaimUsdcRevenue, OCC!UnstakeOrderNow, OCC!ClaimRewardSolana
<1>2. ClientInv => RequestsAreUnderstood
  BY <1>1 DEF ClientInv, SessionInv, RequestTypes, RequestsAreUnderstood
<1>. QED BY <1>2, ClientInvariant, PTL
=============================================================================
