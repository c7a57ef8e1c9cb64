------------------------- MODULE LedgerOApp_proofs -------------------------
(***************************************************************************)
(* Proofs about LedgerOApp, for every set of managers, packets, messages   *)
(* and options and every price that LedgerAssumption allows.               *)
(***************************************************************************)
EXTENDS LedgerOApp, TLAPS

LEMMA PriceType ==
    ASSUME TypeOK
    PROVE  options.gas \in Nat /\ options.value \in Nat /\ gasPrice \in Nat
  <1>1. /\ options.gas \in Gas \cup {0} /\ options.value \in Values \cup {0}
        /\ gasPrice \in GasPrices
    BY DEF TypeOK, Options
  <1>2. /\ Gas \cup {0} \subseteq Nat /\ Values \cup {0} \subseteq Nat
        /\ GasPrices \subseteq Nat
    BY LedgerAssumption
  <1>3. QED
    BY <1>1, <1>2

\* The fee of a send is a natural number and its gas a positive one.
LEMMA FeeType ==
    ASSUME TypeOK
    PROVE  sendGas \in Nat \ {0} /\ sendFee \in Nat
  <1>1. sendGas \in Nat \ {0}
    BY PriceType, LedgerAssumption DEF sendGas
  <1>2. gasPrice * sendGas \in Nat
    BY PriceType, <1>1
  <1>3. QED
    BY PriceType, <1>1, <1>2 DEF sendFee, endpoint_quote

\* The initial state is well typed, and every step keeps the types.
LEMMA InitTypeOK == Init => TypeOK
  <1> SUFFICES ASSUME Init PROVE TypeOK
    OBVIOUS
  <1>1. settings \in [Managers -> Settings]
    BY DEF Init, Settings
  <1>2. received \in [Managers -> [Packets -> Nat]]
    <2>1. [p \in Packets |-> 0] \in [Packets -> Nat]
      OBVIOUS
    <2>2. QED
      BY <2>1 DEF Init
  <1>3. wei \in [Managers \cup {Oapp} -> Nat]
    BY LedgerAssumption DEF Init
  <1>4. /\ options \in Options /\ peers \in [Eids -> Peer]
        /\ sendNonce \in 0..MaxSends
    BY LedgerAssumption DEF Init, Options, Peer
  <1>5. QED
    BY <1>1, <1>2, <1>3, <1>4 DEF Init, TypeOK

LEMMA OwnerTypeOK == TypeOK /\ OwnerNext => TypeOK'
  <1> SUFFICES ASSUME TypeOK, NEW s \in Owners,
                      \/ \E m \in Managers \cup {Unset} : SetOCCManagerAddr(s, m)
                      \/ \E gas \in Gas, value \in Values :
                           SetOptions(s, ClaimUsdcRevenueBackward, gas, value)
                      \/ WithdrawTo(s)
                      \/ \E some \in SUBSET Eids :
                           \E new \in [some -> Peer] : SetPeers(s, new)
                      \/ \E new \in Owners : SetDelegate(s, new)
                      \/ Pause(s)
                      \/ Unpause(s)
                      \/ \E new \in Owners \cup {Unset} : TransferOwnership(s, new)
               PROVE  TypeOK'
    BY DEF OwnerNext
  <1> USE LedgerAssumption DEF TypeOK, externalVars, inboundVars, outboundVars,
                               ownerVars
  <1>1. ASSUME NEW m \in Managers \cup {Unset}, SetOCCManagerAddr(s, m)
        PROVE  TypeOK'
    BY <1>1 DEF SetOCCManagerAddr
  <1>2. ASSUME NEW gas \in Gas, NEW value \in Values,
               SetOptions(s, ClaimUsdcRevenueBackward, gas, value)
        PROVE  TypeOK'
    BY <1>2 DEF SetOptions, Options
  <1>3. CASE WithdrawTo(s)
    BY <1>3 DEF WithdrawTo
  <1>4. ASSUME NEW some \in SUBSET Eids, NEW new \in [some -> Peer],
               SetPeers(s, new)
        PROVE  TypeOK'
    BY <1>4 DEF SetPeers
  <1>5. ASSUME NEW new \in Owners, SetDelegate(s, new) PROVE TypeOK'
    BY <1>5 DEF SetDelegate
  <1>6. CASE Pause(s)
    BY <1>6 DEF Pause
  <1>7. CASE Unpause(s)
    BY <1>7 DEF Unpause
  <1>8. ASSUME NEW new \in Owners \cup {Unset}, TransferOwnership(s, new)
        PROVE  TypeOK'
    BY <1>8 DEF TransferOwnership
  <1>9. QED
    BY <1>1, <1>2, <1>3, <1>4, <1>5, <1>6, <1>7, <1>8

LEMMA EndpointTypeOK == TypeOK /\ EndpointNext => TypeOK'
  <1> SUFFICES ASSUME TypeOK, EndpointNext PROVE TypeOK'
    OBVIOUS
  <1> USE LedgerAssumption DEF TypeOK, externalVars, inboundVars, outboundVars,
                               ownerVars
  <1>1. ASSUME NEW p \in Packets, Verify(p) PROVE TypeOK'
    BY <1>1 DEF Verify
  <1>2. ASSUME NEW p \in Packets, NEW value \in Values \cup {0},
               LzReceive(p, value)
        PROVE  TypeOK'
    <2>1. received' \in [Managers -> [Packets -> Nat]]
      BY <1>2 DEF LzReceive, Acceptable, HandOver
    <2>2. QED
      BY <1>2, <2>1 DEF LzReceive, Clear
  <1>3. ASSUME NEW price \in GasPrices, GasPriceChange(price) PROVE TypeOK'
    BY <1>3 DEF GasPriceChange
  <1>4. QED
    BY <1>1, <1>2, <1>3 DEF EndpointNext

\* Writing its own value to a place of a function changes nothing.
LEMMA WriteItsOwn ==
    ASSUME NEW S, NEW f \in [S -> Nat], NEW a \in S, NEW b \in S, NEW v, a # b
    PROVE  [f EXCEPT ![a] = v, ![b] = f[b]] = [f EXCEPT ![a] = v]
  OBVIOUS

\* What a send does to the balances, and the message it gives the endpoint.
LEMMA SendEffects ==
    ASSUME TypeOK, NEW m \in Managers, NEW message \in Messages,
           NEW value \in MsgValues, LedgerOappSend(m, message, value)
    PROVE  /\ sendFee \in Nat /\ sendFee <= wei[m]
           /\ wei' = [wei EXCEPT ![m] = wei[m] - sendFee]
           /\ \E s \in SentType :
                /\ sent' = sent \cup {s}
                /\ s.nonce = sendNonce + 1 /\ s.manager = m
                /\ s.fee = sendFee /\ s.gas = sendGas
  <1>1. sendFee \in Nat /\ sendGas \in Nat \ {0}
    BY FeeType
  <1>2. value \in Nat /\ value >= sendFee /\ wei[m] >= value /\ wei[m] \in Nat
    BY LedgerAssumption DEF LedgerOappSend, Sendable, TypeOK
  <1>3. wei[Oapp] \in Nat /\ m # Oapp
    BY LedgerAssumption DEF TypeOK
  <1>4. wei' = [wei EXCEPT ![m] = wei[m] - sendFee]
    <2>1. wei' = [wei EXCEPT ![m] = @ - value + (value - sendFee),
                             ![Oapp] = @ + (value - value)]
      BY DEF LedgerOappSend, messageValue
    <2> HIDE DEF sendFee
    <2>2. wei[m] - value + (value - sendFee) = wei[m] - sendFee
          /\ wei[Oapp] + (value - value) = wei[Oapp]
      BY <1>1, <1>2, <1>3
    <2>3. wei' = [wei EXCEPT ![m] = wei[m] - sendFee, ![Oapp] = wei[Oapp]]
      BY <2>1, <2>2, Zenon
    <2>4. /\ wei \in [Managers \cup {Oapp} -> Nat]
          /\ m \in Managers \cup {Oapp} /\ Oapp \in Managers \cup {Oapp}
      BY DEF TypeOK
    <2>5. QED
      BY <2>3, <2>4, <1>3, WriteItsOwn, Zenon
  <1>5. \E s \in SentType :
          /\ sent' = sent \cup {s}
          /\ s.nonce = sendNonce + 1 /\ s.manager = m
          /\ s.fee = sendFee /\ s.gas = sendGas
    <2> DEFINE t == [nonce |-> sendNonce + 1, dstEid |-> settings[m].solanaEid,
                     peer |-> peers[settings[m].solanaEid], message |-> message,
                     gas |-> sendGas, manager |-> m, fee |-> sendFee]
    <2>1. /\ settings[m].solanaEid \in Eids
          /\ peers[settings[m].solanaEid] \in Addresses
      BY DEF LedgerOappSend, Sendable, TypeOK, Settings, Peer
    <2>2. sendNonce + 1 \in 1..MaxSends
      BY LedgerAssumption DEF LedgerOappSend, TypeOK
    <2>3. t \in SentType
      BY <2>1, <2>2, <1>1 DEF SentType
    <2>4. sent' = sent \cup {t}
      BY DEF LedgerOappSend
    <2>5. t.nonce = sendNonce + 1 /\ t.manager = m /\ t.fee = sendFee
          /\ t.gas = sendGas
      OBVIOUS
    <2> HIDE DEF t
    <2>6. QED
      BY <2>3, <2>4, <2>5
  <1>6. sendFee <= wei[m]
    BY <1>1, <1>2
  <1>7. QED
    BY <1>1, <1>4, <1>5, <1>6

LEMMA ManagerTypeOK == TypeOK /\ ManagerNext => TypeOK'
  <1> SUFFICES ASSUME TypeOK, ManagerNext PROVE TypeOK'
    OBVIOUS
  <1>1. ASSUME NEW m \in Managers, NEW message \in Messages,
               NEW value \in MsgValues, LedgerOappSend(m, message, value)
        PROVE  TypeOK'
    <2>1. sent' \subseteq SentType
      <3>1. PICK s \in SentType : sent' = sent \cup {s}
        BY <1>1, SendEffects
      <3>2. QED
        BY <3>1 DEF TypeOK
    <2>2. wei' \in [Managers \cup {Oapp} -> Nat]
      <3>1. wei[m] - sendFee \in Nat
        BY <1>1, SendEffects DEF TypeOK
      <3>2. wei' = [wei EXCEPT ![m] = wei[m] - sendFee]
        BY <1>1, SendEffects
      <3>3. QED
        BY <3>1, <3>2 DEF TypeOK
    <2>3. sendNonce' \in 0..MaxSends
      BY <1>1, LedgerAssumption DEF LedgerOappSend, TypeOK
    <2>4. UNCHANGED <<ownerVars, externalVars, inboundVars, swept>>
      BY <1>1 DEF LedgerOappSend
    <2>5. QED
      BY <2>1, <2>2, <2>3, <2>4 DEF TypeOK, ownerVars, externalVars, inboundVars
  <1>2. ASSUME NEW m \in Managers, NEW new \in Settings, ManagerSets(m, new)
        PROVE  TypeOK'
    BY <1>2 DEF ManagerSets, TypeOK, ownerVars, inboundVars, outboundVars
  <1>3. QED
    BY <1>1, <1>2 DEF ManagerNext

\* Balances are never negative and everything sent is well formed: above all,
\* no message leaves for the zero peer.
THEOREM LedgerTypeCorrect == Spec => []TypeOK
  <1>1. TypeOK /\ UNCHANGED vars => TypeOK'
    BY DEF TypeOK, vars, ownerVars, externalVars, inboundVars, outboundVars
  <1>2. TypeOK /\ [Next]_vars => TypeOK'
    BY <1>1, OwnerTypeOK, EndpointTypeOK, ManagerTypeOK DEF Next
  <1>3. QED
    BY InitTypeOK, <1>2, PTL DEF Spec

-----------------------------------------------------------------------------
(* Receiving.                                                              *)

\* Only Verify and LzReceive touch the packets and what managers received.
LEMMA WhatTouchesPackets ==
    ASSUME [Next]_vars
    PROVE  \/ \E p \in Packets : Verify(p)
           \/ \E p \in Packets, value \in Values \cup {0} : LzReceive(p, value)
           \/ UNCHANGED inboundVars
  <1>1. CASE OwnerNext
    BY <1>1 DEF OwnerNext, SetOCCManagerAddr, SetOptions, WithdrawTo, SetPeers,
                SetDelegate, Pause, Unpause, TransferOwnership
  <1>2. CASE EndpointNext
    BY <1>2 DEF EndpointNext, GasPriceChange
  <1>3. CASE ManagerNext
    BY <1>3 DEF ManagerNext, LedgerOappSend, ManagerSets
  <1>4. CASE UNCHANGED vars
    BY <1>4 DEF vars
  <1>5. QED
    BY <1>1, <1>2, <1>3, <1>4 DEF Next

\* The endpoint's clear keeps executed packets out of the inbound queue.
THEOREM ExecutedIsForGood == Spec => []ExecutedForGood
  <1>1. Init => ExecutedForGood
    BY DEF Init, ExecutedForGood
  <1>2. ExecutedForGood /\ [Next]_vars => ExecutedForGood'
    <2> SUFFICES ASSUME ExecutedForGood, [Next]_vars PROVE ExecutedForGood'
      OBVIOUS
    <2> USE DEF ExecutedForGood
    <2>1. ASSUME NEW p \in Packets, Verify(p) PROVE ExecutedForGood'
      BY <2>1 DEF Verify
    <2>2. ASSUME NEW p \in Packets, NEW value \in Values \cup {0},
                 LzReceive(p, value)
          PROVE  ExecutedForGood'
      BY <2>2 DEF LzReceive, Clear
    <2>3. CASE UNCHANGED inboundVars
      BY <2>3 DEF inboundVars
    <2>4. QED
      BY <2>1, <2>2, <2>3, WhatTouchesPackets
  <1>3. QED
    BY <1>1, <1>2, PTL DEF Spec

\* Each packet reaches exactly one manager exactly once, however the owner
\* and the managers reconfigure the contract while it waits.
THEOREM RequestsAreDeliveredOnce == Spec => []DeliveredOnce
  <1>1. Init => DeliveredOnce
    BY DEF Init, DeliveredOnce
  <1>2. TypeOK /\ ExecutedForGood /\ DeliveredOnce /\ [Next]_vars
          => DeliveredOnce'
    <2> SUFFICES ASSUME TypeOK, ExecutedForGood, DeliveredOnce, [Next]_vars
                 PROVE  DeliveredOnce'
      OBVIOUS
    <2>1. ASSUME NEW p \in Packets, NEW value \in Values \cup {0},
                 LzReceive(p, value)
          PROVE  DeliveredOnce'
      <3> DEFINE m == occManagerAddr
      <3>1. p \notin executed /\ executed' = executed \cup {p}
        BY <2>1 DEF LzReceive, Clear, ExecutedForGood
      <3>2. m \in Managers
        BY <2>1 DEF LzReceive, Acceptable, TypeOK
      <3> HIDE DEF m
      <3>3. received' = [received EXCEPT ![m][p] = @ + 1]
        BY <2>1 DEF LzReceive, HandOver, m
      <3>4. \A n \in Managers, q \in Packets :
              received'[n][q] = IF n = m /\ q = p THEN received[n][q] + 1
                                ELSE received[n][q]
        BY <3>2, <3>3 DEF TypeOK
      <3>5. \A n \in Managers : received[n][p] = 0
        BY <3>1 DEF DeliveredOnce
      <3>6. /\ received'[m][p] = 1
            /\ \A n \in Managers \ {m} : received'[n][p] = 0
        BY <3>2, <3>4, <3>5
      <3>7. ASSUME NEW q \in Packets, q # p
            PROVE  /\ q \in executed' <=> q \in executed
                   /\ \A n \in Managers : received'[n][q] = received[n][q]
        BY <3>1, <3>4, <3>7
      <3>8. QED
        BY <3>1, <3>2, <3>6, <3>7 DEF DeliveredOnce
    <2>2. CASE UNCHANGED <<executed, received>>
      BY <2>2 DEF DeliveredOnce
    <2>3. QED
      BY <2>1, <2>2, WhatTouchesPackets DEF Verify, inboundVars
  <1>3. QED
    BY <1>1, <1>2, LedgerTypeCorrect, ExecutedIsForGood, PTL DEF Spec

\* A pause loses no packet and lets none through.
THEOREM PauseHolds == Spec => PauseHoldsPackets
  <1>1. [Next]_vars =>
          [paused => UNCHANGED <<received, executed>>
                     /\ inbound \subseteq inbound']_vars
    <2> SUFFICES ASSUME [Next]_vars, paused
                 PROVE  UNCHANGED <<received, executed>>
                        /\ inbound \subseteq inbound'
      OBVIOUS
    <2>1. QED
      BY WhatTouchesPackets
      DEF Verify, LzReceive, Acceptable, whenNotPaused, inboundVars
  <1>2. QED
    BY <1>1, PTL DEF Spec, PauseHoldsPackets

-----------------------------------------------------------------------------
(* The native coin.                                                        *)

\* Only a send, a delivery and withdrawTo move native coin.
LEMMA WhatTouchesWei ==
    ASSUME [Next]_vars
    PROVE  \/ \E m \in Managers, message \in Messages, value \in MsgValues :
                LedgerOappSend(m, message, value)
           \/ \E p \in Packets, value \in Values \cup {0} : LzReceive(p, value)
           \/ \E s \in Owners : WithdrawTo(s)
           \/ UNCHANGED <<wei, dropped, swept>>
  <1> USE DEF inboundVars
  <1>1. CASE OwnerNext
    BY <1>1 DEF OwnerNext, SetOCCManagerAddr, SetOptions, SetPeers,
                SetDelegate, Pause, Unpause, TransferOwnership
  <1>2. CASE EndpointNext
    BY <1>2 DEF EndpointNext, Verify, GasPriceChange
  <1>3. CASE ManagerNext
    BY <1>3 DEF ManagerNext, ManagerSets
  <1>4. CASE UNCHANGED vars
    BY <1>4 DEF vars
  <1>5. QED
    BY <1>1, <1>2, <1>3, <1>4 DEF Next

\* The contract keeps nothing of what managers pay.
THEOREM OnlyDropsAreEverHeld == Spec => []OnlyDropsAreHeld
  <1>1. Init => OnlyDropsAreHeld
    BY DEF Init, OnlyDropsAreHeld
  <1>2. TypeOK /\ OnlyDropsAreHeld /\ [Next]_vars => OnlyDropsAreHeld'
    <2> SUFFICES ASSUME TypeOK, OnlyDropsAreHeld, [Next]_vars
                 PROVE  OnlyDropsAreHeld'
      OBVIOUS
    <2> USE DEF OnlyDropsAreHeld
    <2>0. wei[Oapp] \in Nat /\ swept \in Nat /\ dropped \in Nat
      BY DEF TypeOK
    <2>1. ASSUME NEW m \in Managers, NEW message \in Messages,
                 NEW value \in MsgValues, LedgerOappSend(m, message, value)
          PROVE  OnlyDropsAreHeld'
      <3>1. wei' = [wei EXCEPT ![m] = wei[m] - sendFee]
        BY <2>1, SendEffects
      <3>2. wei'[Oapp] = wei[Oapp]
        BY <3>1, LedgerAssumption DEF TypeOK
      <3>3. QED
        BY <2>1, <3>2 DEF LedgerOappSend, inboundVars
    <2>2. ASSUME NEW p \in Packets, NEW value \in Values \cup {0},
                 LzReceive(p, value)
          PROVE  OnlyDropsAreHeld'
      <3>1. /\ wei' = [wei EXCEPT ![Oapp] = @ + value]
            /\ dropped' = dropped + value /\ swept' = swept
        BY <2>2 DEF LzReceive
      <3>2. wei'[Oapp] = wei[Oapp] + value /\ value \in Nat
        BY <3>1, LedgerAssumption DEF TypeOK
      <3>3. QED
        BY <2>0, <3>1, <3>2
    <2>3. ASSUME NEW s \in Owners, WithdrawTo(s) PROVE OnlyDropsAreHeld'
      BY <2>0, <2>3 DEF WithdrawTo, TypeOK, inboundVars
    <2>4. CASE UNCHANGED <<wei, dropped, swept>>
      BY <2>4
    <2>5. QED
      BY <2>1, <2>2, <2>3, <2>4, WhatTouchesWei
  <1>3. QED
    BY <1>1, <1>2, LedgerTypeCorrect, PTL DEF Spec

\* Only ledgerOappSend gives the endpoint a message.
LEMMA WhatTouchesSent ==
    ASSUME [Next]_vars
    PROVE  \/ \E m \in Managers, message \in Messages, value \in MsgValues :
                LedgerOappSend(m, message, value)
           \/ UNCHANGED outboundVars
  <1>1. CASE OwnerNext
    BY <1>1 DEF OwnerNext, SetOCCManagerAddr, SetOptions, WithdrawTo, SetPeers,
                SetDelegate, Pause, Unpause, TransferOwnership
  <1>2. CASE EndpointNext
    BY <1>2 DEF EndpointNext, Verify, LzReceive, GasPriceChange
  <1>3. CASE ManagerNext
    BY <1>3 DEF ManagerNext, ManagerSets
  <1>4. CASE UNCHANGED vars
    BY <1>4 DEF vars
  <1>5. QED
    BY <1>1, <1>2, <1>3, <1>4 DEF Next

\* The nonces the endpoint assigned so far are not ahead of its counter.
NoncesAreUsed == \A s \in sent : s.nonce <= sendNonce

LEMMA NoncesStayUsed == Spec => []NoncesAreUsed
  <1>1. Init => NoncesAreUsed
    BY DEF Init, NoncesAreUsed
  <1>2. TypeOK /\ NoncesAreUsed /\ [Next]_vars => NoncesAreUsed'
    <2> SUFFICES ASSUME TypeOK, NoncesAreUsed, [Next]_vars PROVE NoncesAreUsed'
      OBVIOUS
    <2>1. ASSUME NEW m \in Managers, NEW message \in Messages,
                 NEW value \in MsgValues, LedgerOappSend(m, message, value)
          PROVE  NoncesAreUsed'
      <3>1. PICK s \in SentType : /\ sent' = sent \cup {s}
                                  /\ s.nonce = sendNonce + 1
        BY <2>1, SendEffects
      <3>2. sendNonce' = sendNonce + 1 /\ sendNonce \in Nat
        BY <2>1, LedgerAssumption DEF LedgerOappSend, TypeOK
      <3>3. \A t \in sent : t.nonce \in Nat /\ t.nonce <= sendNonce
        BY LedgerAssumption DEF TypeOK, NoncesAreUsed, SentType
      <3>4. QED
        BY <3>1, <3>2, <3>3 DEF NoncesAreUsed
    <2>2. CASE UNCHANGED outboundVars
      BY <2>2 DEF outboundVars, NoncesAreUsed
    <2>3. QED
      BY <2>1, <2>2, WhatTouchesSent
  <1>3. QED
    BY <1>1, <1>2, LedgerTypeCorrect, PTL DEF Spec

\* A manager's balance changes only by the fee of a message it just sent.
THEOREM ManagersPayTheFee == Spec => FeeIsAllItCosts
  <1>1. TypeOK /\ NoncesAreUsed /\ [Next]_vars =>
          [\A m \in Managers : wei'[m] # wei[m] =>
             \E s \in sent' \ sent : s.manager = m /\ wei[m] - wei'[m] = s.fee]_vars
    <2> SUFFICES ASSUME TypeOK, NoncesAreUsed, [Next]_vars, NEW m \in Managers,
                        wei'[m] # wei[m]
                 PROVE  \E s \in sent' \ sent :
                          s.manager = m /\ wei[m] - wei'[m] = s.fee
      OBVIOUS
    <2>0. wei[m] \in Nat
      BY DEF TypeOK
    <2>1. ASSUME NEW n \in Managers, NEW message \in Messages,
                 NEW value \in MsgValues, LedgerOappSend(n, message, value)
          PROVE  \E s \in sent' \ sent :
                   s.manager = m /\ wei[m] - wei'[m] = s.fee
      <3>1. /\ sendFee \in Nat
            /\ wei' = [wei EXCEPT ![n] = wei[n] - sendFee]
        BY <2>1, SendEffects
      <3>2. m = n /\ wei'[m] = wei[m] - sendFee
        BY <3>1 DEF TypeOK
      <3>3. PICK s \in SentType : /\ sent' = sent \cup {s}
                                  /\ s.nonce = sendNonce + 1 /\ s.manager = n
                                  /\ s.fee = sendFee
        BY <2>1, SendEffects
      <3>4. s \notin sent
        BY <3>3, LedgerAssumption DEF NoncesAreUsed, TypeOK
      <3> HIDE DEF sendFee
      <3>5. wei[m] - wei'[m] = s.fee
        BY <2>0, <3>1, <3>2, <3>3
      <3>6. QED
        BY <3>2, <3>3, <3>4, <3>5
    <2>2. ASSUME NEW p \in Packets, NEW value \in Values \cup {0},
                 LzReceive(p, value)
          PROVE  FALSE
      BY <2>2, LedgerAssumption DEF LzReceive, TypeOK
    <2>3. ASSUME NEW s \in Owners, WithdrawTo(s) PROVE FALSE
      BY <2>3, LedgerAssumption DEF WithdrawTo, TypeOK
    <2>4. QED
      BY <2>1, <2>2, <2>3, WhatTouchesWei
  <1>2. QED
    BY <1>1, LedgerTypeCorrect, NoncesStayUsed, PTL DEF Spec, FeeIsAllItCosts

\* The quote is exact once the owner has set a gas limit, and until then short
\* by the price of the default gas, for all options and every price.
THEOREM LedgerQuoteIsExact == Spec => []QuoteIsTight
  <1>1. ASSUME TypeOK PROVE sendFee = ledgerOappSendQuote + QuoteIsShortBy
    <2>1. /\ gasPrice \in Nat /\ options.gas \in Nat /\ options.value \in Nat
          /\ DefaultGas \in Nat
      BY <1>1, PriceType, LedgerAssumption
    <2>2. CASE options.gas = 0
      <3> DEFINE price == gasPrice * DefaultGas
      <3>1. sendFee = price + options.value /\ QuoteIsShortBy = price
        BY <2>2 DEF sendFee, sendGas, endpoint_quote, QuoteIsShortBy
      <3>2. ledgerOappSendQuote = options.value
        BY <2>1, <2>2 DEF ledgerOappSendQuote, endpoint_quote
      <3>3. price \in Nat
        BY <2>1
      <3> HIDE DEF price
      <3>4. QED
        BY <2>1, <3>1, <3>2, <3>3
    <2>3. CASE options.gas # 0
      BY <2>1, <2>3 DEF ledgerOappSendQuote, sendFee, sendGas, endpoint_quote,
                        QuoteIsShortBy
    <2>4. QED
      BY <2>2, <2>3
  <1>2. TypeOK => QuoteIsTight
    BY <1>1 DEF QuoteIsTight, Sendable
  <1>3. QED
    BY <1>2, LedgerTypeCorrect, PTL

\* Every message carries gas to run on.
THEOREM SendsAlwaysCarryGas == Spec => []SendsCarryGas
  <1>1. Init => SendsCarryGas
    BY DEF Init, SendsCarryGas
  <1>2. TypeOK /\ SendsCarryGas /\ [Next]_vars => SendsCarryGas'
    <2> SUFFICES ASSUME TypeOK, SendsCarryGas, [Next]_vars PROVE SendsCarryGas'
      OBVIOUS
    <2>1. ASSUME NEW m \in Managers, NEW message \in Messages,
                 NEW value \in MsgValues, LedgerOappSend(m, message, value)
          PROVE  SendsCarryGas'
      <3>1. PICK s \in SentType : sent' = sent \cup {s} /\ s.gas = sendGas
        BY <2>1, SendEffects
      <3>2. QED
        BY <3>1, FeeType DEF SendsCarryGas
    <2>2. CASE UNCHANGED outboundVars
      BY <2>2 DEF outboundVars, SendsCarryGas
    <2>3. QED
      BY <2>1, <2>2, WhatTouchesSent
  <1>3. QED
    BY <1>1, <1>2, LedgerTypeCorrect, PTL DEF Spec

=============================================================================
