---------------------------- MODULE LedgerOApp ----------------------------
(***************************************************************************)
(* The LedgerOApp contract on the ledger chain (contracts/LedgerOApp.sol)  *)
(* with the OApp contracts it inherits.  It hands the messages of the      *)
(* Solana program over to the OCC manager and sends the manager's USDC     *)
(* payments to the program, the manager paying for the messaging in the    *)
(* native coin.                                                            *)
(*                                                                         *)
(* A transaction is one atomic step; a revert anywhere in it undoes it, so *)
(* a step's guard is the conjunction of all the require's on the way.      *)
(* Unset is the zero address, the zero endpoint id and the zero chain id.  *)
(***************************************************************************)
EXTENDS Integers, OCCTypes

CONSTANTS
    Owners,          \* keys that may own the contract
    Managers,        \* OCC manager contracts
    Oapp,            \* the contract's own address
    Eids,            \* LayerZero endpoint ids
    ChainIds,        \* chain ids the managers know Solana under
    Addresses,       \* addresses of programs on the other chains
    Receivers,       \* accounts a payment may be for
    Unset,
    Packets,         \* packets that may be sent to the contract
    Messages,        \* what a manager may ask to be sent
    Gas,             \* gas limits an owner may set, zero among them or not
    Values,          \* values an owner may set or an executor may attach
    DefaultGas,      \* 500000, scaled
    GasPrices,       \* what the endpoint may charge for a unit of gas
    MsgValues,       \* msg.value of a send
    InitialWei,      \* what each manager starts with
    MaxSends,        \* bound on outbound messages
    MaxDrops         \* bound on the value executors attach

Peer     == Addresses \cup {Unset}
Options  == [gas : Gas \cup {0}, value : Values \cup {0}]
Settings == [solanaEid : Eids \cup {Unset}, solanaChainId : ChainIds \cup {Unset}]

\* A packet for the contract: its path, its nonce, and of its message what
\* the contract looks at.  "sender" is the user on Solana, "payload" is opaque.
PacketType ==
    [srcEid : Eids, peer : Addresses, nonce : Nat, token : uint8,
     sender : Receivers, payloadType : uint8]

\* OCCLedgerMessage
MessageType ==
    [dstChainId : ChainIds \cup {Unset}, token : LedgerToken, tokenAmount : Nat,
     receiver : Receivers, payloadType : uint8]

\* What the endpoint is given, with the manager that paid for it and the fee.
SentType ==
    [nonce : 1..MaxSends, dstEid : Eids, peer : Addresses, message : Messages,
     gas : Nat, manager : Managers, fee : Nat]

ASSUME LedgerAssumption ==
    /\ Oapp \notin Managers
    /\ Unset \notin Managers \cup Eids \cup ChainIds \cup Addresses
    /\ Packets \subseteq PacketType
    /\ Messages \subseteq MessageType
    /\ Gas \subseteq Nat /\ Values \subseteq Nat
    /\ DefaultGas \in Nat \ {0}
    /\ GasPrices \subseteq Nat \ {0} /\ GasPrices # {}
    /\ MsgValues \subseteq Nat
    /\ InitialWei \in Nat
    /\ MaxSends \in Nat /\ MaxDrops \in Nat

VARIABLES
    owner,            \* OwnableUpgradeable
    paused,           \* PausableUpgradeable
    occManagerAddr,
    options,          \* payloadType2LzOptions of the one type it is set for
    peers,            \* OAppCoreUpgradeable
    delegate,         \* endpoint: who may configure the OApp
    settings,         \* each manager's solanaEid and the chain id of it
    gasPrice,         \* endpoint: what a unit of gas costs now
    wei,              \* native balances of the managers and the contract
    inbound,          \* endpoint: packets verified and not yet executed
    executed,         \* endpoint: packets executed
    received,         \* per manager and packet, calls of ledgerOappReceive
    sent,             \* endpoint: messages accepted
    sendNonce,        \* endpoint: how many
    dropped,          \* history: value executors attached to lzReceive
    swept             \* history: value withdrawTo paid out

ownerVars    == <<owner, paused, occManagerAddr, options, peers, delegate>>
externalVars == <<settings, gasPrice>>
inboundVars  == <<inbound, executed, received, dropped>>
outboundVars == <<sent, sendNonce>>

vars == <<ownerVars, externalVars, inboundVars, outboundVars, wei, swept>>

TypeOK ==
    /\ owner \in Owners \cup {Unset}
    /\ paused \in BOOLEAN
    /\ occManagerAddr \in Managers \cup {Unset}
    /\ options \in Options
    /\ peers \in [Eids -> Peer]
    /\ delegate \in Owners
    /\ settings \in [Managers -> Settings]
    /\ gasPrice \in GasPrices
    /\ wei \in [Managers \cup {Oapp} -> Nat]
    /\ inbound \subseteq Packets
    /\ executed \subseteq Packets
    /\ received \in [Managers -> [Packets -> Nat]]
    /\ sent \subseteq SentType
    /\ sendNonce \in 0..MaxSends
    /\ dropped \in Nat
    /\ swept \in Nat

\* The proxy is deployed and initialize called in one transaction.
Init ==
    /\ owner \in Owners
    /\ paused = FALSE
    /\ occManagerAddr = Unset
    /\ options = [gas |-> 0, value |-> 0]
    /\ peers = [eid \in Eids |-> Unset]
    /\ delegate = owner
    /\ settings = [m \in Managers |-> [solanaEid |-> Unset, solanaChainId |-> Unset]]
    /\ gasPrice \in GasPrices
    /\ wei = [a \in Managers \cup {Oapp} |-> IF a = Oapp THEN 0 ELSE InitialWei]
    /\ inbound = {}
    /\ executed = {}
    /\ received = [m \in Managers |-> [p \in Packets |-> 0]]
    /\ sent = {}
    /\ sendNonce = 0
    /\ dropped = 0
    /\ swept = 0

-----------------------------------------------------------------------------
(* Transactions of the owner.                                              *)

SetOCCManagerAddr(s, manager) ==
    /\ s = owner
    /\ occManagerAddr' = manager
    /\ UNCHANGED <<owner, paused, options, peers, delegate, externalVars,
                   inboundVars, outboundVars, wei, swept>>

SetOptions(s, payloadType, gas, value) ==
    /\ s = owner
    /\ checkLedgerPayloadType(payloadType)
    /\ options' = [gas |-> gas, value |-> value]
    /\ UNCHANGED <<owner, paused, occManagerAddr, peers, delegate, externalVars,
                   inboundVars, outboundVars, wei, swept>>

\* withdrawTo: everything the contract holds, to an account outside the model.
WithdrawTo(s) ==
    /\ s = owner
    /\ swept' = swept + wei[Oapp]
    /\ wei' = [wei EXCEPT ![Oapp] = 0]
    /\ UNCHANGED <<ownerVars, externalVars, inboundVars, outboundVars>>

\* setPeers, and setPeer when there is one.
SetPeers(s, new) ==
    /\ s = owner
    /\ peers' = [eid \in Eids |-> IF eid \in DOMAIN new THEN new[eid]
                                                        ELSE peers[eid]]
    /\ UNCHANGED <<owner, paused, occManagerAddr, options, delegate,
                   externalVars, inboundVars, outboundVars, wei, swept>>

SetDelegate(s, new) ==
    /\ s = owner
    /\ delegate' = new
    /\ UNCHANGED <<owner, paused, occManagerAddr, options, peers,
                   externalVars, inboundVars, outboundVars, wei, swept>>

Pause(s) ==
    /\ s = owner
    /\ ~paused
    /\ paused' = TRUE
    /\ UNCHANGED <<owner, occManagerAddr, options, peers, delegate,
                   externalVars, inboundVars, outboundVars, wei, swept>>

Unpause(s) ==
    /\ s = owner
    /\ paused
    /\ paused' = FALSE
    /\ UNCHANGED <<owner, occManagerAddr, options, peers, delegate,
                   externalVars, inboundVars, outboundVars, wei, swept>>

\* transferOwnership, and renounceOwnership when new is Unset.
TransferOwnership(s, new) ==
    /\ s = owner
    /\ owner' = new
    /\ UNCHANGED <<paused, occManagerAddr, options, peers, delegate,
                   externalVars, inboundVars, outboundVars, wei, swept>>

-----------------------------------------------------------------------------
(* Receiving.                                                              *)

whenNotPaused == ~paused

\* Of lzReceive and _lzReceive, everything that may revert.
Acceptable(p) ==
    /\ peers[p.srcEid] = p.peer
    /\ whenNotPaused
    /\ occManagerAddr # Unset
    /\ settings[occManagerAddr].solanaEid = p.srcEid
    /\ p.token \in LedgerToken
    /\ checkVaultPayloadType(p.payloadType)
    /\ settings[occManagerAddr].solanaChainId # Unset

\* The endpoint clears a packet before it calls lzReceive, in the same
\* transaction.
Clear(p) ==
    /\ p \in inbound
    /\ inbound' = inbound \ {p}
    /\ executed' = executed \cup {p}

(* Bug: a call of the manager whose revert is caught. *)
MutRevertSwallowed(p) ==
    \/ received' = [received EXCEPT ![occManagerAddr][p] = @ + 1]
    \/ UNCHANGED received

\* ledgerOappReceive of the manager: if it reverts, all of lzReceive does, and
\* the packet waits on.
HandOver(p) == received' = [received EXCEPT ![occManagerAddr][p] = @ + 1]

\* An executor delivers a packet, attaching some value of its own: lzReceive
\* is payable.
LzReceive(p, value) ==
    /\ Acceptable(p)
    /\ Clear(p)
    /\ HandOver(p)
    /\ dropped + value <= MaxDrops
    /\ dropped' = dropped + value
    /\ wei' = [wei EXCEPT ![Oapp] = @ + value]
    /\ UNCHANGED <<ownerVars, externalVars, outboundVars, swept>>

-----------------------------------------------------------------------------
(* Sending.                                                                *)

\* The endpoint's price of a message, executor option included.
endpoint_quote(gas, value) == gasPrice * gas + value

sendGas == IF options.gas = 0 THEN DefaultGas ELSE options.gas

sendFee == endpoint_quote(sendGas, options.value)

\* ledgerOappSendQuote does not fill in the default.
MutQuoteForgetsValue == endpoint_quote(options.gas, 0)
ledgerOappSendQuote == endpoint_quote(options.gas, options.value)

\* Of ledgerOappSend, everything that may revert.
MutNoPeerCheck(m, message, value) ==
    /\ m = occManagerAddr
    /\ settings[m].solanaEid # Unset
    /\ settings[m].solanaChainId # Unset
    /\ checkLedgerPayloadType(message.payloadType)
    /\ message.dstChainId = settings[m].solanaChainId
    /\ message.token = USDC
    /\ value >= sendFee
Sendable(m, message, value) ==
    /\ m = occManagerAddr
    /\ settings[m].solanaEid # Unset
    /\ settings[m].solanaChainId # Unset
    /\ checkLedgerPayloadType(message.payloadType)
    /\ message.dstChainId = settings[m].solanaChainId
    /\ message.token = USDC
    /\ peers[settings[m].solanaEid] # Unset
    /\ value >= sendFee

\* What _lzSend forwards to the endpoint, which refunds what is above its
\* fee to the manager.
messageValue(value)  == value

LedgerOappSend(m, message, value) ==
    LET forwarded == messageValue(value) IN
    /\ Sendable(m, message, value)
    /\ sendNonce < MaxSends
    /\ wei[m] >= value
    /\ wei' = [wei EXCEPT ![m] = @ - value + (forwarded - sendFee),
                          ![Oapp] = @ + (value - forwarded)]
    /\ sendNonce' = sendNonce + 1
    /\ sent' = sent \cup
         {[nonce |-> sendNonce + 1, dstEid |-> settings[m].solanaEid,
           peer |-> peers[settings[m].solanaEid], message |-> message,
           gas |-> sendGas, manager |-> m, fee |-> sendFee]}
    /\ UNCHANGED <<ownerVars, externalVars, inboundVars, swept>>

-----------------------------------------------------------------------------
(* The endpoint and the managers, outside the contract.                    *)

Verify(p) ==
    /\ p \notin inbound \cup executed
    /\ inbound' = inbound \cup {p}
    /\ UNCHANGED <<ownerVars, externalVars, executed, received, dropped,
                   outboundVars, wei, swept>>

\* setSolanaEid and setEid2ChainId of a manager.
ManagerSets(m, new) ==
    /\ settings' = [settings EXCEPT ![m] = new]
    /\ UNCHANGED <<ownerVars, gasPrice, inboundVars, outboundVars, wei, swept>>

GasPriceChange(price) ==
    /\ gasPrice' = price
    /\ UNCHANGED <<ownerVars, settings, inboundVars, outboundVars, wei, swept>>

OwnerNext ==
    \E s \in Owners :
      \/ \E m \in Managers \cup {Unset} : SetOCCManagerAddr(s, m)
      \/ \E gas \in Gas, value \in Values :
           SetOptions(s, ClaimUsdcRevenueBackward, gas, value)
      \/ WithdrawTo(s)
      \/ \E some \in SUBSET Eids : \E new \in [some -> Peer] : SetPeers(s, new)
      \/ \E new \in Owners : SetDelegate(s, new)
      \/ Pause(s)
      \/ Unpause(s)
      \/ \E new \in Owners \cup {Unset} : TransferOwnership(s, new)

EndpointNext ==
    \/ \E p \in Packets : Verify(p)
    \/ \E p \in Packets, value \in Values \cup {0} : LzReceive(p, value)
    \/ \E price \in GasPrices : GasPriceChange(price)

ManagerNext ==
    \E m \in Managers :
      \/ \E message \in Messages, value \in MsgValues :
           LedgerOappSend(m, message, value)
      \/ \E new \in Settings : ManagerSets(m, new)

Next == OwnerNext \/ EndpointNext \/ ManagerNext

Spec == Init /\ [][Next]_vars

-----------------------------------------------------------------------------
(* Properties.                                                             *)

\* Every executed packet was handed to exactly one manager, exactly once, and
\* no other packet to any: retries, a pause, a change of the peer or of the
\* manager while packets wait, lose and duplicate nothing.
DeliveredOnce ==
    \A p \in Packets :
      IF p \in executed
      THEN \E m \in Managers : /\ received[m][p] = 1
                               /\ \A n \in Managers \ {m} : received[n][p] = 0
      ELSE \A m \in Managers : received[m][p] = 0

\* No packet can be executed again.
ExecutedForGood == inbound \cap executed = {}

\* While the contract is paused the managers receive nothing and every
\* waiting packet stays executable for later.
PauseHoldsPackets ==
    [][paused => UNCHANGED <<received, executed>> /\ inbound \subseteq inbound']_vars

\* Sending takes from a manager's balance the fee of the message and nothing
\* else, however much it attached.
FeeIsAllItCosts ==
    [][\A m \in Managers : wei'[m] # wei[m] =>
         \E s \in sent' \ sent : s.manager = m /\ wei[m] - wei'[m] = s.fee]_vars

\* The contract holds what executors dropped on it and nothing of the
\* managers' fees or refunds, so withdrawTo takes nobody else's money.
OnlyDropsAreHeld == wei[Oapp] + swept = dropped

\* What ledgerOappSendQuote answers is exactly the least value ledgerOappSend
\* takes, once the owner has set a gas limit.  Until then, the send falls back
\* on the default gas, the quote asks for none, and it is short by exactly the
\* price of the default.
QuoteIsShortBy == IF options.gas = 0 THEN gasPrice * DefaultGas ELSE 0
QuoteIsTight ==
    \A m \in Managers, message \in Messages, value \in MsgValues :
      Sendable(m, message, sendFee) =>
        (Sendable(m, message, value) <=>
           value >= ledgerOappSendQuote + QuoteIsShortBy)

\* A message is on its way with gas to run on, whatever the owner set.
SendsCarryGas == \A s \in sent : s.gas > 0

-----------------------------------------------------------------------------
(* Liveness.  Executors retry; nobody else is obliged to act.              *)

FairSpec == Spec /\ \A p \in Packets : WF_vars(LzReceive(p, 0))

\* The contract is configured for the path of the packet.
ReadyFor(p) ==
    /\ ~paused
    /\ occManagerAddr # Unset
    /\ settings[occManagerAddr].solanaEid = p.srcEid
    /\ settings[occManagerAddr].solanaChainId # Unset
    /\ peers[p.srcEid] = p.peer

=============================================================================
