-------------------------------- MODULE OFT --------------------------------
(***************************************************************************)
(* The OFT program (programs/oft): a token that moves between chains.  On  *)
(* this chain it is either Native, burned on the way out and minted on the *)
(* way in, or an Adapter's, locked in the program's escrow and released.   *)
(* The escrow also holds the fees.  Each peer has a rate limit either way. *)
(*                                                                         *)
(* An instruction is one atomic step, as in SolanaProxy, and a step's      *)
(* guard is the conjunction of every check on the way, the ones of the     *)
(* token program and of checked arithmetic included.                       *)
(***************************************************************************)
EXTENDS OFTAmounts, FiniteSetsExt

CONSTANTS
    OftType,          \* Native or Adapter
    Native, Adapter,
    Users,            \* owners of token accounts
    Escrow,           \* the program's token account
    Keys,             \* keys that may be admin or delegate
    PausingKeys,      \* those that may be pauser or unpauser
    Eids, Addresses, ZeroAddress,
    InitialTokens,    \* what each user starts with
    TransferFees,     \* transfer fees the mint may have
    FeeRates,         \* basis points an admin may set
    RateLimits,       \* rate limits an admin may set
    SendAmounts, Minimums,    \* amount_ld and min_amount_ld of a send
    Withdrawals,      \* fee_ld of a withdraw_fee
    Packets,          \* packets that may be sent to the program
    Composing,        \* whether messages carry a compose_msg
    MaxTime, MaxSends, MaxMarks

Accounts == Users \cup {Escrow}
Option(S) == S \cup {None}

OFTStore == [tvl_ld : Nat, admin : Keys, default_fee_bps : Bps,
             paused : BOOLEAN, pauser : Option(Keys), unpauser : Option(Keys)]

\* A peer's outbound_rate_limiter and inbound_rate_limiter.
Ways == {"outbound", "inbound"}

PeerConfig == [peer_address : Addresses \cup {ZeroAddress},
               limiter : [Ways -> Option(RateLimiter)], fee_bps : Option(Bps)]

RateLimitParams == [refill_per_second : Option(u64), capacity : Option(u64)]

\* A message the endpoint was given.  As history, its sender and the
\* sender's terms: the most to be taken and the least to arrive.
Message == [nonce : 1..MaxSends, dst_eid : Eids, wire : Nat,
            compose : BOOLEAN, from : Users, amount_ld : u64,
            min_amount_ld : u64]

\* A packet that arrived: its path, its nonce, and the fields of its message.
Packet == [src_eid : Eids, sender : Addresses, nonce : Nat, to : Users,
           wire : Nat, compose : BOOLEAN]

ASSUME OFTAssumption ==
    /\ OftType \in {Native, Adapter} /\ Native # Adapter
    /\ IsFiniteSet(Users) /\ Escrow \notin Users
    /\ PausingKeys \subseteq Keys
    /\ None \notin Keys \cup OFTStore \cup PeerConfig \cup RateLimiter
    /\ InitialTokens \in Nat
    /\ TransferFees \subseteq TransferFee /\ TransferFees # {}
    /\ OftType = Native => \A fee \in TransferFees : fee.bps = 0
    /\ FeeRates \subseteq Nat
    /\ RateLimits \subseteq RateLimitParams
    /\ SendAmounts \subseteq u64 /\ Minimums \subseteq u64
    /\ Withdrawals \subseteq Nat
    /\ Packets \subseteq Packet
    /\ Composing \subseteq BOOLEAN
    /\ MaxTime \in u64 /\ MaxSends \in Nat /\ MaxMarks \in Nat

VARIABLES
    oft_store,     \* None until init_oft
    peer,          \* per endpoint id, None until set_peer_config
    delegate,      \* endpoint: who may configure the OApp
    balance,       \* token accounts
    withheld,      \* token program: fees withheld from transfers
    transfer_fee,  \* token program: the mint's transfer fee of the epoch
    now,           \* the clock's unix_timestamp
    nonce,         \* endpoint: messages accepted so far
    outbox,        \* endpoint: the messages accepted
    verified,      \* endpoint: packets verified and not yet cleared
    cleared,       \* endpoint: packets cleared
    composed,      \* endpoint: compose messages queued
    window,        \* history: what passed each limiter since a chosen moment
    marks          \* history: moments chosen

configVars   == <<oft_store, peer, delegate>>
tokenVars    == <<balance, withheld, transfer_fee>>
outboundVars == <<nonce, outbox>>
inboundVars  == <<verified, cleared, composed>>
windowVars   == <<window, marks>>

vars == <<configVars, tokenVars, now, outboundVars, inboundVars, windowVars>>

\* What has passed a limiter, and what it had coming since.
Window    == [used : Nat, refilled : Nat]
NewWindow == [used |-> 0, refilled |-> 0]

TypeOK ==
    /\ oft_store \in Option(OFTStore)
    /\ peer \in [Eids -> Option(PeerConfig)]
    /\ delegate \in Option(Keys)
    /\ balance \in [Accounts -> Nat]
    /\ withheld \in Nat
    /\ transfer_fee \in TransferFees
    /\ now \in 0..MaxTime
    /\ nonce \in 0..MaxSends
    /\ outbox \subseteq Message
    /\ verified \subseteq Packets
    /\ cleared \subseteq Packets
    /\ composed \subseteq [packet : Packets, amount : Nat]
    /\ window \in [Eids -> [Ways -> Window]]
    /\ marks \in 0..MaxMarks

Init ==
    /\ oft_store = None
    /\ peer = [eid \in Eids |-> None]
    /\ delegate = None
    /\ balance = [a \in Accounts |-> IF a = Escrow THEN 0 ELSE InitialTokens]
    /\ withheld = 0
    /\ transfer_fee \in TransferFees
    /\ now = 0
    /\ nonce = 0
    /\ outbox = {}
    /\ verified = {}
    /\ cleared = {}
    /\ composed = {}
    /\ window = [eid \in Eids |-> [way \in Ways |-> NewWindow]]
    /\ marks = 0

-----------------------------------------------------------------------------
(* Instructions of the administrator and the two pausing keys.             *)

InitOFT(admin) ==
    /\ oft_store = None
    /\ oft_store' = [tvl_ld |-> 0, admin |-> admin, default_fee_bps |-> 0,
                     paused |-> FALSE, pauser |-> None, unpauser |-> None]
    /\ delegate' = admin
    /\ UNCHANGED <<peer, tokenVars, now, outboundVars, inboundVars, windowVars>>

\* has_one = admin
IsAdmin(signer) == oft_store # None /\ signer = oft_store.admin

\* set_oft_config, all but Delegate: one field of the store.
Configured(signer, new) ==
    /\ IsAdmin(signer)
    /\ oft_store' = new
    /\ UNCHANGED <<peer, delegate, tokenVars, now, outboundVars, inboundVars,
                   windowVars>>

SetAdmin(s, admin)     == Configured(s, [oft_store EXCEPT !.admin = admin])
SetPaused(s, paused)   == Configured(s, [oft_store EXCEPT !.paused = paused])
SetPauser(s, key)      == Configured(s, [oft_store EXCEPT !.pauser = key])
SetUnpauser(s, key)    == Configured(s, [oft_store EXCEPT !.unpauser = key])
SetDefaultFee(s, bps) ==
    /\ bps < ONE_IN_BASIS_POINTS
    /\ Configured(s, [oft_store EXCEPT !.default_fee_bps = bps])

SetDelegate(signer, new) ==
    /\ IsAdmin(signer)
    /\ delegate' = new
    /\ UNCHANGED <<oft_store, peer, tokenVars, now, outboundVars, inboundVars,
                   windowVars>>

\* set_pause: one key may only pause, the other only unpause.
SetPause(signer, paused) ==
    /\ oft_store # None
    /\ signer = IF paused THEN oft_store.pauser ELSE oft_store.unpauser
    /\ oft_store' = [oft_store EXCEPT !.paused = paused]
    /\ UNCHANGED <<peer, delegate, tokenVars, now, outboundVars, inboundVars,
                   windowVars>>

\* The peer's account, made with defaults if it is not there.
PeerOrNew(eid) ==
    IF peer[eid] # None THEN peer[eid]
    ELSE [peer_address |-> ZeroAddress, limiter |-> [way \in Ways |-> None],
          fee_bps |-> None]

\* set_peer_config, whatever the parameter.
PeerConfigured(signer, eid, new) ==
    /\ IsAdmin(signer)
    /\ peer' = [peer EXCEPT ![eid] = new]
    /\ UNCHANGED <<oft_store, delegate, tokenVars, now, outboundVars,
                   inboundVars, marks>>

SetPeerAddress(s, eid, address) ==
    /\ PeerConfigured(s, eid, [PeerOrNew(eid) EXCEPT !.peer_address = address])
    /\ UNCHANGED window

SetPeerFee(s, eid, bps) ==
    /\ bps # None => bps < ONE_IN_BASIS_POINTS
    /\ PeerConfigured(s, eid, [PeerOrNew(eid) EXCEPT !.fee_bps = bps])
    /\ UNCHANGED window

\* EnforcedOptions, which shape and price the message.
SetPeerOptions(s, eid) ==
    /\ PeerConfigured(s, eid, PeerOrNew(eid))
    /\ UNCHANGED window

\* update_rate_limiter, with the parts of the parameters that are given.
update_rate_limiter(limiter, params) ==
    LET old    == IF limiter = None THEN EmptyLimiter ELSE limiter
        filled == IF params.capacity = None THEN old
                  ELSE set_capacity(old, params.capacity, now)
    IN IF params.refill_per_second = None THEN filled
       ELSE set_rate(filled, params.refill_per_second, now)

\* OutboundRateLimit and InboundRateLimit.  A bucket that is new or was just
\* filled starts a window of its own.
SetRateLimit(s, eid, way, params) ==
    LET old == PeerOrNew(eid).limiter[way] IN
    /\ PeerConfigured(s, eid, [PeerOrNew(eid) EXCEPT
         !.limiter[way] = update_rate_limiter(old, params)])
    /\ window' = IF old = None \/ params.capacity # None
                 THEN [window EXCEPT ![eid][way] = NewWindow] ELSE window

RemoveRateLimit(s, eid, way) ==
    /\ PeerConfigured(s, eid, [PeerOrNew(eid) EXCEPT !.limiter[way] = None])
    /\ window' = [window EXCEPT ![eid][way] = NewWindow]

\* The token program's transfer_checked: the fee is withheld at the receiver.
\* A transfer to the same account changes nothing.
TokenTransfer(from, to, amount) ==
    /\ balance[from] >= amount
    /\ IF from = to THEN UNCHANGED <<balance, withheld>>
       ELSE /\ balance' = [balance EXCEPT
                 ![from] = @ - amount,
                 ![to] = @ + get_post_fee_amount_ld(transfer_fee, amount)]
            /\ withheld' = withheld + withheld_of(transfer_fee, amount)

\* withdraw_fee: what the escrow holds above the value locked.
MutWholeEscrow   == balance[Escrow]
withdrawable_fee == balance[Escrow] - oft_store.tvl_ld

WithdrawFee(signer, dest, fee_ld) ==
    /\ IsAdmin(signer)
    /\ withdrawable_fee >= fee_ld
    /\ TokenTransfer(Escrow, dest, fee_ld)
    /\ UNCHANGED <<configVars, transfer_fee, now, outboundVars, inboundVars,
                   windowVars>>

-----------------------------------------------------------------------------
(* Instructions of the users and of the endpoint's executors.              *)

MutNoPauseCheck == oft_store # None
Running == oft_store # None /\ ~oft_store.paused

\* compute_fee_and_adjust_amount
amounts(amount_ld, eid) ==
    IF OftType = Adapter
    THEN adapter_amounts(amount_ld, transfer_fee, oft_store.default_fee_bps,
                         peer[eid].fee_bps)
    ELSE native_amounts(amount_ld, oft_store.default_fee_bps,
                        peer[eid].fee_bps)

\* An amount uses up the limit of its way and refills the limit of the other.
MutNotConsumed(eid, way, amount) ==
    LET limiter == peer[eid].limiter IN
    [w \in Ways |-> IF limiter[w] = None THEN None
                    ELSE IF w = way THEN refill(limiter[w], 0, now)
                    ELSE refill(limiter[w], amount, now)]
NewLimiters(eid, way, amount) ==
    LET limiter == peer[eid].limiter IN
    [w \in Ways |-> IF limiter[w] = None THEN None
                    ELSE IF w = way THEN consume(limiter[w], amount, now)
                    ELSE refill(limiter[w], amount, now)]

NewWindows(eid, way, amount) ==
    LET limiter == peer[eid].limiter IN
    [w \in Ways |-> IF limiter[w] = None THEN window[eid][w]
                    ELSE IF w = way
                    THEN [window[eid][w] EXCEPT !.used = @ + amount]
                    ELSE [window[eid][w] EXCEPT !.refilled = @ + amount]]

PassLimits(eid, way, amount) ==
    /\ peer[eid].limiter[way] # None =>
         can_consume(peer[eid].limiter[way], amount, now)
    /\ peer' = [peer EXCEPT ![eid].limiter = NewLimiters(eid, way, amount)]
    /\ window' = [window EXCEPT ![eid] = NewWindows(eid, way, amount)]

\* A send takes the tokens from its sender: an Adapter locks what it tells
\* the other chain of, and a Native OFT burns it; the fee goes to the escrow.
MutLockWithFee(u, amount) ==
    /\ TokenTransfer(u, Escrow, amount.sent)
    /\ oft_store' = [oft_store EXCEPT !.tvl_ld = @ + amount.sent]
Lock(u, amount) ==
    /\ TokenTransfer(u, Escrow, amount.sent)
    /\ oft_store' = [oft_store EXCEPT !.tvl_ld = @ + amount.received]

Burn(u, amount) ==
    /\ balance[u] >= amount.sent
    /\ balance' = [balance EXCEPT ![u] = @ - amount.sent,
                                  ![Escrow] = @ + amount.fee]
    /\ UNCHANGED <<oft_store, withheld>>

Send(u, eid, amount_ld, min_amount_ld, compose) ==
    LET amount == amounts(amount_ld, eid) IN
    /\ Running
    /\ peer[eid] # None
    /\ amount.received >= min_amount_ld
    /\ PassLimits(eid, "outbound", amount.received)
    /\ IF OftType = Adapter THEN Lock(u, amount) ELSE Burn(u, amount)
    /\ nonce < MaxSends
    /\ nonce' = nonce + 1
    /\ outbox' = outbox \cup
         {[nonce |-> nonce + 1, dst_eid |-> eid, from |-> u,
           wire |-> u64_to_bytes32(ld2sd(amount.received)),
           compose |-> compose, amount_ld |-> amount_ld,
           min_amount_ld |-> min_amount_ld]}
    /\ UNCHANGED <<delegate, transfer_fee, now, inboundVars, marks>>

\* What a message on the wire is worth here.
amount_of(wire) == sd2ld(bytes32_to_u64(wire))

\* A receipt gives the tokens to its receiver, released or minted.
MutAnyAmount(to, amount_ld) ==
    /\ TokenTransfer(Escrow, to, amount_ld)
    /\ oft_store' = [oft_store EXCEPT !.tvl_ld = @ - amount_ld]
Release(to, amount_ld) ==
    /\ oft_store.tvl_ld >= amount_ld
    /\ TokenTransfer(Escrow, to, amount_ld)
    /\ oft_store' = [oft_store EXCEPT !.tvl_ld = @ - amount_ld]

\* The token program keeps a mint's supply in a u64.
Supply == SumFunction(balance)

Mint(to, amount_ld) ==
    /\ Supply + amount_ld < U64
    /\ balance' = [balance EXCEPT ![to] = @ + amount_ld]
    /\ UNCHANGED <<oft_store, withheld>>

\* The amount a compose message carries, at lz_receive and in the plan of
\* lz_receive_types.
MutComposeBeforeFee(amount_ld) == amount_ld
composed_amount(amount_ld) ==
    IF OftType = Adapter THEN get_post_fee_amount_ld(transfer_fee, amount_ld)
                         ELSE amount_ld

\* The endpoint's clear: only a verified packet, and never again.
MutNotCleared(packet) ==
    packet \in verified /\ cleared' = cleared \cup {packet} /\ UNCHANGED verified
Clear(packet) ==
    /\ packet \in verified
    /\ verified' = verified \ {packet}
    /\ cleared' = cleared \cup {packet}

\* lz_receive with any accounts.  Of those only the account of the compose
\* message can be other than planned now: its address is made of the amount.
LzReceive(packet, planned) ==
    LET amount_ld == amount_of(packet.wire) IN
    /\ Running
    /\ peer[packet.src_eid] # None
    /\ peer[packet.src_eid].peer_address = packet.sender
    /\ Clear(packet)
    /\ amount_ld \in u64
    /\ PassLimits(packet.src_eid, "inbound", amount_ld)
    /\ IF OftType = Adapter THEN Release(packet.to, amount_ld)
                            ELSE Mint(packet.to, amount_ld)
    /\ IF packet.compose
       THEN /\ planned = composed_amount(amount_ld)
            /\ composed' = composed \cup
                 {[packet |-> packet, amount |-> composed_amount(amount_ld)]}
       ELSE UNCHANGED composed
    /\ UNCHANGED <<delegate, transfer_fee, now, outboundVars, marks>>

\* lz_receive_types and, in time, lz_receive.
MutPlanBeforeFee(packet) == amount_of(packet.wire)
lz_receive_types(packet) == composed_amount(amount_of(packet.wire))
Execute(packet) == LzReceive(packet, lz_receive_types(packet))

-----------------------------------------------------------------------------
(* The endpoint, the clock and the token, outside the program.             *)

Verify(packet) ==
    /\ packet \notin verified \cup cleared
    /\ verified' = verified \cup {packet}
    /\ UNCHANGED <<configVars, tokenVars, now, outboundVars, cleared, composed,
                   windowVars>>

\* Time passes, and each bucket has its rate coming.
Tick ==
    /\ now < MaxTime
    /\ now' = now + 1
    /\ window' = [eid \in Eids |-> [way \in Ways |->
         IF peer[eid] = None THEN window[eid][way]
         ELSE IF peer[eid].limiter[way] = None THEN window[eid][way]
         ELSE [window[eid][way] EXCEPT
                 !.refilled = @ + peer[eid].limiter[way].refill_per_second]]]
    /\ UNCHANGED <<configVars, tokenVars, outboundVars, inboundVars, marks>>

TransferFeeChange(fee) ==
    /\ transfer_fee' = fee
    /\ UNCHANGED <<configVars, balance, withheld, now, outboundVars,
                   inboundVars, windowVars>>

\* Tokens sent to an account by their owner, past the program.
UserTransfer(u, to, amount) ==
    /\ TokenTransfer(u, to, amount)
    /\ UNCHANGED <<configVars, transfer_fee, now, outboundVars, inboundVars,
                   windowVars>>

\* A moment is chosen from which to count.
Mark(eid, way) ==
    /\ marks < MaxMarks
    /\ marks' = marks + 1
    /\ window' = [window EXCEPT ![eid][way] = NewWindow]
    /\ UNCHANGED <<configVars, tokenVars, now, outboundVars, inboundVars>>

AdminNext ==
    \/ \E admin \in Keys : InitOFT(admin)
    \/ \E s \in Keys :
         \/ \E key \in Keys : SetAdmin(s, key) \/ SetDelegate(s, key)
         \/ \E key \in Option(PausingKeys) : SetPauser(s, key) \/ SetUnpauser(s, key)
         \/ \E paused \in BOOLEAN : SetPaused(s, paused) \/ SetPause(s, paused)
         \/ \E bps \in FeeRates : SetDefaultFee(s, bps)
         \/ \E dest \in Accounts, fee_ld \in Withdrawals :
              WithdrawFee(s, dest, fee_ld)

PeerNext ==
    \E s \in Keys, eid \in Eids :
      \/ \E address \in Addresses \cup {ZeroAddress} :
           SetPeerAddress(s, eid, address)
      \/ \E bps \in Option(FeeRates) : SetPeerFee(s, eid, bps)
      \/ SetPeerOptions(s, eid)
      \/ \E way \in Ways :
           \/ \E params \in RateLimits : SetRateLimit(s, eid, way, params)
           \/ RemoveRateLimit(s, eid, way)

TokenNext ==
    \/ \E u \in Users, eid \in Eids, amount_ld \in SendAmounts,
          min_amount_ld \in Minimums, compose \in Composing :
         Send(u, eid, amount_ld, min_amount_ld, compose)
    \/ \E packet \in Packets, fee \in TransferFees :
         LzReceive(packet, get_post_fee_amount_ld(fee, amount_of(packet.wire)))
    \/ \E u \in Users, to \in Accounts, amount \in SendAmounts :
         UserTransfer(u, to, amount)

EnvironmentNext ==
    \/ \E packet \in Packets : Verify(packet)
    \/ Tick
    \/ \E fee \in TransferFees : TransferFeeChange(fee)
    \/ \E eid \in Eids, way \in Ways : Mark(eid, way)

Next == AdminNext \/ PeerNext \/ TokenNext \/ EnvironmentNext

Spec == Init /\ [][Next]_vars

\* An executor keeps trying each packet, with the accounts planned at the time.
FairSpec == Spec /\ \A packet \in Packets : WF_vars(Execute(packet))

-----------------------------------------------------------------------------
(* Properties.                                                             *)

\* The escrow always holds what is locked: tvl_ld can be paid out, whatever
\* was sent, withdrawn or withheld, and fees are all withdraw_fee can reach.
EscrowCovers == oft_store # None => balance[Escrow] >= oft_store.tvl_ld

SumOfWires(S) == SumFunction([m \in S |-> amount_of(m.wire)])

\* Tokens are neither lost nor made on the way: what the other chains were
\* told of, less what they sent back, is what an Adapter keeps locked and what
\* left a Native OFT's supply.
NothingIsLost ==
    LET away == SumOfWires(outbox) - SumOfWires(cleared) IN
    IF OftType = Adapter
    THEN away = IF oft_store = None THEN 0 ELSE oft_store.tvl_ld
    ELSE Supply + away = Cardinality(Users) * InitialTokens

\* Its inductive form: messages are told apart by their nonce, packets are
\* cleared once, and nothing leaves or arrives before init_oft.
TransitInv ==
    /\ IsFiniteSet(outbox) /\ IsFiniteSet(cleared)
    /\ \A m \in outbox : m.nonce <= nonce
    /\ verified \cap cleared = {}
    /\ oft_store = None => outbox = {} /\ cleared = {}
    /\ NothingIsLost

\* A send keeps its sender's terms: what the other chain is told of is at
\* least min_amount_ld, and what is taken at most amount_ld and no less than
\* what the other chain is told of.
SendKeepsItsTerms ==
    [][\A m \in outbox' \ outbox :
         LET paid == balance[m.from] - balance'[m.from] IN
         /\ m.min_amount_ld <= amount_of(m.wire)
         /\ amount_of(m.wire) <= paid
         /\ paid <= m.amount_ld]_vars

\* Inverting the transfer fee is exact: of what calculate_pre_fee_amount says
\* to send, the token program lets arrive just the amount asked for, although
\* the two divisions round apart.
PreFeeIsExact(amount) ==
    get_post_fee_amount_ld(transfer_fee, calculate_pre_fee_amount(transfer_fee, amount))
      = amount

\* A sender is never taken more than amount_ld, although an Adapter recomputes
\* what to take from what should arrive; and what the receiver and the fees get
\* is all that arrives.
TakesNoMore(amount_ld, amount) ==
    /\ amount.sent <= amount_ld
    /\ get_post_fee_amount_ld(transfer_fee, amount.sent) = amount.received + amount.fee

\* What is told to the other chain has no dust, whatever the fee, so that
\* shared decimals express it.
ToldExactly(amount) ==
    /\ amount.received >= 0
    /\ sd2ld(ld2sd(amount.received)) = amount.received

\* All together, for whatever amount is sent or quoted under the fees of the
\* moment, with a transfer fee that quote_oft lists as the token program
\* withholds it: no rounding of the program's, up or down, is off.
AmountsAreExact ==
    \A eid \in Eids, amount_ld \in u64 :
      oft_store # None /\ peer[eid] # None =>
        LET amount == amounts(amount_ld, eid) IN
        /\ PreFeeIsExact(amount_ld)
        /\ TakesNoMore(amount_ld, amount)
        /\ ToldExactly(amount)
        /\ quoted_transfer_fee(amount) = withheld_of(transfer_fee, amount.sent)

\* A compose message names the amount its receiver got in the same step, after
\* the transfer fee.
ComposeSaysWhatArrived ==
    [][\A c \in composed' \ composed :
         balance'[c.packet.to] = balance[c.packet.to] + c.amount]_vars

\* While the program is paused nothing leaves and nothing arrives, and what
\* waits is kept.
OFTPauseFreezes ==
    [][oft_store # None /\ oft_store.paused =>
         /\ UNCHANGED <<outboundVars, cleared, composed>>
         /\ oft_store'.tvl_ld = oft_store.tvl_ld
         /\ verified \subseteq verified']_vars

\* Since its bucket was last filled, or any later moment, a peer's way passed
\* no more than the capacity, plus what the rate and the other way refilled.
RateLimitHolds ==
    \A eid \in Eids, way \in Ways :
      peer[eid] # None =>
        (peer[eid].limiter[way] # None =>
           window[eid][way].used
             <= peer[eid].limiter[way].capacity + window[eid][way].refilled)

\* Its inductive form: what the bucket holds at the moment is within that too.
WindowInv ==
    \A eid \in Eids, way \in Ways :
      peer[eid] # None =>
        (peer[eid].limiter[way] # None =>
           window[eid][way].used + available(peer[eid].limiter[way], now)
             <= peer[eid].limiter[way].capacity + window[eid][way].refilled)

\* The program is set up for a packet and can pay what it carries.
ReadyFor(packet) ==
    LET amount_ld == amount_of(packet.wire) IN
    /\ Running
    /\ peer[packet.src_eid] # None
    /\ peer[packet.src_eid].peer_address = packet.sender
    /\ peer[packet.src_eid].limiter["inbound"] = None
    /\ amount_ld \in u64
    /\ IF OftType = Adapter THEN oft_store.tvl_ld >= amount_ld
                            ELSE Supply + amount_ld < U64

\* A verified packet is delivered once the program stays ready for it, however
\* often the mint's transfer fee, which shapes its compose message, changes:
\* the executor plans the accounts anew.  A packet once refused for a limit, a
\* pause or want of locked tokens is not lost.
OFTPacketsArrive ==
    \A packet \in Packets :
      <>[](packet \in cleared \/ ReadyFor(packet)) =>
        (packet \in verified ~> packet \in cleared)

=============================================================================
