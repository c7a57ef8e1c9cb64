# Verification of the Orderly Solana bridge

Orderly keeps its staking and revenue ledger on an EVM chain.  Users on Solana
reach it through a program and a contract of this repository and LayerZero between them:

    user ── send_request / send_claim ──▶ Solana Proxy ──▶ LayerZero ──▶ LedgerOApp ──▶ OCC manager
    user ◀── USDC out of the vault ────── Solana Proxy ◀── LayerZero ◀── LedgerOApp ◀── OCC manager

The repository's other program, the OFT (an omnichain token), moves tokens
between Solana and other chains and shares with the proxy only the endpoint.

This directory models both ends, the path between them, the OFT, and the
command-line tasks that deploy, configure and use them in TLA+, checks small
instances with TLC, and proves the central results with TLAPS for every value
of the constants.

Contents: [inventory](#1-inventory), [modules](#2-modules),
[runs](#3-runs), [fairness](#4-fairness), [proofs](#5-proofs),
[assumptions and abstractions](#6-assumptions-and-abstractions),
[findings](#7-findings), [not modelled](#8-not-modelled), [plan](#9-plan).

## 1. Inventory

### Solana Proxy program (`programs/solana-proxy`)

| | |
|---|---|
| state | `proxy_config` (admin, paused, the accounts' lamports, among them all backward fees), one `peer_config` per endpoint id, `backward_fee`, `account_list`, one `claim_data` per user, the program's USDC token account (the vault) |
| operations | users: `send_request`, `submit_proof`, `send_claim`, and the quotes; executors: `lz_receive_types`, `lz_receive`; admin: `init_proxy`, `set_backward_fee`, `set_pause`, `set_account_list`, `set_peer_config`, `set_delegate`, `transfer_admin`, `withdraw_fee` |
| interacts | calls the endpoint (`send`, `quote`, `clear`, `set_delegate`), the system program (fees) and the token program (payouts) |
| hard | prices move between quote and send; the backward fee is moved before the offer is fully checked; proofs are replaced and sent in any order; packets arrive late, in any order, many times, from anyone, with accounts of the caller's choice; the vault runs dry; the admin reconfigures while packets wait |
| correct when | fees are collected exactly and never beyond the offer; a proof leaves once, the last one, the sender's own; each ledger packet is paid once, to its receiver, in its amount; nothing happens while paused; the config account stays rent exempt; packets are paid eventually |

### LedgerOApp contract (`contracts/LedgerOApp.sol`, `lib/`, and the OApp base contracts it inherits)

| | |
|---|---|
| state | owner, paused, `occManagerAddr`, `payloadType2LzOptions`, `peers`; at the endpoint the delegate; its native balance |
| operations | `lzReceive`; `ledgerOappSend`, `ledgerOappSendQuote`; owner: `setOCCManagerAddr`, `setOptions`, `withdrawTo`, `setPeer(s)`, `setDelegate`, `pause`, `unpause`, ownership |
| interacts | reads `solanaEid` and `eid2ChainId` from the OCC manager at the moment of each call, calls `ledgerOappReceive` of it, sends through the endpoint, which refunds the manager |
| hard | packets wait while owner and manager change every setting they will be judged by; excess value and refunds; default gas applied by the send and not by the quote; two copies of the code tables, one per language |
| correct when | each request reaches exactly one manager exactly once; a pause loses nothing; sending costs the fee and no more; the contract holds nobody's money; what one end sends the other accepts |

### OFT program (`programs/oft`)

| | |
|---|---|
| state | `oft_store` (type Native or Adapter, `tvl_ld`, admin, fee rate, paused and its two keys), one `peer` per endpoint id (address, fee rate, an outbound and an inbound rate limiter), the escrow's token account, which holds locked tokens and fees together |
| operations | users: `send`, the quotes; executors: `lz_receive_types`, `lz_receive`; admin: `init_oft`, `set_oft_config`, `set_peer_config`, `withdraw_fee`; pauser and unpauser: `set_pause` |
| interacts | calls the token program (transfer, burn, mint; a Token-2022 mint may withhold a fee that changes by the epoch) and the endpoint (`send`, `clear`, `send_compose`); reads the clock |
| hard | fees are rounded one way by the token program and inverted the other way by the OFT; dust is removed; tokens and fees share an account; a transfer fee changes between quote and send, and between planning and delivering a composed packet; each way's traffic refills the other way's bucket while the admin changes rate and capacity |
| correct when | the escrow can always pay what is locked; nothing is lost or made between the chains; a sender gives no more and the other chain is told of no less than agreed; no window passes more than the bucket allows; a compose message tells the truth; a pause is total; packets are delivered eventually |

### Deployment tasks (`tasks/proxy/setProxy.ts`, `setLedgerOApp.ts`, with the tables of `constants.ts`)

| | |
|---|---|
| state | what the proxy program, the endpoint and its library hold for the OApp on Solana; libraries and DVNs on the ledger chain; the running task and its step; transactions that were sent and not yet seen |
| operations | `sol:proxy:init`, `setpeer`, `setconfig`, `setfee`, `setaccountlist`, `pause`, `admin`; `orderly:getconfig` (and `orderly:ledgeroapp:setpeer`, which throws before it does anything: section 7) |
| interacts | several transactions each, to the proxy program and both endpoints; reads tables by environment and network |
| hard | a task stops anywhere and is rerun; a transaction that was not seen lands in the middle of a later task; some errors are caught, whatever their reason, and some are not; the handover of the admin role must take the delegate's along; LayerZero's defaults change between a read and what is decided from it |
| correct when | reruns finish what was begun and undo nothing; an error that is caught hides no work that is not done; the delegate is the admin at every moment; after the handover the deployer's key changes nothing; a run of `getconfig` that ends by itself has set what the tables say or found it set |

### Client tasks (`tasks/proxy/setProxy.ts`, `utils.ts`)

| | |
|---|---|
| state | the interface the client was built with, the lookup table, the running task, transactions not seen yet |
| operations | `sol:proxy:request`, `stake`, `submitproof`, `claim` |
| interacts | quotes, then sends to the proxy program or to the OFT with a compose message for the OCC manager |
| hard | the fee, the OFT's fee and the pause change between quote and send; an amount has different decimals on each side; accounts are passed by place, from an interface that may be out of date; a transaction that was not seen lands after the next attempt |
| correct when | a stake tells what it brings; a request is one both ends understand; a user who keeps trying gets through; every task's instruction can be encoded |

### OFT tasks (`tasks/solana`)

| | |
|---|---|
| state | mints with their mint and freeze authorities, multisigs, OFT stores, `OFT.json`, the running task |
| operations | `lz:oft:solana:create` (a new token or one that exists), `lz:oft-adapter:solana:create`, `lz:oft:solana:setauthority` |
| hard | six transactions and a file, stopped anywhere; authorities are given away for good, in two transactions |
| correct when | no token's authority is a multisig without a store; the file tells the truth; a setauthority cut short is completed by its rerun |

### Other parts

| part | what it is | treatment |
|---|---|---|
| `types/solana_proxy.ts`, `types/oft.ts` | committed interface descriptions | `Interfaces` and `Layouts` have accounts and arguments next to those of the programs |
| vendored Solidity libraries | byte packing; an unused rate limiter and an unused options base | not modelled |
| events, errors | no behaviour | not modelled; an error is the step that is not enabled |
| LayerZero endpoint, OCC manager, token and system programs | outside the repository | environment actions, marked external in the map |

Section 8 lists the tasks that are left out.

The hazards these give rise to, each at its line and with the properties that
watch it, are in `PROJECT.json` under `hazards`.

## 2. Modules

| module | models | state |
|---|---|---|
| `PayloadTypes` | the code tables and predicates of `msg_codec.rs` | none |
| `OCCTypes` | the code tables and predicates of `OCCTypes.sol`, kept apart on purpose: nothing but their agreement makes the bridge work | none |
| `Settlement` | abstract: what is promised about payments. A payment is announced, then settled at most once, and the step that settles it credits its receiver with its amount | `pending`, `settled`, `credited` |
| `SolanaProxy` | the program with the endpoint's state that concerns it | the accounts above, native and USDC balances, `outbox`, `verified`, `cleared` |
| `LedgerOApp` | the contract with its base contracts, and the managers' settings | the fields above, native balances, `inbound`, `executed`, `received`, `sent` |
| `OrderlyBridge` | both ends (`EXTENDS SolanaProxy`, `Ledger == INSTANCE LedgerOApp`) and the messages carried between them | the union of both |
| `RateLimiter` | the token bucket of `state/peer_config.rs`: refill, consumption, changes of rate and capacity | none |
| `OFTAmounts` | the arithmetic of `quote_send.rs`, `quote_oft.rs` and `msg_codec.rs` (`EXTENDS RateLimiter`) | none |
| `OFT` | the OFT program with the token program, the endpoint and the clock as far as they concern it | the accounts above, token balances, `outbox`, `verified`, `cleared`, `composed`, `now` |
| `OFTMesh` | `OFT` among the OFTs of its token on other chains (`EXTENDS OFT`), which are taken together and external | what `OFT` has; messages delivered abroad, packets sent back, what is held abroad |
| `Environments` | the tables and selectors of `constants.ts` and `utils.ts`, by environment and network | none |
| `Layouts`, `Interfaces` | argument and account layouts, accounts and arguments of the instructions, each as the program, the committed interface and the tasks have them; `Builds` and `Reads` say what a client can encode and what the program makes of it | none |
| `ProxyTasks` | the `sol:proxy` deployment tasks, the operator, and what the chain does with what lands (`EXTENDS Environments, Interfaces`) | the OApp's state on Solana, `session`, `in_flight` |
| `LedgerTasks` | `orderly:getconfig` against the endpoint of the ledger chain, with a mempool in nonce order, and LayerZero's defaults | libraries, DVNs, the defaults, `session`, `mempool` |
| `ProxyClient` | the user's tasks, from arguments to the landed transaction; it takes the codes of both ends from `PayloadTypes` and `OCCTypes` | fees, wallet, lookup table, `sent`, `session`, `in_flight` |
| `OFTTasks` | the tasks that create an OFT and move its authorities | mints, multisigs, stores, the file, `session`, `in_flight` |
| `OrderlyBridge_proofs` | theorems about `SolanaProxy` and `OrderlyBridge` | |
| `LedgerOApp_proofs`, `ProxyTasks_proofs`, `LedgerTasks_proofs`, `ProxyClient_proofs`, `OFTTasks_proofs` | theorems about the module of that name | |
| `OFT_proofs` | theorems about `OFTAmounts`, `RateLimiter`, `OFT` and `OFTMesh` | |
| `Sums` | lemmas about sums over finite sets, for `OrderlyBridge_proofs` and `OFT_proofs` | |
| `MCSolanaProxy`, `MCLedgerOApp`, `MCOrderlyBridge`, `MCOFT`, `MCOFTMesh`, `MCProxyTasks`, `MCLedgerTasks`, `MCProxyClient`, `MCOFTTasks` | the constants of the small instances | |

**How actions correspond to code.**  A Solana instruction and an EVM transaction
are atomic: an error anywhere rolls everything back.  So each is one action,
whose guard is the conjunction of the checks of the handler, of the constraints
its accounts carry, and of the programs or contracts it calls.  An action has
the handler's name (`SendClaim` is `send_claim`, `LedgerOappSend` is
`ledgerOappSend`); helpers keep theirs (`request_backward_fee`,
`get_usdc_amount`, `check_request_payload_type`).  `SubmitProof` includes
`init_if_needed` and the rent it takes; `SendClaim` includes closing the account
and the rent it returns.  `lz_receive_types` is an operator, since it changes
nothing, and `Execute` is the executor's `lz_receive` with the accounts it
plans; `LzReceive` allows any caller and any accounts.

**Variables the code does not have.**  `submitted`, `withdrawn`, `topups`
(`SolanaProxy`), `dropped`, `swept`, `received` (`LedgerOApp`) count what
happened so that properties can speak of it, and `topups`, `submitted` and
`dropped` also bound the model.  `Message` records the backward fee its sender
was charged, and `SentType` the fee and the manager that paid it.  In `OFT`, `Message` records its
sender's terms, and `window` counts for each bucket what passed it (`used`) and
what it had coming (`refilled`), from the moment it was made or filled or from
any later moment (`Mark`, an action that changes nothing else).

**The OFT's helpers** are `adapter_amounts` and `native_amounts` for
`compute_fee_and_adjust_amount`, `Lock`, `Burn`, `Release` and `Mint` for the
four ways tokens move, and `PassLimits` for the two buckets.  `Execute` plans
and delivers; `LzReceive` also allows a plan made under an earlier transfer fee,
which `LzReceive` must refuse for a composed packet.

**Tasks.**  A transaction is atomic, a task is not: it is a list of steps
(`InitTask`, `CreateSteps`, ...) and `session` says where it stands.  A
transaction that was sent is confirmed (`Confirmed`, in `LedgerTasks`
`MineOne`), refused (`Rejected`, `RevertOne`), or not seen in time (`TimedOut`,
`GivenUp`), and then it waits in `in_flight`, from where it lands late or
expires with its blockhash.  What an error does to the task is the code's: in
`ProxyTasks` a step carries what its `catch` prints, or `Uncaught`; in
`OFTTasks` a refusal after a simulation that passed is read by nobody and the
task goes on.  `Accepted` translates the checks of the program a
transaction calls, and is external for the endpoint and the token program.

**Composition.**  A step of `OrderlyBridge` is a step of one end with the other
unchanged, or LayerZero verifying at one end a message the other end sent to it
(`CarryRequest`, `CarryPayment`), after any delay and in any order.  Only carried
messages arrive there: packets from other chains and other senders are the
business of the component runs, where any packet of the instance may be verified.

`OFTMesh` does the same for the OFT with one end outside the repository: the other
chains credit what a message tells them of (`Arrive`), send back what they hold,
in finer decimals (`Return`), and LayerZero carries only that (`Carry`).  `OFT` alone
lets any packet arrive, backed or not, so there an Adapter may be asked for
more than it has locked, and refuses.

## 3. Runs

Each takes between a second and two and a half minutes with two workers.
Deadlock checking is on in every run but `oft_tasks`, which ends when its keys are
used up: each `create` makes new ones.

| run | what it asks | properties |
|---|---|---|
| `proxy` | one user requests with codes of every kind and submits, replaces and sends proofs, while the admin changes fees, pauses and withdraws and the library changes its price | `RevenueIsKept`, `QuotesAreTight`, `ProofSentAtMostOnce`, `ClaimsCarryTheLatestProof`, `SendsPayTheirWay` |
| `proxy_receive` | five packets, three good (one larger than a `u64`, one from another chain), one of another token, one of a request type, are verified, delivered and retried with any accounts, while peers, mint, pause, admin and delegate change and the vault is funded bit by bit; executors keep retrying | `TypeOK`, `PauseFreezes`, `ImplementsSettlement`, `LedgerPacketsArePaid` |
| `ledger` | a packet of the proxy and one of an imposter on the same chain, two managers with settings of their own that change, one send with or without options at moving prices, an executor that drops value, an owner that pauses, repoints, withdraws and renounces | `TypeOK`, `DeliveredOnce`, `QuoteIsTight` |
| `bridge` | both ends from their first transaction: a user asking for an accepted, a refused and the newest code or claiming, a payment the other way, a vault that must be funded, while everything is reconfigured | `CodesAgree`, `RequestsArrive`, `PaymentsSettleEndToEnd`, `PaymentsArrive` |
| `oft_adapter` | an Adapter of a mint whose transfer fee changes, two sends, a plain packet and a composed one with dust, withdrawals, donations, fee rates, a key that pauses and unpauses | `TypeOK`, `EscrowCovers`, `NothingIsLost`, `SendKeepsItsTerms`, `ComposeSaysWhatArrived`, `OFTPauseFreezes`, `OFTPacketsArrive` |
| `oft_native` | a Native OFT: a send, a good packet and one whose amount wraps go through both buckets while time passes and the admin makes, fills, re-rates and removes them | `NothingIsLost`, `RateLimitHolds` |
| `oft_mesh` | an Adapter in `OFTMesh`: two sends, three packets back with dust on the wire, a transfer fee that changes, a fee rate set and cleared, withdrawals, donations; and, whatever the fees of the moment, the arithmetic of every amount | `ReturnsAreBacked`, `AmountsAreExact` |
| `deploy_proxy` | the eight tasks of the operator in any order, stopped anywhere, with one transaction out that may still land | `TypeOK`, `DelegateIsAdmin`, `HandoverCutsOffTheDeployer`, `CaughtErrorsHideNothing`, `DeploymentFinishes` |
| `deploy_ledger` | `getconfig` for two environments that share the contract's address and the path to Solana, run and rerun on both networks, stopped anywhere, with three transactions in the mempool and two changes of LayerZero's defaults | `GetConfigFinishesConfigured`, `RerunsConverge` |
| `client` | a user who keeps requesting or keeps staking, with both interfaces, while a fee or the pause changes and one transaction is not seen | `StakeTellsWhatItBrings`, `RequestsAreUnderstood`, `GoalIsReached` |
| `oft_tasks` | the four tasks over a token that exists and one that `create` makes, with and without additional minters | `AuthorityHasAStore`, `OFTFileIsTrue`, `AuthoritiesMoveWithTheWallet` |
| `client_submitproof` | the same world as `client`, asked whether `submitproof` can encode its instruction; it cannot (section 7) | `EveryTaskBuilds` |

All but the last pass.  Every property of the others is also run against a plausible bug of the code (the
operators named `Mut...`, listed in `PROJECT.json`): a forgotten pause check, a
claim left open, a fee not collected, the first instead of the last bytes of
the amount, the mint of the account list instead of the configuration's, the
payload table before `UnstakeOrderNow` was added; the escrow's whole balance
taken for fees, the fee locked with the tokens, dust kept, a compose message
planned before the transfer fee, a rate changed without refilling at the old
rate first, a division rounded the other way, the dust of the wire rounded up; a step's error left uncaught, an
admin role handed over without the delegate's, an `init_proxy` that could run
again, libraries set before their accounts are made, DVNs compared by number, a library sent whatever is
set already, a revert of the manager that is swallowed, a stake
without a minimum, a quote without the backward fee, authorities given away before the
store exists.  Each makes the property fail.

**What the properties say.**

* *Fees.*  `SendsPayTheirWay`: a send moves exactly the fee of the backward
  message it will trigger, as the payload table of the repository's README has
  it, and takes no more than the `native_fee` offered, whatever changed since
  the quote.  `QuotesAreTight`: an offer is accepted if and only if it reaches
  the quote of the moment.  (`send_request` compares with `<` and then passes
  the difference on; the two together are exact because no message is free.)
  `RevenueIsKept`: all fees charged are in `proxy_config` or were withdrawn
  (`RevenueLedger`), and withdrawals stop at the rent exemption (`RentFloor`).
* *Claims.*  `ProofSentAtMostOnce` is about all claims ever sent; its
  inductive form, `ClaimInv`, is proved (section 5), and so is, for any number of
  users, `ClaimsBindTheirSender`: no claim carries another user's leaf.
  `ClaimsCarryTheLatestProof` relates a send to every submission before it.
* *Payouts.*  `ImplementsSettlement` is the refinement: verified is pending,
  cleared is settled, the receiver's balance is what was credited.
  `PaidPerPacket`, proved, states the same of each step.  `PaymentsSettleEndToEnd` is the
  same abstract promise from the manager's send on the other chain, so it also
  covers the codes, the truncation of the amount and the packets in between.
  `CodesAgree` says it of the codes of both directions at once; TLC checks it for
  requests, `BridgeCodesAgree` proves it for both.
* *Pause.*  `PauseFreezes`, `OFTPauseFreezes` and, proved, `PauseHoldsPackets`:
  no user or executor gets anything done, and nothing that waits is lost.
* *The contract.*  `DeliveredOnce` and `QuoteIsTight`, and, proved only,
  `OnlyDropsAreHeld`, `FeeIsAllItCosts` and `SendsCarryGas`.  `DeliveredOnce` fails as
  soon as a revert of the manager's is swallowed (the packet is executed and nobody has it).
  `QuoteIsTight` covers the case in which no gas limit is set:
  `ledgerOappSend` falls back on a default that `ledgerOappSendQuote` does not apply,
  and the quote is short by exactly its price.
* *The escrow.*  `EscrowCovers`: it holds `tvl_ld` at least, whatever a transfer
  fee took on the way, so that what `withdraw_fee` can reach is fees and
  donations.  `NothingIsLost`: what the other chains were told of less what they
  sent back is what is locked (Adapter) or what left the supply (Native).
  `ReturnsAreBacked` is what holders elsewhere rely on: all that the other chains
  have sent back and is not yet delivered can be given out together, an
  Adapter having it locked and a Native OFT's `u64` having room for it, although the
  wire's decimals are cut on arrival and fees leave the same account.
* *Terms.*  `SendKeepsItsTerms` relates the message to the balances: told at
  least the minimum, told no more than given, given no more than offered.
  `ComposeSaysWhatArrived`: the amount in a compose message, computed apart from
  the transfer, is what the receiver's account gained.
* *Limits.*  `RateLimitHolds` is about every window: it starts when a bucket is
  made or filled or at any moment after, and then what passed is within the
  capacity, the rate over the time, and the other way's traffic.  `WindowInv`
  is its inductive form.
* *Arithmetic.*  `AmountsAreExact`, in every state and for every amount a user may
  send or have quoted under its fees: the transfer fee is inverted exactly, no more is
  taken than was given, what is told is what arrived less the fee and has no
  dust, and the fee quoted is the fee withheld.
* *Deployment.*  `DelegateIsAdmin` and `HandoverCutsOffTheDeployer` relate the
  roles on the program and on the endpoint, and transactions sent before the
  handover to what they can do after.  `DeploymentFinishes` is about the
  whole configuration: a rerun fails at each step that is done already, so the steps
  after it run only because of the `catch`.  `CaughtErrorsHideNothing` is the price of it:
  the catches take any error for "already initialized" or "already set", and the property says
  that a run that comes to its end has all of its work in place all the same.  What it excepts
  is a timeout, which is caught as well, and a handover in between, after which every
  step of `init` is refused and `init` still reports success.  It holds because of the
  order of the steps, each account before what needs it.
  `GetConfigFinishesConfigured` says what a run of `getconfig` that comes to its end has
  reached, whatever was pending when it read the chain, whatever landed since and whatever
  LayerZero changed: of the library it read, nothing can have gone wrong but a default that the
  run found right, left alone, and LayerZero changed afterwards.  `RerunsConverge` says that
  reruns get to where nothing is left to do, and stay there.
* *The client.*  `StakeTellsWhatItBrings` relates two amounts computed apart, with
  different decimals, to what the OFT delivers after a fee that may have come
  since the quote.  `RequestsAreUnderstood` compares a third copy of the
  code tables with the other two.
* *Authorities.*  `AuthorityHasAStore`, `OFTFileIsTrue` and
  `AuthoritiesMoveWithTheWallet` are about tasks cut short anywhere, the last under the
  condition that the wallet is an additional minter (section 7 says why).
* *Liveness.*  See the next section.

**Bounds.**  `MaxSends`, `MaxSubmits`, `MaxPayments`, `MaxDrops`, `MaxTopUps`,
`MaxTime`, `MaxMarks`, `MaxInFlight`, `MaxPending`, `MaxUpgrades` and `MaxChanges`
bound what counts up; the values of the constants are in the `.cfg` files.  One user
suffices where the question is about one sender's fees and claims; the confusion
of two is left to the proofs.  Two admins show a handover, and a second
chain and sender in `proxy_receive` and an imposter in `ledger` show the
confusions of paths.  Two submissions and the sends between them let a proof be
replaced, sent, and the next one submitted.  Offers run from below the
cheapest quote to above the dearest.  `U64` is 4, so that one packet wraps.  Top-ups
make the vault at times too poor for a packet and at times rich enough.
The bytes of `bridge` are one that the program refuses to send and the newest
one, besides the claims' own; `BridgeCodesAgree` proves the rest of the tables.
In `oft_adapter` and `oft_native` a shared decimal is two local
units, so odd amounts carry dust, one unit of the wire is half a shared
decimal, so odd packets carry dust as well, and fees are counted in quarters.
`U64` is 16, enough for amounts of 6, and in `oft_native` a packet wraps; the
transfer fees are none, a quarter capped at 1 and a quarter in effect uncapped.
Two seconds, a rate of two and a capacity of two let a bucket run dry, refill
and overflow; one `Mark` suffices, since windows are independent.
`oft_mesh` has 32 amounts, tenths, a shared decimal of three local units and four of the
wire's, and transfer fees of none, a tenth and two tenths that are capped above 5, so that
every rounding case and both sides of the cap occur; its packets ask for one shared decimal and a half, or a quarter more than one, of
which the program gives one.  Init of
`OrderlyBridge` is two freshly deployed ends, so a behaviour passes through
every order of configuring them.

In the task runs one transaction out at a time (three in the mempool of
`deploy_ledger`, where the order matters: the two of runs that were cut short and one of the run that
waits) is enough to have one land in the middle of a
later task, since after it another may be lost.  Two changes of LayerZero's defaults are one before and one
after what a run read, or a change and its undoing.  `deploy_proxy` takes the
environment deployed for use; the environments differ in keys and gas only, and
`staging`, without a multisig in its table, has no handover.  `client` has a type of
each sort (staking, a plain request, one with its amount scaled, the newest) and two prices,
so that a quote is too low and too high; `oft_tasks` one key for a store and seven for
multisigs, which are reused once nothing refers to them.

## 4. Fairness

Nothing obliges an admin, an owner, a manager or a user to act: their steps are
never fair.  Weakly fair are, per packet, `Execute` (the executor keeps calling
`lz_receive` with the planned accounts), the contract's `LzReceive` without value
attached, and in `OrderlyBridge` carrying.  The first two are justified by
LayerZero's design: delivery is permissionless, a failed execution leaves the
packet verified, and anybody may call again; the third is the verifier
network's service.  Weak fairness is enough, since
each property assumes that the deployment, however often it was disturbed,
in the end stays configured for its path (`<>[]SettledFor(p)`,
`<>[]Deployed`): from then on the step stays enabled until it is taken.
In `OFT` weakly fair is `Execute` per packet, for the same reason; the executor
plans the accounts anew for each attempt, so that a transfer fee that changes
for ever cannot starve a composed packet.  `ReadyFor` asks for a peer, no pause, no
inbound limit in the end and enough locked tokens.  In `OFTMesh` the last
always holds (`VerifiedIsBacked`, section 5).
`SettledFor` also says that the vault has received all it was going to, and the
instances fund it for what they send.

In the task models an operator or a user who wants something keeps running the
task for it: strong fairness of the task that is due, since another task may be
running whenever it could start.  A task that runs goes on (weak).  That a
transaction which is sent again and again is confirmed in the end is strong
fairness of `Confirmed`, per goal; it is what the network offers, and all that keeps a
transaction from timing out for ever.  In `ProxyTasks` nobody interrupts tasks
for ever; in `ProxyClient` and `OFTTasks` transactions that do not land expire,
as their blockhash does.  The other actions of these models, LayerZero's and
the admin's changes among them, are not fair.  In `LedgerTasks` the
operator runs the task as long as there is something for it to do (weak: once nobody interrupts,
no session stays), what is in the mempool is mined (weak, the chain's service), and
`MaxUpgrades` has LayerZero's defaults settle in the end, without which there is
nothing to converge to.

## 5. Proofs

Every invariant and every action property of the passing runs is a theorem,
and so are the two refinements; only liveness is not.  The theorems hold for any
sets of users, admins, packets, messages, keys and environments, any fees, prices and bounds
that satisfy `ProxyAssumption`, `LedgerAssumption`, `BridgeAssumption`,
`OFTAssumption`, `MeshAssumption`, `AmountsAssumption`, `WidthAssumption`,
`TasksAssumption`, `NoPeerAssumption`, `LedgerTasksAssumption`, `NoValueAssumption`,
`OFTTasksAssumption` and `ClientAssumption`.  TLC evaluates these assumptions in every
run whose module extends the module they are in.  Most say
only what kind of value a constant is.  Besides, `BridgeAssumption` has the amounts of
payments below 2^64 and the packets stand for every message; `OFTAssumption` has finitely many
users and a Native OFT's mint without a transfer fee; `MeshAssumption` has nothing
abroad that an Adapter did not lock, and of a Native OFT's token, here and
abroad together, less than 2^64 units; `ClientAssumption` has the token's
decimals on Solana divisible by those it shares; `LedgerTasksAssumption` has the
environments of one instance share the contract's address and the network of Solana, as the model has
one contract and one path.  The inductive invariants
stand in the module of what they are about, next to the property each is for,
and TLC found each to hold before it was proved.

**`OrderlyBridge_proofs`, part one: the program.**  `TypeCorrect` is proved action
by action; that no
balance is negative is the part with content, and rests on `withdraw_fee`'s surplus
check, the token program's refusal of an overdraft and the user's ability to
pay.  `RentFloorHolds` needs `TypeOK` alone.  `RevenueIsAccounted` needs, besides,
`RevenueInv`: the sum over the messages sent grows by the fee of a new
one only if that message is new, which its nonce makes it, above all
earlier ones; and nothing was sent or withdrawn before `init_proxy`, which gives the account
its rent.  For the
claims, `ProofSentAtMostOnce` is not inductive: nothing in it stops an old
proof from being stored again.  `ClaimInv` adds that a stored proof is its user's
latest submission and that every claim already sent is older; each
`submit_proof` makes a newer one and each `send_claim` empties the account.
`ClaimsAreTheirSenders` and `ClaimsAreTheLatest` follow from `ClaimInv`.
`PaidAtMostOnce` (`verified` and `cleared` stay apart) is inductive alone, and
with it `PayoutsArePerPacket` and the refinement `SettlesPayments`
are steps: verifying announces, `lz_receive` settles, all else stutters
(`WhatTouchesPayouts`).  `QuotesAreExact`, `SendsAreFairlyPriced` and
`PauseIsTotal` are about single steps under `TypeOK`.

**Part two: the bridge.**  `BridgeRespectsProxy` shows that every behaviour
of the bridge is one of `SolanaProxy`, so that its theorems carry over, and
proves the invariant `SentByRule`: what was sent has the types, tokens and
nonces the sender allows, and what arrived was sent.  `BridgeCodesAgree` follows
from it by comparing the two code tables.  `BridgeSettlesPayments` is the
refinement of `Settlement` by the whole bridge; `SentByRule` is needed there for
a payment to be announced before it settles and, with
`BridgeAssumption`'s amounts below 2^64, for the amounts to agree.

**`LedgerOApp_proofs`.**  `LedgerTypeCorrect`; `ExecutedIsForGood`;
`RequestsAreDeliveredOnce`, inductive with the former: a packet
being executed was never executed, so no manager has it yet.
`OnlyDropsAreEverHeld`, whose heart is `SendEffects`: whatever the value
attached, a send takes the fee from the manager and leaves the contract's
balance alone.  `ManagersPayTheFee` needs besides that nonces are never reused
(`NoncesAreUsed`), or the message that explains a change of balance might
be an old one.  `LedgerQuoteIsExact`, `SendsAlwaysCarryGas`, `PauseHolds`.

**`Sums`.**  What the community modules' `SumFunctionOnSet` is for a finite set: empty,
with one more element (`SumWith`) or one less (`SumWithout`), with a value changed
(`SumChanged`) or moved from one element to another (`SumMoved`), of one value
throughout (`SumConstant`).  That operator is a recursive function over the subsets
of its set.  Neither its existence nor an induction over it follows from a
library theorem the provers can instantiate, so `SubsetInduction` is proved from
the well-foundedness of strict inclusion and the least element of a set of bad
subsets; `SumIsUnique` and `SumExists` are such inductions, and `SumEquation`,
the step of the recursion, is what the rest uses.

**`OFT_proofs`: arithmetic.**  From the definition of integer division to the facts
the program relies on, for every width, rate and fee.  `PreFeeInverts`: rounding
the fee up and rounding the inverse up meet (`RoundingsMeet`), with the cap and
the rates of 0 and 100% apart.  `PreFeeIsLeast` adds that no smaller amount
would do, and from it `AdapterTakes` has that an Adapter never takes more than
`amount_ld`.  `ToldIsWorth`: what is told has no dust, and survives
the wire.  `AmountsAreAlwaysExact` puts them together, with the fee `quote_oft`
lists, for every width, transfer fee and fee rate (`NoFeeWithholdsNothing` covers a
Native OFT).  `Refilled`, `SecondAdds`,
`Consumed` and `Rerated` say what a bucket holds
after each operation, saturation included.

**`OFT_proofs`: the program.**  `OFTTypeCorrect` has content where something is subtracted:
balances, `tvl_ld`, tokens of a bucket.  `EscrowAlwaysCovers` is inductive with
`TypeOK`: a send adds to the escrow, after the transfer fee, what it locks plus
its fee (`AdapterTakes`), a receipt takes from it what it unlocks, and a
withdrawal stays within the difference.  `NothingIsEverLost` needs `TransitInv`: a
message is new when it is sent and a packet when it is cleared, so each
enters its sum once and with the amount that is locked or burned, released
or minted (`ToldIsWorth`: the wire carries all of it); every other
action leaves `tvl_ld`, the supply (`SumMoved` for a transfer) and the two sums
alone.  `RateLimitHolds` is not inductive, as it
does not say what a bucket may still let through; `WindowInv` adds that to what
has passed, and then every step keeps it: consuming moves tokens from one term
to the other, refills and seconds count on both sides, a new rate leaves what
the bucket holds at the moment as it was (`Rerated`: the reason `set_rate`
refills first), and a filled bucket starts a window.  `SendsKeepTheirTerms`,
`ComposedIsWhatArrived` and `OFTPauseIsTotal` are about single steps under `TypeOK`.

**`OFT_proofs`: the other chains.**  `MeshIsSpec` shows that a step of the mesh is one of
`OFT` or leaves it alone, so that all of the above holds there.  `MeshInv` keeps the
books in the wire's decimals: what was sent back and what is held abroad is no more than
what arrived there and was there at first.  A message counts in full, since it
carries no dust (`SendMessage`), and a packet for no more than it takes abroad,
since the program cuts what it reads (`WireCut`).  With `TransitInv` this bounds what
is due by `tvl_ld`, or by what a Native OFT's supply is short of, and
`ReturnsAreAlwaysBacked` follows (`SumSplit`: what is cleared is a part of what
was returned).  The run shows it for an Adapter; the theorem is about a
Native OFT as well.  `VerifiedIsBacked` draws the conclusion for whoever waits: a packet
the executor may deliver is never refused for want of locked tokens or of room in the
supply.

**`ProxyTasks_proofs`.**  `DeploymentTypeCorrect` goes through the transactions
(`EffectTyped`) and the steps of a task; `StepsOfTheChain` says that the chain
changes only by a transaction that is accepted, whoever waits for it, and
carries the rest.  `DelegateIsAlwaysAdmin` is inductive by itself:
`init_proxy` and the handover set both.  `HandoverIsFinal` follows: with the
multisig as admin it is also the delegate, so the wallet, which signs every
transaction of the tasks, holds neither role, and `init_proxy` cannot run again.
`FinishedTasksAreDone` rests on three facts.  Nothing undoes what is done (`StepKeepsDone`:
`EffectKeeps` says for each transaction which pieces of the chain stay, `KeptIsDone` that each
piece of configuration is one of them; it needs the types, to know that a peer that has
the tables' address and options is exactly what `setpeer` would write).  A transaction
that lands does what it is for (`EffectDoes`).  And an endpoint step of `init` that is
refused, while the wallet is the delegate, is done already, provided the steps
before it are (`RejectedIsDone`): a library can be set only where its account is.  The
inductive invariant is `InitDone`: past its first step, a run of `init` that
no timeout has disturbed has done every step so far, as long as the roles are the
wallet's.  They do not come back once they are gone (`RolesNeverComeBack`), so the roles at the end
tell those of every moment before.

**`LedgerTasks_proofs`.**  What a run has reached at its end depends on what its session knew
at each step, and on what the mempool may still do to that.  `LedgerTasksInv` has, besides the
types, three parts.  `LibraryInv`: as long as LayerZero has changed no default, every library
set or about to be set is the default one.  `OnlyTablesStored`: no transaction carries other DVNs
than the tables', and the environments of one path have the same, so that a
stored configuration is right whichever run's transaction it was.  `GetConfigInv`: a
session that waits has its own transaction last in the mempool, which is why it knows at its end that it
was mined; and what it read as right, or has set, is `Settled` from then on: stored by the OApp
itself, or still the default it was unless a default has changed.  From these
`GetConfigIsComplete` is a statement about the last step.

**`OFTTasks_proofs`.**  `AuthorityHasAStore` and `OFTFileIsTrue` are true because of an order
of steps that are each a transaction of their own, so the invariant must say at every
step what the ones before it left.  `TasksInv` does, in three parts: of the
chain (`ChainInv`), of every transaction that may still land (`TransactionOK`: it gives an
authority only to a multisig whose store is there), and of the running task (`SessionInv`):
what it has yet to make is not there and nothing in flight will make it
(`YetToMake`: keys are new to each run), what it made is there and as it left
it (`Made`), and its transaction is its step's (`TxOfStep`).  `LandingKeeps` shows that
landing, in time or late, keeps the chain's part, `GrowthKeeps` that nothing it adds
undoes what others rely on; the rest goes through the operator's and the
tasks' actions one by one.

**`ProxyClient_proofs`.**  `StakeTellsWhatItBrings` is not inductive: it says nothing of
the stake that is still on its way.  `ClientInv` adds that every such stake,
and the one of a running task, was made by `oftSendParams` of an amount the user
named.  Then `AcceptedStakeBrings`: as the minimum is the amount itself, a
stake is accepted only if the OFT brings all of it (`DeliveredBound`), and the
two scales agree.  `RequestsMeanTheSame` compares the three code tables.

**Only model-checked.**  The liveness properties: `LedgerPacketsArePaid`,
`RequestsArrive`, `PaymentsArrive`, `OFTPacketsArrive`, `DeploymentFinishes`,
`RerunsConverge`, `GoalIsReached` and `AuthoritiesMoveWithTheWallet`.  They rest on fairness, whose
definition is `ENABLED`, which the proof system does not handle.
`EveryTaskBuilds` is refuted by its run.

## 6. Assumptions and abstractions

* *The endpoint.*  A packet is verified at most once per path and nonce, and
  only a verified packet can be cleared, once.  LayerZero's rule that a nonce can
  be executed only when all before it are verified is left out; it restricts the
  orders of delivery, and liveness assumes that everything sent is verified.
  The endpoint's `send` takes its library's fee from the payer and, on the EVM
  side, refunds the excess.
* *Hashing.*  `process_proof` with a collision-free hash: a root names its
  leaf and the proof.
* *Accounts.*  A user is one key with one USDC account, and receivers are
  users.  Creating a receiver's token account is the executor's business and
  costs it rent the model does not track.
* *Peer accounts.*  Besides the address, `set_peer_config` stores options, rate
  limits and a fee rate.  The program passes the options to the endpoint, which
  prices them (`LzFeeChange`), and reads none of the rest: what is left is that
  the account comes into being.
* *Payloads.*  The payload of a request is opaque to both ends; a claim's is kept.
* *OCC manager.*  Outside the repository: it may change its settings and send at any
  time.  `ledgerOappReceive` succeeds; if it did not, `lzReceive` would revert
  with it and the packet would wait, as in any other refusal.
* *Ownership and upgrades.*  `transferOwnership` and `renounceOwnership` are the
  library's; upgrading either program is not modelled.
* *Amounts.*  Native coins and USDC are natural numbers.  `uint256` and `u64`
  arithmetic is checked in both languages, so an overflow would be a refused
  step; the one place where a number is cut, `get_usdc_amount`, is modelled
  with its modulus.
* *The OFT's endpoint fee* is paid in lamports and passed on to the endpoint
  with the caller's options; neither is modelled, and `send` may fail only for what
  concerns tokens.  `quote_send` differs from `quote_oft` only in that fee.
* *Tokens.*  The mint of a Native OFT withholds no transfer fee (the code says so
  in `compute_fee_and_adjust_amount` and would otherwise take it from the fee);
  the program is its only minter and its mint authority is set.  The supply
  fits in a `u64`, as the token program ensures.  Withheld fees are collected by
  the mint's own authority, outside the program.
* *The clock* never runs backward.  Saturating sums are modelled as such, other
  arithmetic is checked (`overflow-checks = true` in `Cargo.toml`), so an overflow is a
  refused step.
* *The other OFTs* of the token are contracts outside the repository.  `OFTMesh` takes
  them for one that credits what arrives and never sends more than it holds; a
  chain that mints at will would break any OFT.  Peers are addresses of the mesh only.
* *Planning and delivery.*  The transfer fee changes only with the epoch; an
  executor that plans and delivers within one is `Execute`.
* *LedgerOApp's options* are kept for the one payload type that may be set.
* *Keys and addresses* of the tables are strings that start as the source's do;
  a field a table lacks is `Missing`.  A derived address is its program and seeds.
* *Interfaces.*  Accounts are passed by place and arguments by layout.  A client
  that is given a name too few throws; a program that is given another list than
  its own reads wrong accounts and refuses.  `target/types` is what the build
  generates from the program's source.
* *A rejected transaction* in `ProxyTasks` and `ProxyClient` is one that the chain
  would refuse at the moment it is waited for.
* *Libraries* in `LedgerTasks`: one name stands for the send and the receive library
  of a release, as LayerZero changes them together.  Executor and confirmations, which
  getconfig sends with the DVNs but does not compare, go with them.
* *The mempool* of the owner's key is in nonce order, and every transaction in it is
  mined or reverts.
* *The client's accounts beyond the program's own* (`Needed`) stand for those the
  endpoint needs, which are more than a transaction without a table can hold.

## 7. Findings

**`sol:proxy:submitproof` cannot be encoded** (run `client_submitproof`,
`tasks/proxy/utils.ts:663`).  `submit_proof` takes `user`, `proxy_config`,
`claim_data` and the system program (`send_claim.rs:13-35`).  The task names `user` and
`claimData` only, and the client, built with `seeds = false` (`Anchor.toml:5`), derives no
address by itself.  The README (207-211) documents the task and
`test/anchor/solana-proxy.test.ts:763` uses the same function.  With the
committed `types/solana_proxy.ts`, which lacks the account as well, the client
encodes three accounts and the program reads the wrong ones.

Other things met while modelling, none of them a run:

* `setauthority --only-oft-store`, stopped after the mint authority has moved, cannot be
  finished: its rerun starts with the mint authority, which the wallet no longer may move,
  and the freeze authority stays with the wallet (`setAuthority.ts:149-200`).
  With the wallet as an additional minter the rerun works, which is the condition of
  `AuthoritiesMoveWithTheWallet`.
* `orderly:ledgeroapp:setpeer` always throws (`setLedgerOApp.ts:145`).  It calls `solanaEid()`
  with the interface of the `LedgerOApp` artifact (144), and the contract has no such function: it
  reads the OCC manager's (`LedgerOApp.sol:81,107,137`).  The peer and the options of the contract
  must be set in another way; the bridge runs take any order in which the owner does.
* The `configPda` of `qa`, `staging` and `mainnet` in `constants.ts` (96, 102, 108) is not
  the address their programs derive; the same task would take it for the peer (147).
* `getconfig` stopped after it has set a library, and rerun after LayerZero has a new default,
  reports the library as already set and gives the tables' DVNs to the new default
  (`setLedgerOApp.ts:267,317-322,387`): the library the OApp uses keeps its default DVNs, and no later run
  changes that.  `RerunsConverge` says that a run finds nothing more to do, not that
  the library in use is the one it looks at.  A direction whose DVNs were right and
  were skipped follows LayerZero's default afterwards; a rerun repairs that one.
* `getconfig --forceSet` with equal DVNs sends a transaction that sets nothing
  (`setLedgerOApp.ts:225,385-409`), so that a path keeps following LayerZero's default.
* `setProxy.ts:138,147,156,166` print "already initialized" or "already set" for
  any failure, a timeout and a lost role among them (section 3, `CaughtErrorsHideNothing`).
* `checkOrderlyNetwork` accepts `orderlymainnet`; the network in `hardhat.config.ts` is
  `orderly`, so the `orderly` tasks cannot run for it.
* `ledgerOappSendQuote` falls short of `ledgerOappSend` by the price of the default gas when no gas
  limit is set (section 3).
* `stake --extend-alt` adds the same addresses at every run until the table is full.
* `orderly:deploy` passes three arguments to `initialize(endpoint, delegate)`.
* `setOutboundRateLimit.ts:70` has the endpoint id of one network written out.

## 8. Not modelled

* `orderly:ledgeroapp:setpeer` changes nothing (section 7).
* `sol:proxy:withdrawfee` sends `withdraw_fee`, which `SolanaProxy` has; `sol:proxy:getconfig`,
  `pda`, `lzReceiveTypes`, `quote` and `quoteclaim` only print.
* `orderly:deploy` and `orderly:upgrade` call the upgrades plugin once.
* The rate limit tasks, `sendOFT` and `evm/send` send one transaction each, whose effect is
  an action of `OFT`; they keep nothing between runs.
* `wire`, `config.get` and `layerzero.config.ts` hand data to a plugin outside the
  repository; `getFee` asks a node for the price of computation.
* `pdaHelper.ts` hashes seeds; one such address is a table entry and is modelled.
* `tasks/proxy/deprecated` is superseded by `setProxy.ts`.
* Vendored libraries, events, errors, tests and mocks, as in section 1.

## 9. Plan

Done: the proxy program, the ledger contract, their composition, the OFT program
with its arithmetic and rate limiter, alone and among other chains, the deployment, client and OFT tasks, and a
theorem for each safety property.  What would add most:

1. A second instance of `OFT` in place of the other chains of `OFTMesh`, with the packets
   carried both ways: sending then refines an abstract transfer (`Settlement`
   for tokens).
2. `ProxyTasks` and `LedgerTasks` together, once there is a task that sets the contract's peer:
   when all are done, `Deployed` of `OrderlyBridge` holds.
