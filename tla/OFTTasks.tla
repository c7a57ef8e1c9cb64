------------------------------- MODULE OFTTasks -------------------------------
(***************************************************************************)
(* The tasks that create the ORDER token and its OFT on Solana             *)
(* (lz:oft:solana:create, lz:oft-adapter:solana:create and                 *)
(* lz:oft:solana:setauthority of tasks/solana) and the operator who runs   *)
(* them.  A task reads, builds a transaction from what it read, simulates  *)
(* it, sends it and waits; an error ends the task, but for that of a       *)
(* transaction the chain refuses after its simulation passed; one that was *)
(* not seen confirmed may still land.                                      *)
(*                                                                         *)
(* create makes three keys of its own (the token's mint, the escrow that   *)
(* names the store, the multisig), so that a rerun starts again with a new *)
(* token.  setauthority moves the authorities of a token that exists, each *)
(* in a transaction of its own.                                            *)
(*                                                                         *)
(* External: the token program's rule that the present authority, or one   *)
(* signer of a 1-of-n multisig, signs for a change.                        *)
(***************************************************************************)
EXTENDS Naturals, FiniteSets, Sequences

CONSTANTS
    Wallet,       \* SOLANA_PRIVATE_KEY's key
    Others,       \* keys --additional-minters may name besides the wallet's
    Order,        \* a token that exists: its mint is the wallet's
    Runs,         \* keys for the create runs whose token or store comes to be
    Multisigs,    \* keys for multisigs, reused when nothing refers to them
    NoOne, Idle, NoTx, NoFile,
    MaxInFlight   \* bound on unconfirmed transactions that may still land

ASSUME OFTTasksAssumption ==
    /\ Runs \subseteq Nat /\ Multisigs \subseteq Nat
    /\ Wallet \notin Others \cup Multisigs \cup {NoOne}
    /\ NoOne \notin Multisigs
    /\ Order \notin Runs /\ MaxInFlight \in Nat

VARIABLES
    minters,      \* the operator's --additional-minters
    mints,        \* mint |-> its MintTokens and FreezeAccount authority
    multisigs,    \* key |-> its quorum and signers
    stores,       \* OFT store, by its escrow's key |-> its mint and oft_type
    file,         \* deployments/<network>/OFT.json
    session,      \* the running task, or Idle
    in_flight

chainVars == <<mints, multisigs, stores>>
vars == <<minters, chainVars, file, session, in_flight>>

AuthorityTypes == {"MintTokens", "FreezeAccount"}
Signers == {Wallet} \cup Others \cup {<<"store", k>> : k \in Runs}

\* The store's address: derived from the escrow's key (deriveKeys).
oftStore(escrow) == <<"store", escrow>>

-----------------------------------------------------------------------------
\* The steps of the tasks.  addComputeUnitInstructions simulates a transaction
\* before it is sent, which is part of the step that sends it.

(* Bug: the authorities given away before there is a store. *)
MutAuthoritiesFirst == <<"multisig", "check", "token", "seen", "setAuthorities",
                         "initOft", "output">>

(* Bug: the file written before the store is there. *)
MutOutputFirst == <<"multisig", "check", "token", "seen", "output", "initOft",
                    "setAuthorities">>

CreateSteps  == <<"multisig", "check", "token", "seen", "initOft",
                  "setAuthorities", "output">>
MABASteps    == <<"multisig", "check", "initOft", "output">>
AdapterSteps == <<"initOft", "output">>
AuthoritySteps == <<"multisig", "check", "MintTokens", "FreezeAccount">>

StepsOf(task) == CASE task = "create"       -> CreateSteps
                   [] task = "maba"         -> MABASteps
                   [] task = "adapter"      -> AdapterSteps
                   [] task = "setauthority" -> AuthoritySteps
Tasks == {"create", "maba", "adapter", "setauthority"}
Step == StepsOf(session.task)[session.step]

\* createMintAuthorityMultisig: one signature of the store or of a minter.

createMintAuthorityMultisig(store, additional) ==
    [quorum |-> 1, signers |-> {store} \cup additional]

\* checkMultisigSigners.
checkMultisigSigners(multisig, expected) ==
    multisig.quorum = 1 /\ expected \subseteq multisig.signers

-----------------------------------------------------------------------------
\* Transactions.

TheMint == IF session.task = "create" THEN session.escrow ELSE session.mint

(* Bug: the wallet taken for the present authority. *)
MutWalletOwns(type) ==
    [kind |-> "authority", mint |-> session.mint, types |-> {type},
     owner |-> Wallet, new |-> session.multisig]

SetAuthorityTx(type) ==
    [kind |-> "authority", mint |-> session.mint, types |-> {type},
     owner |-> mints[session.mint][type], new |-> session.multisig]

\* Both authorities in one transaction, the wallet as their owner.
setAuthorities ==
    [kind |-> "authority", mint |-> TheMint, types |-> AuthorityTypes,
     owner |-> Wallet, new |-> session.multisig]

BuildTx ==
    CASE Step = "multisig" ->
           [kind |-> "multisig", key |-> session.multisig, account |->
              createMintAuthorityMultisig(oftStore(session.escrow),
                                          minters)]
      [] Step = "token"   -> [kind |-> "token", mint |-> TheMint]
      [] Step = "initOft" -> [kind |-> "initOft", escrow |-> session.escrow,
                              mint |-> TheMint, oft_type |->
                                 IF session.task = "adapter" THEN "Adapter"
                                                             ELSE "Native"]
      [] Step = "setAuthorities" -> setAuthorities
      [] OTHER -> SetAuthorityTx(Step)

WalletSignsFor(owner) ==
    \/ owner = Wallet
    \/ owner \in DOMAIN multisigs /\ Wallet \in multisigs[owner].signers

Accepted(tx) ==
    CASE tx.kind = "multisig" -> tx.key \notin DOMAIN multisigs
      [] tx.kind = "token"    -> tx.mint \notin DOMAIN mints
      [] tx.kind = "initOft"  -> /\ tx.escrow \notin DOMAIN stores
                                 /\ tx.mint \in DOMAIN mints
      [] OTHER -> /\ tx.mint \in DOMAIN mints
                  /\ \A type \in tx.types : mints[tx.mint][type] = tx.owner
                  /\ WalletSignsFor(tx.owner)

With(f, x, y) == [z \in DOMAIN f \cup {x} |-> IF z = x THEN y ELSE f[z]]

Effect(tx) ==
    \/ /\ tx.kind = "multisig"
       /\ multisigs' = With(multisigs, tx.key, tx.account)
       /\ UNCHANGED <<mints, stores>>
    \/ /\ tx.kind = "token"   \* createV1 and mintV1
       /\ mints' = With(mints, tx.mint, [type \in AuthorityTypes |-> Wallet])
       /\ UNCHANGED <<multisigs, stores>>
    \/ /\ tx.kind = "initOft"
       /\ stores' = With(stores, tx.escrow,
                         [mint |-> tx.mint, oft_type |-> tx.oft_type])
       /\ UNCHANGED <<mints, multisigs>>
    \/ /\ tx.kind = "authority"
       /\ mints' = [mints EXCEPT ![tx.mint] = [type \in AuthorityTypes |->
                       IF type \in tx.types THEN tx.new ELSE @[type]]]
       /\ UNCHANGED <<multisigs, stores>>

Lands(tx) == Accepted(tx) /\ Effect(tx)

-----------------------------------------------------------------------------

Running == session # Idle

TypeOK ==
    /\ minters \subseteq {Wallet} \cup Others
    /\ DOMAIN mints \subseteq Runs \cup {Order}
    /\ \A m \in DOMAIN mints :
          mints[m] \in [AuthorityTypes -> Multisigs \cup {Wallet, NoOne}]
    /\ DOMAIN multisigs \subseteq Multisigs
    /\ \A k \in DOMAIN multisigs :
          multisigs[k].quorum = 1 /\ multisigs[k].signers \subseteq Signers
    /\ DOMAIN stores \subseteq Runs
    /\ \A k \in DOMAIN stores : stores[k].mint \in DOMAIN mints
    /\ Running => session.task \in Tasks /\ session.step \in DOMAIN StepsOf(session.task)
    /\ Cardinality(in_flight) <= MaxInFlight

\* The token that exists may have been made without a freeze authority.
Init ==
    /\ minters \in SUBSET ({Wallet} \cup Others)  \* none: --only-oft-store
    /\ \E freeze \in {Wallet, NoOne} :
          mints = [m \in {Order} |-> [type \in AuthorityTypes |->
                      IF type = "MintTokens" THEN Wallet ELSE freeze]]
    /\ multisigs = << >>
    /\ stores = << >>
    /\ file = NoFile
    /\ session = Idle
    /\ in_flight = {}

\* Keys generated anew: no account and no transaction has them.
FreshRuns == {k \in Runs : /\ k \notin DOMAIN mints \cup DOMAIN stores
                           /\ \A tx \in in_flight :
                                 /\ tx.kind = "token" => tx.mint # k
                                 /\ tx.kind = "initOft" => tx.escrow # k}
Referred == {mints[m][type] : m \in DOMAIN mints, type \in AuthorityTypes}
            \cup (IF file = NoFile THEN {} ELSE {file.mintAuthority})
            \cup {tx.key : tx \in {t \in in_flight : t.kind = "multisig"}}
            \cup {tx.new : tx \in {t \in in_flight : t.kind = "authority"}}
Least(keys) == CHOOSE k \in keys : \A j \in keys : k <= j

\* Accounts nothing refers to any more are dropped, and their keys reused.
Begin(task, mint, escrow, multisig) ==
    /\ ~Running
    /\ session' = [task |-> task, step |-> 1, mint |-> mint, escrow |-> escrow,
                   multisig |-> multisig, tx |-> NoTx]
    /\ multisigs' = [k \in DOMAIN multisigs \cap Referred |-> multisigs[k]]
    /\ UNCHANGED <<minters, mints, stores, file, in_flight>>

FreshMultisigs == Multisigs \ Referred

Create ==
    /\ FreshRuns # {} /\ FreshMultisigs # {}
    /\ Begin("create", NoOne, Least(FreshRuns), Least(FreshMultisigs))

\* --mint: Mint-And-Burn-Adapter; the token's authorities are left as they are.
CreateMABA ==
    /\ FreshRuns # {} /\ FreshMultisigs # {}
    /\ Begin("maba", Order, Least(FreshRuns), Least(FreshMultisigs))

CreateAdapter ==
    /\ FreshRuns # {}
    /\ Begin("adapter", Order, Least(FreshRuns), mints[Order]["MintTokens"])

\* The operator names a store and its own token.
SetAuthority(escrow) ==
    /\ escrow \in DOMAIN stores /\ FreshMultisigs # {}
    /\ Begin("setauthority", stores[escrow].mint, escrow,
             Least(FreshMultisigs))

EndOrNext == IF session.step = Len(StepsOf(session.task)) THEN Idle
             ELSE [session EXCEPT !.step = @ + 1, !.tx = NoTx]

IsTx(step) == step \notin {"check", "seen", "output"}

\* setauthority throws when the token has no authority of the type.  The
\* simulation throws when the chain would refuse the transaction now.
Prepare ==
    /\ Running /\ session.tx = NoTx /\ IsTx(Step)
    /\ session' = IF Step \in AuthorityTypes /\ mints[session.mint][Step] = NoOne
                  THEN Idle
                  ELSE IF Accepted(BuildTx)
                  THEN [session EXCEPT !.tx = BuildTx] ELSE Idle
    /\ UNCHANGED <<minters, chainVars, file, in_flight>>

Sent == Running /\ session.tx # NoTx

Confirmed ==
    /\ Sent
    /\ Lands(session.tx)
    /\ session' = EndOrNext
    /\ UNCHANGED <<minters, file, in_flight>>

\* Refused although the simulation was not: sendAndConfirm resolves with the
\* error, nobody reads it, and the task goes on.
Rejected ==
    /\ Sent /\ ~Accepted(session.tx)
    /\ session' = EndOrNext
    /\ UNCHANGED <<minters, chainVars, file, in_flight>>

\* Not seen in time, or the operator stops the task.
GivenUp ==
    /\ Sent
    /\ Cardinality(in_flight \cup {session.tx}) <= MaxInFlight
    /\ in_flight' = in_flight \cup {session.tx}
    /\ session' = Idle
    /\ UNCHANGED <<minters, chainVars, file>>

\* checkMultisigSigners; assertAccountInitialized retries until the node has
\* seen the account and gives up after ten attempts.
Check ==
    /\ Running /\ Step \in {"check", "seen"}
    /\ session' = IF /\ Step = "check"
                     /\ ~checkMultisigSigners(multisigs[session.multisig],
                            {oftStore(session.escrow)} \cup minters)
                  THEN Idle ELSE EndOrNext
    /\ UNCHANGED <<minters, chainVars, file, in_flight>>

Unseen ==
    /\ Running /\ Step \in {"check", "seen"}
    /\ session' = Idle
    /\ UNCHANGED <<minters, chainVars, file, in_flight>>

output ==
    /\ Running /\ Step = "output"
    /\ file' = [mint |-> TheMint, mintAuthority |-> session.multisig,
                escrow |-> session.escrow, task |-> session.task]
    /\ session' = Idle
    /\ UNCHANGED <<minters, chainVars, in_flight>>

LandsLate(tx) ==
    /\ Lands(tx)
    /\ UNCHANGED <<minters, file, session, in_flight>>

Expires(tx) ==
    /\ in_flight' = in_flight \ {tx}
    /\ UNCHANGED <<minters, chainVars, file, session>>

Next ==
    \/ Create \/ CreateMABA \/ CreateAdapter
    \/ \E escrow \in Runs : SetAuthority(escrow)
    \/ Prepare \/ Confirmed \/ Rejected \/ GivenUp
    \/ Check \/ Unseen \/ output
    \/ \E tx \in in_flight : LandsLate(tx) \/ Expires(tx)

Spec == Init /\ [][Next]_vars

-----------------------------------------------------------------------------

CanMint(escrow, authority) ==
    /\ authority \in DOMAIN multisigs
    /\ oftStore(escrow) \in multisigs[authority].signers

Moved(escrow) ==
    \A type \in AuthorityTypes : CanMint(escrow, mints[stores[escrow].mint][type])

\* The operator keeps running setauthority for a store until both authorities
\* of its token have moved, a task that runs goes on, the node sees an account
\* in the end, a transaction that could be confirmed again and again is, and one
\* that does not land expires.
Fairness ==
    /\ SF_vars(\E escrow \in DOMAIN stores :
                  ~Moved(escrow) /\ SetAuthority(escrow))
    /\ WF_vars(Prepare) /\ WF_vars(output)
    /\ WF_vars(Check \/ Unseen) /\ SF_vars(Check)
    /\ WF_vars(Confirmed \/ Rejected \/ GivenUp)
    /\ \A step \in {"multisig"} \cup AuthorityTypes :
          SF_vars(Running /\ session.task = "setauthority" /\ Step = step
                  /\ Confirmed)
    /\ WF_vars(\E tx \in in_flight : Expires(tx))

FairSpec == Spec /\ Fairness

(* No token's authority is ever a multisig without a store that exists for the
   token: whichever step a task stops after and whatever lands late, what was
   minted until then can still be delivered to, and the wallet, which may have
   given its own right away for good, has not given it to nobody. *)
AuthorityHasAStore ==
    \A m \in DOMAIN mints, type \in AuthorityTypes :
        mints[m][type] \in Multisigs =>
            \E escrow \in DOMAIN stores :
                stores[escrow].mint = m /\ CanMint(escrow, mints[m][type])

(* OFT.json is written of a store that exists, for the token it names, and when
   create made the token, of one that can mint it and goes on to. *)
OFTFileIsTrue ==
    file # NoFile =>
        /\ file.escrow \in DOMAIN stores
        /\ stores[file.escrow].mint = file.mint
        /\ file.task = "create" => CanMint(file.escrow, mints[file.mint]["MintTokens"])

\* Of the running task: whether a step is still to be taken, or was.
Todo(name) == \E i \in DOMAIN StepsOf(session.task) :
                 i >= session.step /\ StepsOf(session.task)[i] = name
Did(name)  == \E i \in DOMAIN StepsOf(session.task) :
                 i < session.step /\ StepsOf(session.task)[i] = name

\* The inductive form of the two, in three parts.  On chain, a store is for its
\* run's own token or for Order, and the file's token of create for its store.
ChainInv ==
    /\ Order \in DOMAIN mints
    /\ \A escrow \in DOMAIN stores :
          /\ escrow \in Runs
          /\ stores[escrow].mint \in DOMAIN mints \cap {escrow, Order}
    /\ AuthorityHasAStore
    /\ OFTFileIsTrue
    /\ file # NoFile => (file.task = "create" => file.mint = file.escrow)

\* A transaction that may land names keys of one run, and gives an authority
\* only to a multisig with a store of the token.
TransactionOK(tx) ==
    \/ tx.kind = "multisig" /\ tx.key \in Multisigs
    \/ tx.kind = "token" /\ tx.mint \in Runs
    \/ tx.kind = "initOft" /\ tx.escrow \in Runs /\ tx.mint \in {tx.escrow, Order}
    \/ /\ tx.kind = "authority"
       /\ \E escrow \in DOMAIN stores :
             stores[escrow].mint = tx.mint /\ CanMint(escrow, tx.new)

\* Of the running task: its keys and what they name.
SessionIs ==
    /\ session = [task |-> session.task, step |-> session.step,
                  mint |-> session.mint, escrow |-> session.escrow,
                  multisig |-> session.multisig, tx |-> session.tx]
    /\ session.task \in Tasks
    /\ session.step \in DOMAIN StepsOf(session.task)
    /\ session.escrow \in Runs
    /\ session.task \in {"maba", "adapter"} => session.mint = Order
    /\ session.task = "setauthority" =>
         /\ session.escrow \in DOMAIN stores
         /\ stores[session.escrow].mint = session.mint

\* What it has yet to make is not there, and no transaction of an earlier run
\* will make it or touch create's token.
YetToMake ==
    /\ Todo("multisig") =>
         /\ session.multisig \in Multisigs \ DOMAIN multisigs
         /\ \A tx \in in_flight : tx.kind = "multisig" => tx.key # session.multisig
    /\ Todo("token") =>
         /\ session.escrow \notin DOMAIN mints
         /\ \A tx \in in_flight : tx.kind = "token" => tx.mint # session.escrow
    /\ Todo("initOft") =>
         /\ session.escrow \notin DOMAIN stores
         /\ \A tx \in in_flight : tx.kind = "initOft" => tx.escrow # session.escrow
    /\ session.task = "create" =>
         \A tx \in in_flight : tx.kind = "authority" => tx.mint # session.escrow

\* What it made is there and stays as it was.
Made ==
    /\ Did("multisig") => CanMint(session.escrow, session.multisig)
    /\ Did("token") =>
         /\ session.escrow \in DOMAIN mints
         /\ Todo("setAuthorities") =>
              \A type \in AuthorityTypes : mints[session.escrow][type] = Wallet
    /\ Did("initOft") =>
         /\ session.escrow \in DOMAIN stores
         /\ stores[session.escrow].mint = TheMint
    /\ Did("setAuthorities") =>
         mints[session.escrow]["MintTokens"] = session.multisig

\* Its transaction is its step's.
TxOfStep ==
    session.tx # NoTx =>
      /\ IsTx(Step) /\ TransactionOK(session.tx)
      /\ IF Step \in AuthorityTypes THEN session.tx.kind = "authority"
         ELSE session.tx = BuildTx

SessionInv == Running => SessionIs /\ YetToMake /\ Made /\ TxOfStep

TasksInv ==
    ChainInv /\ SessionInv /\ \A tx \in in_flight : TransactionOK(tx)

HasBoth(escrow) ==
    \A type \in AuthorityTypes : mints[stores[escrow].mint][type] # NoOne

AuthoritiesMoveTo(escrow) ==
    (escrow \in DOMAIN stores /\ HasBoth(escrow)) ~>
        (escrow \in DOMAIN stores /\ Moved(escrow))

(* A setauthority that stopped between the two authorities is completed by its
   rerun, when the wallet is one of the additional minters: the rerun moves the
   mint authority on from the multisig the first run gave it. *)
AuthoritiesMoveWithTheWallet ==
    Wallet \in minters => \A escrow \in Runs : AuthoritiesMoveTo(escrow)

=============================================================================
