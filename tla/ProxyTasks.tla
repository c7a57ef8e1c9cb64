----------------------------- MODULE ProxyTasks -----------------------------
(***************************************************************************)
(* The tasks that set up the proxy program on Solana (sol:proxy:* of       *)
(* tasks/proxy/setProxy.ts) and the operator who runs them.  A task sends  *)
(* its transactions one after the other and waits for each                 *)
(* (createAndSendV0Tx); sendAndConfirm throws when the transaction is      *)
(* rejected and also when it is not seen in time, and one that was not     *)
(* seen may still land, later, in the middle of another task.  Some steps  *)
(* sit in a try whose catch only prints; an error anywhere else ends the   *)
(* task.                                                                   *)
(*                                                                         *)
(* Every transaction is signed by the operator's wallet alone.  What the   *)
(* proxy program checks is translated from programs/solana-proxy; the      *)
(* LayerZero endpoint and its library are external: each account of theirs *)
(* is created once, and only the delegate configures the OApp.             *)
(***************************************************************************)
EXTENDS Sequences, Environments, Interfaces

CONSTANTS
    Envs,          \* environments an operator may deploy
    Wallet,        \* the operator's key
    NoAccount, Idle,
    MaxInFlight    \* bound on unconfirmed transactions that may still land

ASSUME TasksAssumption ==
    /\ Envs \subseteq ENV
    /\ Wallet \notin {PROXY_ACCOUNTS[e].multisig : e \in ENV}
    /\ NoAccount # Wallet
    /\ NoAccount \notin {PROXY_ACCOUNTS[e].multisig : e \in ENV}
    /\ MaxInFlight \in Nat

VARIABLES
    env,           \* the --env of every task run
    admin,         \* proxy_config.admin, NoAccount until init_proxy
    paused,        \* proxy_config.paused
    delegate,      \* endpoint: who may configure the OApp
    accounts,      \* accounts the endpoint and the library hold for the OApp
    libraries,     \* endpoint: for "send" and "receive", the library in use
    lz_config,     \* the library's configuration of the path
    peer,          \* the peer account's contents
    backward_fee, account_list,
    session,       \* the running task and its step, or Idle
    in_flight      \* transactions sent, not confirmed and not yet expired

chainVars == <<admin, paused, delegate, accounts, libraries, lz_config, peer,
               backward_fee, account_list>>
vars == <<env, chainVars, session, in_flight>>

multisig      == getProxyAccounts(env).multisig
peerAddress   == getLedgerOAppAddress(env)
localNetwork  == getSolanaNetwork(env)
options       == getEncodedOptions(getOptions(env, localNetwork))

EndpointAccounts == {"oappNonce", "sendLibrary", "receiveLibrary", "config"}
PeerConfigs == [peer_address : {getLedgerOAppAddress(e) : e \in ENV},
                enforced_options : {getEncodedOptions(OPTIONS_TO_SOLANA[e]) :
                                        e \in ENV},
                fee_bps : {0}]

ASSUME NoPeerAssumption == NoAccount \notin PeerConfigs

-----------------------------------------------------------------------------
\* Tasks: the steps of each in order, whether an error of the step is caught,
\* and what a caught error makes the task print.

Step(tx, catch) == [tx |-> tx, catch |-> catch]
Uncaught == "uncaught"

(* Bug: the nonce's initialisation outside a try. *)
MutNonceUncaught ==
    << Step("initProxy",          Uncaught),
       Step("initOAppNonce",      Uncaught),
       Step("initSendLibrary",    "Send lib already initialized"),
       Step("initReceiveLibrary", "Receive lib already initialized"),
       Step("setSendLibrary",     "Receive lib already set"),
       Step("setReceiveLibrary",  "Receive lib already set") >>

(* Bug: the libraries set before their accounts are there. *)
MutSetBeforeInit ==
    << Step("initProxy",          Uncaught),
       Step("initOAppNonce",      "OApp Nonce already initialized"),
       Step("setSendLibrary",     "Receive lib already set"),
       Step("setReceiveLibrary",  "Receive lib already set"),
       Step("initSendLibrary",    "Send lib already initialized"),
       Step("initReceiveLibrary", "Receive lib already initialized") >>

InitTask ==
    << Step("initProxy",          Uncaught),
       Step("initOAppNonce",      "OApp Nonce already initialized"),
       Step("initSendLibrary",    "Send lib already initialized"),
       Step("initReceiveLibrary", "Receive lib already initialized"),
       Step("setSendLibrary",     "Receive lib already set"),
       Step("setReceiveLibrary",  "Receive lib already set") >>

SetPeerTask == << Step("setPeer", Uncaught) >>

SetConfigTask == << Step("initConfig", "Config already initialized"),
                    Step("setConfig",  Uncaught) >>

SetFeeTask         == << Step("setBackwardFee", Uncaught) >>
SetAccountListTask == << Step("setAccountList", Uncaught) >>
PauseTask          == << Step("pause", Uncaught) >>
UnpauseTask        == << Step("unpause", Uncaught) >>

\* setDelegate and transferAdmin are two instructions of one transaction.
AdminTask == << Step("handover", Uncaught) >>

Tasks == {"init", "setpeer", "setconfig", "setfee", "setaccountlist",
          "pause", "unpause", "admin"}

StepsOf(task) ==
    CASE task = "init"           -> InitTask
      [] task = "setpeer"        -> SetPeerTask
      [] task = "setconfig"      -> SetConfigTask
      [] task = "setfee"         -> SetFeeTask
      [] task = "setaccountlist" -> SetAccountListTask
      [] task = "pause"          -> PauseTask
      [] task = "unpause"        -> UnpauseTask
      [] task = "admin"          -> AdminTask

Transactions == UNION {{StepsOf(t)[i].tx : i \in DOMAIN StepsOf(t)} : t \in Tasks}

\* timed_out is for the properties: whether a transaction of the run was not
\* seen in time.
Sessions == UNION {[task : {t}, step : DOMAIN StepsOf(t), timed_out : BOOLEAN] :
                      t \in Tasks}

TypeOK ==
    /\ env \in Envs
    /\ admin \in {NoAccount, Wallet, multisig}
    /\ paused \in BOOLEAN
    /\ delegate \in {NoAccount, Wallet, multisig}
    /\ accounts \subseteq EndpointAccounts
    /\ libraries \in [{"send", "receive"} -> {"default", Uln}]
    /\ lz_config \in {"default", localNetwork}
    /\ peer \in PeerConfigs \cup {NoAccount}
    /\ backward_fee \in {NoAccount, getBackwardFee}
    /\ account_list \in {NoAccount, getUsdcMint(env)}
    /\ session \in Sessions \cup {Idle}
    /\ in_flight \subseteq Transactions

Init ==
    /\ env \in Envs
    /\ admin = NoAccount /\ paused = FALSE /\ delegate = NoAccount
    /\ accounts = {}
    /\ libraries = [lib \in {"send", "receive"} |-> "default"]
    /\ lz_config = "default"
    /\ peer = NoAccount
    /\ backward_fee = NoAccount /\ account_list = NoAccount
    /\ session = Idle
    /\ in_flight = {}

-----------------------------------------------------------------------------
\* Transactions: when the chain accepts one, and what it does then.

AdminSigns    == admin = Wallet
DelegateSigns == delegate = Wallet

\* The instructions of the proxy program in a transaction.  The tasks are built
\* with target/types; setpeer and the endpoint's are written by an SDK.
ProxyInstructions(tx) ==
    CASE tx = "initProxy"           -> {"initProxy"}
      [] tx = "setBackwardFee"      -> {"setBackwardFee"}
      [] tx = "setAccountList"      -> {"setAccountList"}
      [] tx \in {"pause", "unpause"} -> {"setPause"}
      [] tx = "handover"            -> {"setDelegate", "transferAdmin"}
      [] OTHER                      -> {}

WellFormed(tx) ==
    /\ \A instruction \in ProxyInstructions(tx) :
          Builds(ProxyProgram, instruction)
    /\ tx = "setPeer" => PeerEncoderReads

(* Bug: init_proxy with init_if_needed. *)
MutInitAgain(tx) ==
    CASE tx = "initProxy"          -> TRUE
      [] tx = "initOAppNonce"      -> DelegateSigns /\ "oappNonce" \notin accounts
      [] tx = "initSendLibrary"    -> DelegateSigns /\ "sendLibrary" \notin accounts
      [] tx = "initReceiveLibrary" -> DelegateSigns /\ "receiveLibrary" \notin accounts
      [] tx = "setSendLibrary"     -> DelegateSigns /\ "sendLibrary" \in accounts
      [] tx = "setReceiveLibrary"  -> DelegateSigns /\ "receiveLibrary" \in accounts
      [] tx = "initConfig"         -> DelegateSigns /\ "config" \notin accounts
      [] tx = "setConfig"          -> DelegateSigns /\ "config" \in accounts
      [] OTHER                     -> AdminSigns

Allowed(tx) ==
    CASE tx = "initProxy"          -> admin = NoAccount
      [] tx = "initOAppNonce"      -> DelegateSigns /\ "oappNonce" \notin accounts
      [] tx = "initSendLibrary"    -> DelegateSigns /\ "sendLibrary" \notin accounts
      [] tx = "initReceiveLibrary" -> DelegateSigns /\ "receiveLibrary" \notin accounts
      [] tx = "setSendLibrary"     -> /\ DelegateSigns
                                      /\ "sendLibrary" \in accounts
                                      /\ libraries["send"] # Uln
      [] tx = "setReceiveLibrary"  -> /\ DelegateSigns
                                      /\ "receiveLibrary" \in accounts
                                      /\ libraries["receive"] # Uln
      [] tx = "initConfig"         -> DelegateSigns /\ "config" \notin accounts
      [] tx = "setConfig"          -> DelegateSigns /\ "config" \in accounts
      [] OTHER                     -> AdminSigns

Accepted(tx) == WellFormed(tx) /\ Allowed(tx)

InitProxy ==
    /\ admin' = Wallet /\ paused' = FALSE
    /\ delegate' = Wallet
    /\ UNCHANGED <<accounts, libraries, lz_config, peer, backward_fee,
                   account_list>>

InitAccount(account) ==
    /\ accounts' = accounts \cup {account}
    /\ UNCHANGED <<admin, paused, delegate, libraries, lz_config, peer,
                   backward_fee, account_list>>

SetLibrary(lib) ==
    /\ libraries' = [libraries EXCEPT ![lib] = Uln]
    /\ UNCHANGED <<admin, paused, delegate, accounts, lz_config, peer,
                   backward_fee, account_list>>

(* Bug: the other end's network. *)
MutOrderlyConfig ==
    /\ lz_config' = getOrderlyNetwork(env)
    /\ UNCHANGED <<admin, paused, delegate, accounts, libraries, peer,
                   backward_fee, account_list>>

\* EXECUTOR, SEND ULN and RECEIVE ULN in one transaction.
SetConfig ==
    /\ lz_config' = localNetwork
    /\ UNCHANGED <<admin, paused, delegate, accounts, libraries, peer,
                   backward_fee, account_list>>

\* PeerAddress, EnforcedOptions and FeeBps in one transaction.
SetPeer ==
    /\ peer' = [peer_address |-> peerAddress, enforced_options |-> options,
                fee_bps |-> 0]
    /\ UNCHANGED <<admin, paused, delegate, accounts, libraries, lz_config,
                   backward_fee, account_list>>

SetBackwardFee ==
    /\ backward_fee' = getBackwardFee
    /\ UNCHANGED <<admin, paused, delegate, accounts, libraries, lz_config,
                   peer, account_list>>

SetAccountList ==
    /\ account_list' = getUsdcMint(env)
    /\ UNCHANGED <<admin, paused, delegate, accounts, libraries, lz_config,
                   peer, backward_fee>>

SetPause(value) ==
    /\ paused' = value
    /\ UNCHANGED <<admin, delegate, accounts, libraries, lz_config, peer,
                   backward_fee, account_list>>

(* Bug: transfer_admin without set_delegate. *)
MutTransferOnly ==
    /\ admin' = multisig
    /\ UNCHANGED <<paused, delegate, accounts, libraries, lz_config, peer,
                   backward_fee, account_list>>

Handover ==
    /\ delegate' = multisig
    /\ admin' = multisig
    /\ UNCHANGED <<paused, accounts, libraries, lz_config, peer, backward_fee,
                   account_list>>

Effect(tx) ==
    \/ tx = "initProxy"          /\ InitProxy
    \/ tx = "initOAppNonce"      /\ InitAccount("oappNonce")
    \/ tx = "initSendLibrary"    /\ InitAccount("sendLibrary")
    \/ tx = "initReceiveLibrary" /\ InitAccount("receiveLibrary")
    \/ tx = "initConfig"         /\ InitAccount("config")
    \/ tx = "setSendLibrary"     /\ SetLibrary("send")
    \/ tx = "setReceiveLibrary"  /\ SetLibrary("receive")
    \/ tx = "setConfig"          /\ SetConfig
    \/ tx = "setPeer"            /\ SetPeer
    \/ tx = "setBackwardFee"     /\ SetBackwardFee
    \/ tx = "setAccountList"     /\ SetAccountList
    \/ tx = "pause"              /\ SetPause(TRUE)
    \/ tx = "unpause"            /\ SetPause(FALSE)
    \/ tx = "handover"           /\ Handover

Lands(tx) == Accepted(tx) /\ Effect(tx)

-----------------------------------------------------------------------------
\* Running a task.

Running == session # Idle
Current == StepsOf(session.task)[session.step]
LastStep == session.step = Len(StepsOf(session.task))
NextStep(unseen) ==
    IF LastStep THEN Idle
    ELSE [task |-> session.task, step |-> session.step + 1,
          timed_out |-> session.timed_out \/ unseen]

\* init_proxy is skipped when the account is read; any error of the read, not
\* only its absence, leads to it.  With no multisig in the table the handover
\* cannot be encoded.
FirstStep(task) == IF task = "init" /\ admin # NoAccount THEN 2 ELSE 1

Begin(task, first) ==
    /\ ~Running
    /\ first \in {1, FirstStep(task)}
    /\ task = "admin" => multisig # Missing
    /\ session' = [task |-> task, step |-> first, timed_out |-> FALSE]
    /\ UNCHANGED <<env, chainVars, in_flight>>

Confirmed ==
    /\ Running
    /\ Lands(Current.tx)
    /\ session' = NextStep(FALSE)
    /\ UNCHANGED <<env, in_flight>>

\* The step's catch, when it has one, lets the task go on.
AfterError(unseen) ==
    IF Current.catch = Uncaught THEN Idle ELSE NextStep(unseen)

Rejected ==
    /\ Running
    /\ ~Accepted(Current.tx)
    /\ session' = AfterError(FALSE)
    /\ UNCHANGED <<env, chainVars, in_flight>>

TimedOut ==
    /\ Running
    /\ Cardinality(in_flight \cup {Current.tx}) <= MaxInFlight
    /\ in_flight' = in_flight \cup {Current.tx}
    /\ session' = AfterError(TRUE)
    /\ UNCHANGED <<env, chainVars>>

\* The operator stops the task, or its process dies, with a transaction out.
Interrupted ==
    /\ Running
    /\ Cardinality(in_flight \cup {Current.tx}) <= MaxInFlight
    /\ in_flight' = in_flight \cup {Current.tx}
    /\ session' = Idle
    /\ UNCHANGED <<env, chainVars>>

\* Several runs may have sent the same transaction: one that landed may have a
\* copy that still can.
LandsLate(tx) ==
    /\ tx \in in_flight
    /\ Lands(tx)
    /\ UNCHANGED <<env, session, in_flight>>

Expires(tx) ==
    /\ tx \in in_flight
    /\ in_flight' = in_flight \ {tx}
    /\ UNCHANGED <<env, chainVars, session>>

Next ==
    \/ \E task \in Tasks, first \in 1..2 : Begin(task, first)
    \/ Confirmed
    \/ Rejected
    \/ TimedOut
    \/ Interrupted
    \/ \E tx \in in_flight : LandsLate(tx) \/ Expires(tx)

Spec == Init /\ [][Next]_vars

-----------------------------------------------------------------------------
\* What the deployment is to reach.

\* Whether a transaction's configuration is in place.
Done(tx) ==
    CASE tx = "initProxy"          -> admin # NoAccount
      [] tx = "initOAppNonce"      -> "oappNonce" \in accounts
      [] tx = "initSendLibrary"    -> "sendLibrary" \in accounts
      [] tx = "initReceiveLibrary" -> "receiveLibrary" \in accounts
      [] tx = "initConfig"         -> "config" \in accounts
      [] tx = "setSendLibrary"     -> libraries["send"] = Uln
      [] tx = "setReceiveLibrary"  -> libraries["receive"] = Uln
      [] tx = "setConfig"          -> lz_config = localNetwork
      [] tx = "setPeer"            -> /\ peer # NoAccount
                                      /\ peer.peer_address = peerAddress
                                      /\ peer.enforced_options = options
      [] tx = "setBackwardFee"     -> backward_fee = getBackwardFee
      [] tx = "setAccountList"     -> account_list = getUsdcMint(env)
      [] tx = "pause"              -> paused
      [] tx = "unpause"            -> ~paused
      [] tx = "handover"           -> admin = multisig /\ delegate = multisig

TaskDone(task) == \A i \in DOMAIN StepsOf(task) : Done(StepsOf(task)[i].tx)

\* What the program tells the executor to deliver a packet with is what
\* lz_receive reads, once the account list says which token account is USDC's.
Deliverable == /\ account_list = getUsdcMint(env)
               /\ ReceiveList = ProxyProgram.lzReceive

\* The tasks in the order the README runs them.
Setup    == <<"init", "setpeer", "setconfig", "setfee", "setaccountlist">>
Deployed == (\A i \in DOMAIN Setup : TaskDone(Setup[i])) /\ Deliverable

SetupTransactions == Transactions \ {"pause", "unpause", "handover"}

\* The operator keeps running the first task whose work is not all there and
\* its read succeeds in the end, a task that runs goes on and from some time on
\* nobody stops it, and a transaction that is sent again and again is confirmed
\* in the end.
FirstUndone(task) ==
    \E i \in DOMAIN Setup : /\ Setup[i] = task /\ ~TaskDone(task)
                            /\ \A j \in 1..(i - 1) : TaskDone(Setup[j])

Fairness ==
    /\ SF_vars(\E task \in Tasks :
                  FirstUndone(task) /\ Begin(task, FirstStep(task)))
    /\ WF_vars(Confirmed \/ Rejected \/ TimedOut)
    /\ <>[][~Interrupted]_vars
    /\ SF_vars(/\ Running /\ Current.tx \in SetupTransactions
               /\ ~Done(Current.tx) /\ Confirmed)

FairSpec == Spec /\ Fairness

(* Whoever may configure the OApp on the endpoint is whoever administers the
   program, at every moment: transfer_admin alone would leave the delegate
   behind, so the handover must move both, in one transaction. *)
DelegateIsAdmin == delegate = admin

(* Once the multisig administers the proxy, no transaction the deployer sent
   before (one that timed out and lands late, or the rest of a task that was
   still running) changes anything on the chain. *)
HandoverCutsOffTheDeployer ==
    [][admin \notin {NoAccount, Wallet} => UNCHANGED chainVars]_vars

\* The task's last step is confirmed, or its error caught.
ReachesItsEnd(task) ==
    /\ Running /\ session.task = task /\ LastStep
    /\ Confirmed \/ (Rejected /\ Current.catch # Uncaught)

(* A task that reaches its end with no transaction timed out and the roles not
   handed over meanwhile has its whole work in place: of the errors it caught
   and reported as "already initialized" or "already set", none hides a step
   that failed, whatever earlier runs left half done or landed in between. *)
CaughtErrorsHideNothing ==
    [][\A task \in Tasks :
          ReachesItsEnd(task) /\ ~session.timed_out /\ admin' = Wallet
          => TaskDone(task)']_vars

(* An operator who keeps rerunning the tasks gets the whole configuration in
   place, unless the roles were handed over before it was: every step's error
   that a rerun is bound to meet is caught, so that the steps after it run. *)
DeploymentFinishes == <>(Deployed \/ admin = multisig)

=============================================================================
