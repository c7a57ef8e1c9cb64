------------------------- MODULE ProxyTasks_proofs -------------------------
(***************************************************************************)
(* Proofs about ProxyTasks for every set of environments, any wallet and   *)
(* any number of transactions in flight that TasksAssumption allows.       *)
(***************************************************************************)
EXTENDS ProxyTasks, TLAPS

-----------------------------------------------------------------------------
(* Tasks and transactions.                                                 *)

LEMMA StepsAreNumbered ==
    ASSUME NEW task \in Tasks
    PROVE  /\ Len(StepsOf(task)) \in Nat \ {0}
           /\ DOMAIN StepsOf(task) = 1..Len(StepsOf(task))
           /\ task = "init" => Len(StepsOf(task)) = 6
<1>. USE DEF StepsOf, Step
<1>1. CASE task = "init"      BY <1>1 DEF InitTask
<1>2. CASE task = "setconfig" BY <1>2 DEF SetConfigTask
<1>3. CASE task = "setpeer"        BY <1>3 DEF SetPeerTask
<1>4. CASE task = "setfee"         BY <1>4 DEF SetFeeTask
<1>5. CASE task = "setaccountlist" BY <1>5 DEF SetAccountListTask
<1>6. CASE task = "pause"          BY <1>6 DEF PauseTask
<1>7. CASE task = "unpause"        BY <1>7 DEF UnpauseTask
<1>8. CASE task = "admin"          BY <1>8 DEF AdminTask
<1>. QED BY <1>1, <1>2, <1>3, <1>4, <1>5, <1>6, <1>7, <1>8 DEF Tasks

LEMMA SessionFields ==
    ASSUME TypeOK, Running
    PROVE  /\ session.task \in Tasks
           /\ session.step \in DOMAIN StepsOf(session.task)
           /\ session.timed_out \in BOOLEAN
           /\ session = [task |-> session.task, step |-> session.step,
                         timed_out |-> session.timed_out]
  BY DEF TypeOK, Sessions, Running

LEMMA CurrentIsATransaction ==
    ASSUME TypeOK, Running
    PROVE  Current.tx \in Transactions
  BY SessionFields DEF Current, Transactions

LEMMA IsSession ==
    ASSUME NEW task \in Tasks, NEW step \in DOMAIN StepsOf(task),
           NEW timed_out \in BOOLEAN
    PROVE  [task |-> task, step |-> step, timed_out |-> timed_out] \in Sessions
  BY DEF Sessions

\* Where the task goes on.
LEMMA NextStepIs ==
    ASSUME TypeOK, Running, NEW unseen \in BOOLEAN
    PROVE  /\ NextStep(unseen) \in Sessions \cup {Idle}
           /\ ~LastStep => NextStep(unseen) =
                [task |-> session.task, step |-> session.step + 1,
                 timed_out |-> session.timed_out \/ unseen]
<1>. DEFINE task == session.task
            step == session.step
<1>1. task \in Tasks /\ step \in DOMAIN StepsOf(task)
      /\ session.timed_out \in BOOLEAN
      /\ session = [task |-> task, step |-> step, timed_out |-> session.timed_out]
  BY SessionFields
<1>2. Len(StepsOf(task)) \in Nat /\ step \in 1..Len(StepsOf(task))
  BY <1>1, StepsAreNumbered
<1>3. CASE LastStep
  BY <1>3 DEF NextStep
<1>4. CASE ~LastStep
  <2>1. step + 1 \in DOMAIN StepsOf(task)
    BY <1>1, <1>2, <1>4, StepsAreNumbered DEF LastStep
  <2>2. NextStep(unseen) = [task |-> task, step |-> step + 1,
                            timed_out |-> session.timed_out \/ unseen]
    BY <1>4 DEF NextStep
  <2>3. (session.timed_out \/ unseen) \in BOOLEAN
    OBVIOUS
  <2>. QED BY <1>1, <1>4, <2>1, <2>2, <2>3, IsSession
<1>. QED BY <1>3, <1>4

-----------------------------------------------------------------------------
(* What a transaction does.                                                *)

LEMMA OptionsAreATable ==
    ASSUME TypeOK
    PROVE  \E e \in ENV : options = getEncodedOptions(OPTIONS_TO_SOLANA[e])
<1>1. env \in ENV
  BY TasksAssumption DEF TypeOK
<1>2. localNetwork \in {"soldev", "solana"}
  BY DEF localNetwork, getSolanaNetwork
<1>3. getOptions(env, localNetwork) = OPTIONS_TO_SOLANA[env]
  BY <1>2 DEF getOptions
<1>. QED BY <1>1, <1>3 DEF options

\* The types of the chain's state, and what of them an instruction leaves.
Roles == admin \in {NoAccount, Wallet, multisig}
         /\ delegate \in {NoAccount, Wallet, multisig} /\ paused \in BOOLEAN
Accounts == accounts \subseteq EndpointAccounts
Configuration == /\ libraries \in [{"send", "receive"} -> {"default", Uln}]
                 /\ lz_config \in {"default", localNetwork}
                 /\ peer \in PeerConfigs \cup {NoAccount}
                 /\ backward_fee \in {NoAccount, getBackwardFee}
                 /\ account_list \in {NoAccount, getUsdcMint(env)}

LEMMA EffectTyped ==
    ASSUME TypeOK, NEW tx, Effect(tx), env' = env
    PROVE  Roles' /\ Accounts' /\ Configuration'
<1>. USE DEF TypeOK, Roles, Accounts, Configuration, multisig, localNetwork
<1>1. CASE InitProxy    BY <1>1 DEF InitProxy
<1>2. ASSUME NEW account \in EndpointAccounts, InitAccount(account)
      PROVE  Roles' /\ Accounts' /\ Configuration'
  BY <1>2 DEF InitAccount
<1>3. ASSUME NEW lib \in {"send", "receive"}, SetLibrary(lib)
      PROVE  Roles' /\ Accounts' /\ Configuration'
  BY <1>3 DEF SetLibrary
<1>4. CASE SetConfig    BY <1>4 DEF SetConfig
<1>5. CASE SetPeer
  <2>1. peerAddress \in {getLedgerOAppAddress(e) : e \in ENV}
    BY TasksAssumption DEF peerAddress
  <2>2. peer' \in PeerConfigs
    BY <1>5, <2>1, OptionsAreATable DEF SetPeer, PeerConfigs
  <2>. QED BY <1>5, <2>2 DEF SetPeer
<1>6. CASE SetBackwardFee BY <1>6 DEF SetBackwardFee
<1>7. CASE SetAccountList BY <1>7 DEF SetAccountList
<1>8. ASSUME NEW value \in BOOLEAN, SetPause(value)
      PROVE  Roles' /\ Accounts' /\ Configuration'
  BY <1>8 DEF SetPause
<1>9. CASE Handover     BY <1>9 DEF Handover
<1>. QED
  BY <1>1, <1>2, <1>3, <1>4, <1>5, <1>6, <1>7, <1>8, <1>9 DEF Effect, EndpointAccounts

LEMMA TypedParts ==
    TypeOK <=> /\ env \in Envs /\ Roles /\ Accounts /\ Configuration
               /\ session \in Sessions \cup {Idle}
               /\ in_flight \subseteq Transactions
  BY DEF TypeOK, Roles, Accounts, Configuration

\* A step that confirms no transaction leaves the chain alone.
LEMMA StepsOfTheChain ==
    ASSUME [Next]_vars
    PROVE  /\ env' = env
           /\ UNCHANGED chainVars \/ \E tx : Lands(tx)
<1>1. CASE \E task \in Tasks, first \in 1..2 : Begin(task, first)
  BY <1>1 DEF Begin
<1>2. CASE Confirmed BY <1>2 DEF Confirmed
<1>3. CASE Rejected \/ TimedOut \/ Interrupted
  BY <1>3 DEF Rejected, TimedOut, Interrupted
<1>4. CASE \E tx \in in_flight : LandsLate(tx) \/ Expires(tx)
  BY <1>4 DEF LandsLate, Expires
<1>5. CASE UNCHANGED vars BY <1>5 DEF vars
<1>. QED BY <1>1, <1>2, <1>3, <1>4, <1>5 DEF Next

-----------------------------------------------------------------------------
(* Types.                                                                  *)

LEMMA TypeInit ==
    ASSUME Init
    PROVE  TypeOK
  BY DEF Init, TypeOK

LEMMA TypeStep ==
    ASSUME TypeOK, [Next]_vars
    PROVE  TypeOK'
<1>1. env' \in Envs
  BY StepsOfTheChain DEF TypeOK
<1>2. Roles' /\ Accounts' /\ Configuration'
  <2>1. CASE UNCHANGED chainVars
    BY <2>1, StepsOfTheChain, TypedParts
       DEF chainVars, Roles, Accounts, Configuration, multisig, localNetwork
  <2>2. CASE \E tx : Lands(tx)
    BY <2>2, StepsOfTheChain, EffectTyped DEF Lands
  <2>. QED BY <2>1, <2>2, StepsOfTheChain
<1>3. session' \in Sessions \cup {Idle} /\ in_flight' \subseteq Transactions
  <2>. USE DEF TypeOK
  <2>1. ASSUME NEW task \in Tasks, NEW first \in 1..2, Begin(task, first)
        PROVE  session' \in Sessions \cup {Idle} /\ in_flight' \subseteq Transactions
    <3>1. first \in DOMAIN StepsOf(task)
      BY <2>1, StepsAreNumbered DEF Begin, FirstStep
    <3>. QED BY <2>1, <3>1, IsSession DEF Begin
  <2>2. CASE Confirmed
    BY <2>2, NextStepIs DEF Confirmed
  <2>3. CASE Rejected
    BY <2>3, NextStepIs DEF Rejected, AfterError
  <2>4. CASE TimedOut
    BY <2>4, NextStepIs, CurrentIsATransaction DEF TimedOut, AfterError
  <2>5. CASE Interrupted
    BY <2>5, CurrentIsATransaction DEF Interrupted
  <2>6. CASE \E tx \in in_flight : LandsLate(tx) \/ Expires(tx)
    BY <2>6 DEF LandsLate, Expires
  <2>7. CASE UNCHANGED vars
    BY <2>7 DEF vars
  <2>. QED BY <2>1, <2>2, <2>3, <2>4, <2>5, <2>6, <2>7 DEF Next
<1>4. TypeOK' <=> (env \in Envs /\ Roles /\ Accounts /\ Configuration
                  /\ session \in Sessions \cup {Idle}
                  /\ in_flight \subseteq Transactions)'
  BY DEF TypeOK, Roles, Accounts, Configuration
<1>. QED BY <1>1, <1>2, <1>3, <1>4

(* Every account of the deployment holds what a task put there: the roles are
   the wallet's or the multisig's, the peer, the fee and the list the tables'. *)
THEOREM DeploymentTypeCorrect == Spec => []TypeOK
<1>1. Init => TypeOK
  BY TypeInit
<1>2. TypeOK /\ [Next]_vars => TypeOK'
  BY TypeStep
<1>. QED BY <1>1, <1>2, PTL DEF Spec

-----------------------------------------------------------------------------
(* Roles.                                                                  *)

LEMMA RolesMoveTogether ==
    ASSUME DelegateIsAdmin, [Next]_vars
    PROVE  DelegateIsAdmin'
<1>. USE DEF DelegateIsAdmin
<1>1. CASE UNCHANGED chainVars
  BY <1>1 DEF chainVars
<1>2. ASSUME NEW tx, Effect(tx)
      PROVE  DelegateIsAdmin'
  BY <1>2 DEF Effect, InitProxy, InitAccount, SetLibrary, SetConfig, SetPeer,
              SetBackwardFee, SetAccountList, SetPause, Handover
<1>. QED BY <1>1, <1>2, StepsOfTheChain DEF Lands

(* Whatever tasks run, stop or land late, who configures the OApp on the
   endpoint is who administers the program. *)
THEOREM DelegateIsAlwaysAdmin == Spec => []DelegateIsAdmin
<1>1. Init => DelegateIsAdmin
  BY DEF Init, DelegateIsAdmin
<1>2. DelegateIsAdmin /\ [Next]_vars => DelegateIsAdmin'
  BY RolesMoveTogether
<1>. QED BY <1>1, <1>2, PTL DEF Spec

\* Every transaction is one that creates the proxy, or needs the wallet in one
\* of the two roles.
LEMMA WalletMustHoldARole ==
    ASSUME NEW tx, Accepted(tx)
    PROVE  admin = NoAccount \/ admin = Wallet \/ delegate = Wallet
  BY DEF Accepted, Allowed, DelegateSigns, AdminSigns

(* Once neither the wallet nor nobody administers the proxy, no transaction of
   the wallet's changes anything, however late it lands. *)
THEOREM HandoverIsFinal == Spec => HandoverCutsOffTheDeployer
<1>1. ASSUME DelegateIsAdmin, [Next]_vars, admin \notin {NoAccount, Wallet}
      PROVE  UNCHANGED chainVars
  BY <1>1, StepsOfTheChain, WalletMustHoldARole DEF Lands, DelegateIsAdmin
<1>2. DelegateIsAdmin /\ [Next]_vars =>
        [admin \notin {NoAccount, Wallet} => UNCHANGED chainVars]_vars
  BY <1>1
<1>. QED BY <1>2, DelegateIsAlwaysAdmin, PTL DEF Spec, HandoverCutsOffTheDeployer

-----------------------------------------------------------------------------
(* What the tasks get done.                                                *)

LEMMA MultisigIsAnAccount ==
    ASSUME TypeOK
    PROVE  multisig # NoAccount
  BY TasksAssumption DEF TypeOK, multisig, getProxyAccounts

SetupNames == {"initProxy", "initOAppNonce", "initSendLibrary",
               "initReceiveLibrary", "setSendLibrary", "setReceiveLibrary",
               "initConfig", "setConfig", "setPeer", "setBackwardFee",
               "setAccountList"}

LEMMA InitTaskNames ==
    ASSUME NEW i \in DOMAIN InitTask
    PROVE  InitTask[i].tx \in SetupNames
<1>1. i \in 1..6
  BY DEF InitTask
<1>2. CASE i = 1 BY <1>2 DEF InitTask, Step, SetupNames
<1>3. CASE i = 2 BY <1>3 DEF InitTask, Step, SetupNames
<1>4. CASE i = 3 BY <1>4 DEF InitTask, Step, SetupNames
<1>5. CASE i = 4 BY <1>5 DEF InitTask, Step, SetupNames
<1>6. CASE i = 5 BY <1>6 DEF InitTask, Step, SetupNames
<1>7. CASE i = 6 BY <1>7 DEF InitTask, Step, SetupNames
<1>. QED BY <1>1, <1>2, <1>3, <1>4, <1>5, <1>6, <1>7

\* What is in place stays: the pieces of Done, variable by variable.
Kept == /\ admin # NoAccount => admin' # NoAccount
        /\ accounts \subseteq accounts'
        /\ \A lib \in {"send", "receive"} :
              libraries[lib] = Uln => libraries'[lib] = Uln
        /\ lz_config = localNetwork => lz_config' = localNetwork
        /\ peer' \in {peer, [peer_address |-> peerAddress,
                             enforced_options |-> options, fee_bps |-> 0]}
        /\ backward_fee = getBackwardFee => backward_fee' = getBackwardFee
        /\ account_list = getUsdcMint(env) => account_list' = getUsdcMint(env)

LEMMA EffectKeeps ==
    ASSUME TypeOK, NEW tx, Effect(tx)
    PROVE  Kept
<1>. USE DEF Kept
<1>1. CASE InitProxy
  BY <1>1, TasksAssumption DEF InitProxy
<1>2. ASSUME NEW account, InitAccount(account) PROVE Kept
  BY <1>2 DEF InitAccount
<1>3. ASSUME NEW lib \in {"send", "receive"}, SetLibrary(lib) PROVE Kept
  BY <1>3 DEF SetLibrary, TypeOK
<1>4. CASE SetConfig      BY <1>4 DEF SetConfig
<1>5. CASE SetPeer        BY <1>5 DEF SetPeer
<1>6. CASE SetBackwardFee BY <1>6 DEF SetBackwardFee
<1>7. CASE SetAccountList BY <1>7 DEF SetAccountList
<1>8. ASSUME NEW value, SetPause(value) PROVE Kept
  BY <1>8 DEF SetPause
<1>9. CASE Handover       BY <1>9, MultisigIsAnAccount DEF Handover
<1>. QED
  BY <1>1, <1>2, <1>3, <1>4, <1>5, <1>6, <1>7, <1>8, <1>9 DEF Effect

LEMMA KeptIsDone ==
    ASSUME TypeOK, Kept, env' = env, NEW tx \in SetupNames, Done(tx)
    PROVE  Done(tx)'
<1>. USE DEF Done, Kept
<1>1. CASE tx = "initProxy"
  BY <1>1
<1>2. CASE tx \in {"initOAppNonce", "initSendLibrary", "initReceiveLibrary",
                   "initConfig"}
  BY <1>2
<1>3. CASE tx \in {"setSendLibrary", "setReceiveLibrary"}
  BY <1>3
<1>4. CASE tx = "setConfig"
  BY <1>4 DEF localNetwork
<1>5. CASE tx = "setPeer"
  <2>1. peer # NoAccount /\ peer.peer_address = peerAddress
        /\ peer.enforced_options = options
    BY <1>5
  <2>2. peer \in PeerConfigs
    BY <2>1 DEF TypeOK
  <2>3. peer = [peer_address |-> peerAddress,
                enforced_options |-> options, fee_bps |-> 0]
    BY <2>1, <2>2 DEF PeerConfigs
  <2>4. peer' = peer
    BY <2>3
  <2>5. peerAddress' = peerAddress /\ options' = options
    BY DEF peerAddress, options, localNetwork
  <2>. QED BY <1>5, <2>1, <2>4, <2>5
<1>6. CASE tx = "setBackwardFee"
  BY <1>6
<1>7. CASE tx = "setAccountList"
  BY <1>7
<1>. QED BY <1>1, <1>2, <1>3, <1>4, <1>5, <1>6, <1>7 DEF SetupNames

\* No rerun and no late transaction takes back what a task put in place.
LEMMA StepKeepsDone ==
    ASSUME TypeOK, [Next]_vars, NEW tx \in SetupNames, Done(tx)
    PROVE  Done(tx)'
<1>1. CASE UNCHANGED chainVars
  BY <1>1, StepsOfTheChain, KeptIsDone DEF chainVars, Kept
<1>2. CASE \E t : Lands(t)
  BY <1>2, StepsOfTheChain, EffectKeeps, KeptIsDone DEF Lands
<1>. QED BY <1>1, <1>2, StepsOfTheChain

\* A transaction that lands does what it is for.
LEMMA EffectDoes ==
    ASSUME TypeOK, NEW tx \in SetupNames \cup {"pause", "unpause"}, Effect(tx),
           env' = env
    PROVE  Done(tx)'
<1>. USE DEF Effect, Done
<1>1. CASE tx = "initProxy"
  BY <1>1, TasksAssumption DEF InitProxy
<1>2. CASE tx \in {"initOAppNonce", "initSendLibrary", "initReceiveLibrary",
                   "initConfig"}
  BY <1>2 DEF InitAccount
<1>3. CASE tx \in {"setSendLibrary", "setReceiveLibrary"}
  BY <1>3 DEF SetLibrary, TypeOK
<1>4. CASE tx = "setConfig"
  BY <1>4 DEF SetConfig, localNetwork
<1>5. CASE tx = "setPeer"
  <2>1. peer' = [peer_address |-> peerAddress, enforced_options |-> options,
                 fee_bps |-> 0]
    BY <1>5 DEF SetPeer
  <2>2. peer' \in PeerConfigs
    <3>1. peerAddress \in {getLedgerOAppAddress(e) : e \in ENV}
      BY TasksAssumption DEF peerAddress, TypeOK
    <3>. QED BY <2>1, <3>1, OptionsAreATable DEF PeerConfigs
  <2>3. peerAddress' = peerAddress /\ options' = options
    BY DEF peerAddress, options, localNetwork
  <2>. QED BY <1>5, <2>1, <2>2, <2>3, NoPeerAssumption
<1>6. CASE tx = "setBackwardFee"
  BY <1>6 DEF SetBackwardFee
<1>7. CASE tx = "setAccountList"
  BY <1>7 DEF SetAccountList
<1>8. CASE tx \in {"pause", "unpause"}
  BY <1>8 DEF SetPause
<1>. QED BY <1>1, <1>2, <1>3, <1>4, <1>5, <1>6, <1>7, <1>8 DEF SetupNames

\* A run of init past its first step that no timeout has disturbed has done
\* every step so far, as long as the wallet has the roles.
InitDone ==
    Running /\ session.task = "init" /\ session.step > 1 =>
      /\ admin # NoAccount
      /\ ~session.timed_out /\ admin = Wallet =>
           \A i \in 1..(session.step - 1) : Done(InitTask[i].tx)

\* Who comes after the deployer stays.
LEMMA RolesNeverComeBack ==
    ASSUME TypeOK, DelegateIsAdmin, [Next]_vars, admin # NoAccount
    PROVE  admin' # NoAccount /\ (admin' = Wallet => admin = Wallet)
<1>1. admin' # NoAccount
  <2>1. Done("initProxy")'
    BY StepKeepsDone DEF Done, SetupNames
  <2>. QED BY <2>1 DEF Done
<1>2. admin # Wallet => UNCHANGED chainVars
  BY StepsOfTheChain, WalletMustHoldARole DEF Lands, DelegateIsAdmin
<1>. QED BY <1>1, <1>2 DEF chainVars

\* The steps of init by their names, and what the endpoint's ask for.
LEMMA InitSteps ==
    /\ InitTask[1] = Step("initProxy", Uncaught)
    /\ InitTask[2].tx = "initOAppNonce"
    /\ InitTask[3].tx = "initSendLibrary" /\ InitTask[4].tx = "initReceiveLibrary"
    /\ InitTask[5].tx = "setSendLibrary"  /\ InitTask[6].tx = "setReceiveLibrary"
    /\ DOMAIN InitTask = 1..6
<1>1. DOMAIN InitTask = 1..6
  BY DEF InitTask
<1>2. InitTask[1] = Step("initProxy", Uncaught)
  BY DEF InitTask
<1>3. InitTask[2].tx = "initOAppNonce"
  BY DEF InitTask, Step
<1>4. InitTask[3].tx = "initSendLibrary" /\ InitTask[4].tx = "initReceiveLibrary"
  BY DEF InitTask, Step
<1>5. InitTask[5].tx = "setSendLibrary" /\ InitTask[6].tx = "setReceiveLibrary"
  BY DEF InitTask, Step
<1>. QED BY <1>1, <1>2, <1>3, <1>4, <1>5

LEMMA InitIsInit == StepsOf("init") = InitTask
  BY DEF StepsOf

\* An endpoint step of init that is rejected had nothing left to do.
LEMMA RejectedIsDone ==
    ASSUME delegate = Wallet, NEW n \in 2..6, ~Accepted(InitTask[n].tx),
           \A i \in 1..(n - 1) : Done(InitTask[i].tx)
    PROVE  Done(InitTask[n].tx)
<1>. DEFINE tx == InitTask[n].tx
<1>1. tx \in {"initOAppNonce", "initSendLibrary", "initReceiveLibrary",
               "setSendLibrary", "setReceiveLibrary"}
  BY InitSteps
<1>2. ~Allowed(tx)
  <2>1. ProxyInstructions(tx) = {} /\ tx # "setPeer"
    BY <1>1 DEF ProxyInstructions
  <2>. QED BY <2>1 DEF Accepted, WellFormed
<1>3. CASE n \in 2..4
  <2>1. tx = "initOAppNonce" => Done("initOAppNonce")
    BY <1>2 DEF Allowed, DelegateSigns, Done
  <2>2. tx = "initSendLibrary" => Done("initSendLibrary")
    BY <1>2 DEF Allowed, DelegateSigns, Done
  <2>3. tx = "initReceiveLibrary" => Done("initReceiveLibrary")
    BY <1>2 DEF Allowed, DelegateSigns, Done
  <2>4. n = 2 \/ n = 3 \/ n = 4
    BY <1>3
  <2>. QED BY <2>1, <2>2, <2>3, <2>4, InitSteps
<1>4. CASE n = 5
  <2>1. Done("initSendLibrary")
    BY <1>4, InitSteps
  <2>. QED BY <1>2, <1>4, <2>1, InitSteps DEF Allowed, DelegateSigns, Done
<1>5. CASE n = 6
  <2>1. Done("initReceiveLibrary")
    BY <1>5, InitSteps
  <2>. QED BY <1>2, <1>5, <2>1, InitSteps DEF Allowed, DelegateSigns, Done
<1>. QED BY <1>3, <1>4, <1>5

\* A step of init that is confirmed or rejected is done.
LEMMA InitStepDone ==
    ASSUME TypeOK, DelegateIsAdmin, InitDone, [Next]_vars,
           Running, session.task = "init", ~session.timed_out, admin' = Wallet,
           Confirmed \/ (Rejected /\ session.step > 1)
    PROVE  \A i \in 1..session.step : Done(InitTask[i].tx)'
<1>1. PICK n \in 1..6 : session.step = n /\ Current = InitTask[n]
  BY SessionFields, InitIsInit, InitSteps DEF Current
<1>2. \A i \in 1..6 : InitTask[i].tx \in SetupNames
  BY InitTaskNames, InitSteps
<1>3. n > 1 => \A i \in 1..(n - 1) : Done(InitTask[i].tx)
  <2>1. n > 1 => admin # NoAccount
    BY <1>1 DEF InitDone
  <2>2. n > 1 => admin = Wallet
    BY <2>1, RolesNeverComeBack
  <2>. QED BY <1>1, <2>2 DEF InitDone
<1>4. ASSUME NEW i \in 1..(n - 1)
      PROVE  Done(InitTask[i].tx)'
  <2>1. n > 1 /\ i \in 1..6
    BY <1>1, <1>4
  <2>. QED BY <1>2, <1>3, <1>4, <2>1, StepKeepsDone
<1>5. Done(InitTask[n].tx)'
  <2>1. CASE Confirmed
    <3>1. Effect(InitTask[n].tx) /\ env' = env
      BY <1>1, <2>1 DEF Confirmed, Lands
    <3>. QED BY <1>1, <1>2, <3>1, EffectDoes
  <2>2. CASE Rejected /\ n > 1
    <3>1. ~Accepted(InitTask[n].tx) /\ UNCHANGED chainVars
      BY <1>1, <2>2 DEF Rejected
    <3>2. delegate = Wallet
      BY <3>1 DEF chainVars, DelegateIsAdmin
    <3>3. Done(InitTask[n].tx)
      BY <1>1, <1>3, <2>2, <3>1, <3>2, RejectedIsDone
    <3>. QED BY <1>2, <3>3, StepKeepsDone
  <2>. QED BY <1>1, <2>1, <2>2
<1>6. \A i \in 1..n : i = n \/ i \in 1..(n - 1)
  BY <1>1
<1>. QED BY <1>1, <1>4, <1>5, <1>6

LEMMA InitDoneStep ==
    ASSUME TypeOK, DelegateIsAdmin, InitDone, [Next]_vars
    PROVE  InitDone'
<1>. SUFFICES ASSUME Running', session'.task = "init", session'.step > 1
              PROVE  /\ admin' # NoAccount
                     /\ ~session'.timed_out /\ admin' = Wallet =>
                          \A i \in 1..(session'.step - 1) : Done(InitTask[i].tx)'
  BY DEF InitDone
<1>1. CASE session' = session
  <2>1. /\ Running /\ session.task = "init" /\ session.step > 1
        /\ admin # NoAccount
    BY <1>1 DEF Running, InitDone
  <2>2. session.step \in 1..6
    BY <2>1, SessionFields, InitIsInit, InitSteps
  <2>3. ASSUME ~session'.timed_out, admin' = Wallet,
               NEW i \in 1..(session'.step - 1)
        PROVE  Done(InitTask[i].tx)'
    <3>1. Done(InitTask[i].tx)
      BY <1>1, <2>1, <2>3, RolesNeverComeBack DEF InitDone
    <3>2. i \in DOMAIN InitTask
      BY <1>1, <2>2, <2>3, InitSteps
    <3>. QED BY <3>1, <3>2, InitTaskNames, StepKeepsDone
  <2>. QED BY <2>1, <2>3, RolesNeverComeBack
<1>2. CASE \E task \in Tasks, first \in 1..2 : Begin(task, first)
  <2>1. /\ session'.step = 2 /\ admin # NoAccount /\ UNCHANGED <<env, chainVars>>
    BY <1>2 DEF Begin, FirstStep
  <2>2. Done(InitTask[1].tx)
    BY <2>1, InitSteps DEF Done, Step
  <2>3. Done(InitTask[1].tx)'
    BY <2>2, InitSteps, InitTaskNames, StepKeepsDone
  <2>. QED BY <2>1, <2>3 DEF chainVars
<1>3. ASSUME Confirmed \/ Rejected \/ TimedOut
      PROVE  /\ admin' # NoAccount
             /\ ~session'.timed_out /\ admin' = Wallet =>
                  \A i \in 1..(session'.step - 1) : Done(InitTask[i].tx)'
  <2>1. PICK unseen \in BOOLEAN :
           /\ session' = NextStep(unseen) /\ Running
           /\ ~Confirmed => Current.catch # Uncaught
           /\ ~unseen => Confirmed \/ Rejected
    BY <1>3 DEF Confirmed, Rejected, TimedOut, AfterError, Running
  <2>2. session' = [task |-> session.task, step |-> session.step + 1,
                    timed_out |-> session.timed_out \/ unseen]
    BY <2>1, NextStepIs DEF Running, NextStep
  <2>3. session.task = "init" /\ session.step \in 1..6
    BY <2>1, <2>2, SessionFields, InitIsInit, InitSteps
  <2>4. session.step = 1 => Confirmed /\ Current.tx = "initProxy"
    BY <2>1, <2>3, InitIsInit, InitSteps DEF Current, Step
  <2>5. admin' # NoAccount
    <3>1. CASE session.step = 1
      <4>1. InitProxy
        BY <2>4, <3>1 DEF Confirmed, Lands, Effect
      <4>. QED BY <4>1, TasksAssumption DEF InitProxy
    <3>2. CASE session.step > 1
      BY <2>1, <2>3, <3>2, RolesNeverComeBack DEF InitDone
    <3>. QED BY <2>3, <3>1, <3>2
  <2>6. ASSUME ~session'.timed_out, admin' = Wallet
        PROVE  \A i \in 1..session.step : Done(InitTask[i].tx)'
    <3>1. ~session.timed_out /\ (Confirmed \/ Rejected)
      <4>1. session'.timed_out = (session.timed_out \/ unseen)
        BY <2>2
      <4>2. ~(session.timed_out \/ unseen)
        BY <2>6, <4>1
      <4>. QED BY <2>1, <4>2
    <3>2. Confirmed \/ (Rejected /\ session.step > 1)
      BY <2>3, <2>4, <3>1
    <3>. QED BY <2>1, <2>3, <2>6, <3>1, <3>2, InitStepDone
  <2>7. session'.step - 1 = session.step
    BY <2>2, <2>3
  <2>. QED BY <2>5, <2>6, <2>7
<1>4. CASE Interrupted
  BY <1>4 DEF Interrupted, Running
<1>5. CASE (\E tx \in in_flight : LandsLate(tx) \/ Expires(tx)) \/ UNCHANGED vars
  BY <1>1, <1>5 DEF LandsLate, Expires, vars
<1>. QED BY <1>2, <1>3, <1>4, <1>5 DEF Next

\* A task of one step, which no catch guards.
LEMMA OneStepDone ==
    ASSUME TypeOK, NEW task \in Tasks, NEW tx \in SetupNames \cup {"pause", "unpause"},
           StepsOf(task) = <<Step(tx, Uncaught)>>, ReachesItsEnd(task)
    PROVE  TaskDone(task)'
<1>1. session.step = 1 /\ Current = Step(tx, Uncaught)
  BY SessionFields DEF ReachesItsEnd, LastStep, Current
<1>2. Effect(tx) /\ env' = env
  BY <1>1 DEF ReachesItsEnd, Confirmed, Lands, Step
<1>3. Done(tx)'
  BY <1>2, EffectDoes
<1>. QED BY <1>3 DEF TaskDone, Step

LEMMA TasksEndDone ==
    ASSUME TypeOK, DelegateIsAdmin, InitDone, [Next]_vars, NEW task \in Tasks,
           ReachesItsEnd(task), ~session.timed_out, admin' = Wallet
    PROVE  TaskDone(task)'
<1>1. CASE task = "init"
  <2>1. Running /\ session.task = "init" /\ session.step = 6
    BY <1>1, StepsAreNumbered DEF ReachesItsEnd, LastStep
  <2>2. Confirmed \/ Rejected
    BY DEF ReachesItsEnd
  <2>3. \A i \in 1..6 : Done(InitTask[i].tx)'
    BY <2>1, <2>2, InitStepDone
  <2>. QED BY <1>1, <2>3, InitIsInit, InitSteps DEF TaskDone
<1>2. CASE task = "setconfig"
  <2>1. /\ StepsOf(task) = SetConfigTask /\ DOMAIN SetConfigTask = 1..2
        /\ Len(SetConfigTask) = 2
        /\ SetConfigTask[1].tx = "initConfig"
        /\ SetConfigTask[2] = Step("setConfig", Uncaught)
    <3>1. StepsOf(task) = SetConfigTask
      BY <1>2 DEF StepsOf
    <3>2. DOMAIN SetConfigTask = 1..2 /\ Len(SetConfigTask) = 2
      BY DEF SetConfigTask
    <3>3. SetConfigTask[1].tx = "initConfig"
      BY DEF SetConfigTask, Step
    <3>4. SetConfigTask[2] = Step("setConfig", Uncaught)
      BY DEF SetConfigTask
    <3>. QED BY <3>1, <3>2, <3>3, <3>4
  <2>2. Current = Step("setConfig", Uncaught)
    BY <2>1 DEF ReachesItsEnd, LastStep, Current
  <2>3. Lands("setConfig") /\ env' = env
    BY <2>2 DEF ReachesItsEnd, Confirmed, Step
  <2>4. Done("initConfig") /\ Done("setConfig")'
    BY <2>3, EffectDoes DEF Lands, Accepted, Allowed, Done, SetupNames
  <2>5. Done("initConfig")'
    BY <2>4, StepKeepsDone DEF SetupNames
  <2>. QED BY <2>1, <2>4, <2>5 DEF TaskDone, Step
<1>3. CASE task = "setpeer"
  BY <1>3, OneStepDone DEF StepsOf, SetPeerTask, SetupNames
<1>4. CASE task = "setfee"
  BY <1>4, OneStepDone DEF StepsOf, SetFeeTask, SetupNames
<1>5. CASE task = "setaccountlist"
  BY <1>5, OneStepDone DEF StepsOf, SetAccountListTask, SetupNames
<1>6. CASE task = "pause"
  BY <1>6, OneStepDone DEF StepsOf, PauseTask
<1>7. CASE task = "unpause"
  BY <1>7, OneStepDone DEF StepsOf, UnpauseTask
<1>8. CASE task = "admin"
  <2>1. Current = Step("handover", Uncaught)
    BY <1>8, SessionFields DEF ReachesItsEnd, StepsOf, AdminTask, Current
  <2>2. Handover
    BY <2>1 DEF ReachesItsEnd, Confirmed, Lands, Effect, Step
  <2>. QED BY <2>2, TasksAssumption DEF Handover, TypeOK, multisig, getProxyAccounts
<1>. QED BY <1>1, <1>2, <1>3, <1>4, <1>5, <1>6, <1>7, <1>8 DEF Tasks

(* A task that reaches its end, with no timeout on the way and the roles still
   the deployer's, has its whole work in place: what its catches swallowed were
   errors of steps that had nothing left to do. *)
THEOREM FinishedTasksAreDone == Spec => CaughtErrorsHideNothing
<1>1. Init => InitDone
  BY DEF Init, InitDone, Running
<1>2. TypeOK /\ DelegateIsAdmin /\ InitDone /\ [Next]_vars => InitDone'
  BY InitDoneStep
<1>3. TypeOK /\ DelegateIsAdmin /\ InitDone /\ [Next]_vars =>
        [\A task \in Tasks :
            ReachesItsEnd(task) /\ ~session.timed_out /\ admin' = Wallet
            => TaskDone(task)']_vars
  BY TasksEndDone
<1>. QED
  BY <1>1, <1>2, <1>3, DeploymentTypeCorrect, DelegateIsAlwaysAdmin, PTL
     DEF Spec, CaughtErrorsHideNothing

=============================================================================
