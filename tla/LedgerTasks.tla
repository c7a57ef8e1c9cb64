---------------------------- MODULE LedgerTasks ----------------------------
(***************************************************************************)
(* The task that sets the libraries and DVNs of LedgerOApp's path to       *)
(* Solana (orderly:getconfig of tasks/proxy/setLedgerOApp.ts).  It reads   *)
(* the default libraries and their configurations once and goes through    *)
(* its steps; a step sends a transaction when what was read is not what    *)
(* the tables say, and waits for it.  A transaction that reverts ends the  *)
(* task.  One whose wait is cut short stays in the mempool; the key's      *)
(* later transactions are mined after it, but the next run may have read   *)
(* the chain before.                                                       *)
(*                                                                         *)
(* The contract is the one at the tables' address, the key its delegate.   *)
(* The endpoint and its libraries are external: an OApp that has set no    *)
(* library of its own uses the default one, one that has set no            *)
(* configuration for a library uses that library's default, and LayerZero  *)
(* may change both defaults at any time.                                   *)
(*                                                                         *)
(* The file's other task for a deployed contract, orderly:ledgeroapp:      *)
(* setpeer, throws at its first call, before it reads or sends anything    *)
(* (solanaEid() is no function of the LedgerOApp artifact), and changes    *)
(* nothing.                                                                *)
(***************************************************************************)
EXTENDS Sequences, Environments

CONSTANTS
    Envs,             \* environments of one contract and one path to Solana
    Networks,         \* hardhat networks the operator starts the task on
    Libraries,        \* message libraries, of both directions
    DVNSets,          \* the sets of DVNs a default configuration may have
    NoValue, Idle,
    MaxPending,       \* bound on transactions in the mempool
    MaxUpgrades       \* bound on changes of LayerZero's defaults

Directions == {"send", "receive"}

ASSUME LedgerTasksAssumption ==
    /\ Envs \subseteq ENV
    /\ \A e, f \in Envs :
          /\ getLedgerOAppAddress(e) = getLedgerOAppAddress(f)
          /\ getSolanaNetwork(e) = getSolanaNetwork(f)
    /\ Networks \subseteq HardhatNetworks
    /\ MaxPending \in Nat /\ MaxUpgrades \in Nat

VARIABLES
    library,     \* endpoint: the OApp's own library per direction, or NoValue
    config,      \* endpoint: its own DVNs per direction and library, or NoValue
    default_library, default_config,  \* LayerZero's
    upgrades,    \* how often they changed
    session,     \* the running task, or Idle
    mempool      \* transactions sent and not yet mined, in nonce order

contractVars == <<library, config>>
defaultVars  == <<default_library, default_config, upgrades>>
vars == <<contractVars, defaultVars, session, mempool>>

\* LZ_CONFIG of the ledger chain, by direction.
TableDVNs(env, direction) ==
    LET table == getLocalLzConfig(getOrderlyNetwork(env))
    IN  IF direction = "send" THEN table.sendDVNs ELSE table.receiveDVNs

\* What the endpoint's getConfig answers for the OApp and a library.
Effective(direction, lib) ==
    IF config[direction][lib] # NoValue THEN config[direction][lib]
                                        ELSE default_config[lib]

-----------------------------------------------------------------------------
\* The task's steps and the transaction each sends, if any.

GetConfigSteps == <<"sendLibrary", "receiveLibrary",
                    "sendConfig", "receiveConfig">>

DirectionOf(step) == IF step \in {"sendLibrary", "sendConfig"}
                     THEN "send" ELSE "receive"

Library(direction, lib) ==
    [kind |-> "setLibrary", direction |-> direction, library |-> lib]
\* dvns is the set of the DVN sets to store: none or one.
Config(direction, lib, dvns) ==
    [kind |-> "setConfig", direction |-> direction, library |-> lib,
     dvns |-> dvns]

AllDVNs == DVNSets \cup {TableDVNs(e, d) : e \in Envs, d \in Directions}
Txs == {Library(d, l) : d \in Directions, l \in Libraries}
       \cup {Config(d, l, c) : d \in Directions, l \in Libraries,
                               c \in SUBSET AllDVNs}

\* No library and no set of DVNs is the answer that none is set.
ASSUME NoValueAssumption == NoValue \notin Libraries /\ NoValue \notin AllDVNs

\* What getconfig read before its steps: the default library and, for it, the
\* OApp's DVNs in each direction.
ReadConfig == [library |-> default_library,
               dvns    |-> [d \in Directions |-> Effective(d, default_library)]]

(* Bug: a library set whatever isDefault says. *)
MutSetsLibrary(s, d) == {Library(d, s.read.library)}

\* The OApp's libraries are read when their step comes; the DVNs are compared
\* as they were read before.  forceSet alone sends an empty list.
SetsLibrary(s, d) ==
    IF library[d] = NoValue THEN {Library(d, s.read.library)} ELSE {}

SetsConfig(s, d) ==
    LET differ == ~equalDVNs(s.read.dvns[d], TableDVNs(s.env, d))
    IN  IF differ \/ s.force
        THEN {Config(d, s.read.library,
                     IF differ THEN {TableDVNs(s.env, d)} ELSE {})}
        ELSE {}

Sends(s, step) ==
    IF step \in {"sendLibrary", "receiveLibrary"}
    THEN SetsLibrary(s, DirectionOf(step)) ELSE SetsConfig(s, DirectionOf(step))

\* The endpoint refuses the library the OApp already has.
Reverts(tx) == tx.kind = "setLibrary" /\ library[tx.direction] = tx.library

Mined(tx) ==
    /\ ~Reverts(tx)
    /\ library' = IF tx.kind = "setLibrary"
                  THEN [library EXCEPT ![tx.direction] = tx.library] ELSE library
    /\ config'  = IF tx.kind = "setConfig" /\ tx.dvns # {}
                  THEN [config EXCEPT ![tx.direction][tx.library] =
                           CHOOSE c \in tx.dvns : TRUE]
                  ELSE config

-----------------------------------------------------------------------------

Steps == {"sendLibrary", "receiveLibrary", "sendConfig", "receiveConfig"}
Sessions ==
    [env : Envs, force : BOOLEAN, todo : Seq(Steps) \ {<<>>},
     read : [library : Libraries, dvns : [Directions -> AllDVNs]],
     waiting : BOOLEAN, upgrades : 0..MaxUpgrades]

TypeOK ==
    /\ library \in [Directions -> Libraries \cup {NoValue}]
    /\ config \in [Directions -> [Libraries -> AllDVNs \cup {NoValue}]]
    /\ default_library \in Libraries
    /\ default_config \in [Libraries -> DVNSets]
    /\ upgrades \in 0..MaxUpgrades
    /\ session = Idle \/ session \in Sessions
    /\ mempool \in Seq(Txs)
    /\ session # Idle /\ session.waiting => mempool # <<>>

Init ==
    /\ library = [d \in Directions |-> NoValue]
    /\ config = [d \in Directions |-> [l \in Libraries |-> NoValue]]
    /\ default_library \in Libraries
    /\ default_config \in [Libraries -> DVNSets]
    /\ upgrades = 0
    /\ session = Idle
    /\ mempool = <<>>

\* Without setConfig the task only prints.  upgrades is for the properties: how
\* often LayerZero's defaults had changed.
GetConfig(env, network, setConfig, force) ==
    /\ checkOrderlyNetwork(network)
    /\ setConfig
    /\ session = Idle
    /\ session' = [env |-> env, force |-> force, todo |-> GetConfigSteps,
                   read |-> ReadConfig, waiting |-> FALSE,
                   upgrades |-> upgrades]
    /\ UNCHANGED <<contractVars, defaultVars, mempool>>

Rest == IF Tail(session.todo) = <<>> THEN Idle
        ELSE [session EXCEPT !.todo = Tail(@), !.waiting = FALSE]

\* "already set"
Skip ==
    /\ session # Idle /\ ~session.waiting
    /\ Sends(session, Head(session.todo)) = {}
    /\ session' = Rest
    /\ UNCHANGED <<contractVars, defaultVars, mempool>>

Send ==
    /\ session # Idle /\ ~session.waiting
    /\ Len(mempool) < MaxPending
    /\ \E tx \in Sends(session, Head(session.todo)) :
          mempool' = Append(mempool, tx)
    /\ session' = [session EXCEPT !.waiting = TRUE]
    /\ UNCHANGED <<contractVars, defaultVars>>

\* The wait is over when the session's own transaction, the last, is mined.
Awaited == session # Idle /\ session.waiting /\ Len(mempool) = 1

MineOne ==
    /\ mempool # <<>>
    /\ Mined(Head(mempool))
    /\ mempool' = Tail(mempool)
    /\ session' = IF Awaited THEN Rest ELSE session
    /\ UNCHANGED defaultVars

RevertOne ==
    /\ mempool # <<>>
    /\ Reverts(Head(mempool))
    /\ mempool' = Tail(mempool)
    /\ session' = IF Awaited THEN Idle ELSE session
    /\ UNCHANGED <<contractVars, defaultVars>>

\* The operator stops waiting, or the process dies; the transaction is out.
Interrupted ==
    /\ session # Idle
    /\ session' = Idle
    /\ UNCHANGED <<contractVars, defaultVars, mempool>>

\* LayerZero: another default library, or other DVNs in its configuration.
ChangeDefaults ==
    /\ upgrades < MaxUpgrades
    /\ upgrades' = upgrades + 1
    /\ \/ /\ default_library' \in Libraries
          /\ UNCHANGED default_config
       \/ /\ \E dvns \in DVNSets :
                default_config' =
                    [default_config EXCEPT ![default_library] = dvns]
          /\ UNCHANGED default_library
    /\ UNCHANGED <<contractVars, session, mempool>>

Next ==
    \/ \E env \in Envs, network \in Networks, setConfig, force \in BOOLEAN :
          GetConfig(env, network, setConfig, force)
    \/ Skip \/ Send \/ MineOne \/ RevertOne \/ Interrupted
    \/ ChangeDefaults

Spec == Init /\ [][Next]_vars

-----------------------------------------------------------------------------
\* The task gets to its end: its last step is skipped or confirmed.
Finishes ==
    /\ session # Idle
    /\ Len(session.todo) = 1
    /\ Skip \/ (Awaited /\ MineOne)

\* For the library a run has read, the DVNs of a direction are the tables', own
\* being what the OApp has set itself: they are stored as its own, where
\* LayerZero cannot change them; or they were the default's when the run read
\* them, and are still unless LayerZero has changed a default since.
Settled(s, d, own) ==
    LET table == TableDVNs(s.env, d)
    IN  \/ own = table
        \/ /\ own = NoValue
           /\ s.read.dvns[d] = table
           /\ s.upgrades = upgrades => default_config[s.read.library] = table

(* When orderly:getconfig --set-config gets to its end, the OApp has a library
   of its own in both directions, the default one if LayerZero never changed
   that, and the DVNs of the library the run read are settled: whatever
   transactions of runs that were cut short landed since it read the chain, and
   whatever LayerZero changed, only a default it found right and left alone can
   have gone wrong. *)
GetConfigFinishesConfigured ==
    [][Finishes =>
         \A d \in Directions :
            /\ library'[d] # NoValue
            /\ upgrades = 0 => library'[d] = session.read.library
            /\ Settled(session, d, config'[d][session.read.library])]_vars

\* A run would find nothing to do.
Configured ==
    \A d \in Directions, e \in Envs :
       library[d] # NoValue /\ Effective(d, default_library) = TableDVNs(e, d)

\* The operator reruns the task while there is something to do, a task that
\* runs goes on and from some time on nobody stops it, and what is in the
\* mempool is mined.
Fairness ==
    /\ WF_vars(/\ ~Configured
               /\ \E env \in Envs, network \in Networks, force \in BOOLEAN :
                     GetConfig(env, network, TRUE, force))
    /\ WF_vars(Skip \/ Send)
    /\ WF_vars(MineOne \/ RevertOne)
    /\ <>[][~Interrupted]_vars

FairSpec == Spec /\ Fairness

(* An operator who reruns getconfig whenever it would find something to do gets
   the configuration in place for good once LayerZero leaves its defaults alone:
   neither a transaction sent twice, whose revert ends the run, nor a stale
   comparison keeps a later run from doing the rest. *)
RerunsConverge == <>[]Configured

-----------------------------------------------------------------------------
\* The inductive form of the first.

Own(tx) == mempool # <<>> /\ mempool[Len(mempool)] = tx

\* As long as LayerZero has changed nothing, a library can only be its default.
LibraryInv ==
    upgrades = 0 =>
      /\ \A d \in Directions : library[d] \in {NoValue, default_library}
      /\ \A i \in DOMAIN mempool :
            mempool[i].kind = "setLibrary" => mempool[i].library = default_library
      /\ session # Idle => session.read.library = default_library

\* The environments of one path have the same tables; nothing else is stored.
Tables(d) == {TableDVNs(e, d) : e \in Envs}

OnlyTablesStored ==
    /\ \A d \in Directions, l \in Libraries :
          config[d][l] \in {NoValue} \cup Tables(d)
    /\ \A i \in DOMAIN mempool :
          mempool[i].kind = "setConfig" =>
            mempool[i].dvns \subseteq Tables(mempool[i].direction)

LastTwo == {<<"sendConfig", "receiveConfig">>, <<"receiveConfig">>}
GetConfigTodos ==
    {GetConfigSteps, <<"receiveLibrary", "sendConfig", "receiveConfig">>}
    \cup LastTwo

\* What a waiting step has last in the mempool.
AsksFor(step) ==
    IF step \in {"sendLibrary", "receiveLibrary"}
    THEN {Library(DirectionOf(step), session.read.library)}
    ELSE SetsConfig(session, DirectionOf(step))

\* What a run found right, and what its steps did, stays so under whatever lands.
GetConfigInv ==
    session # Idle =>
      /\ session.todo \in GetConfigTodos
      /\ session.upgrades \in 0..upgrades
      /\ session.waiting => \E tx \in AsksFor(Head(session.todo)) : Own(tx)
      /\ session.todo # GetConfigSteps => library["send"] # NoValue
      /\ session.todo \in LastTwo => library["receive"] # NoValue
      /\ \A d \in Directions :
            \/ session.read.dvns[d] = TableDVNs(session.env, d)
            \/ d = "send" /\ session.todo = <<"receiveConfig">>
            => Settled(session, d, config[d][session.read.library])

LedgerTasksInv == TypeOK /\ LibraryInv /\ OnlyTablesStored /\ GetConfigInv

=============================================================================
