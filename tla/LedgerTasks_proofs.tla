-------------------------- MODULE LedgerTasks_proofs --------------------------
(***************************************************************************)
(* Proofs about LedgerTasks, for any environments of one contract and one  *)
(* path, any libraries and sets of DVNs LayerZero may have, and any number *)
(* of pending transactions and changes of its defaults.                    *)
(***************************************************************************)
EXTENDS LedgerTasks, SequenceTheorems, TLAPS

-----------------------------------------------------------------------------
(* Tables and steps.                                                       *)

\* What the task begins with, and what is left after that.
LEMMA StepsOfTheTask ==
    /\ Head(GetConfigSteps) = "sendLibrary"
    /\ Tail(GetConfigSteps)
         = <<"receiveLibrary", "sendConfig", "receiveConfig">>
    /\ Head(<<"receiveLibrary", "sendConfig", "receiveConfig">>)
         = "receiveLibrary"
    /\ Tail(<<"receiveLibrary", "sendConfig", "receiveConfig">>)
         = <<"sendConfig", "receiveConfig">>
    /\ Head(<<"sendConfig", "receiveConfig">>) = "sendConfig"
    /\ Tail(<<"sendConfig", "receiveConfig">>) = <<"receiveConfig">>
    /\ Head(<<"receiveConfig">>) = "receiveConfig"
    /\ Tail(<<"receiveConfig">>) = <<>>
<1>1. Head(GetConfigSteps) = "sendLibrary"
  BY SMT DEF GetConfigSteps
<1>2. Tail(GetConfigSteps) = <<"receiveLibrary", "sendConfig", "receiveConfig">>
  BY SMT DEF GetConfigSteps
<1>3. Head(<<"receiveLibrary", "sendConfig", "receiveConfig">>) = "receiveLibrary"
  BY SMT
<1>4. Tail(<<"receiveLibrary", "sendConfig", "receiveConfig">>)
        = <<"sendConfig", "receiveConfig">>
  BY SMT
<1>5. Head(<<"sendConfig", "receiveConfig">>) = "sendConfig"
  BY SMT
<1>6. Tail(<<"sendConfig", "receiveConfig">>) = <<"receiveConfig">>
  BY SMT
<1>7. Head(<<"receiveConfig">>) = "receiveConfig" /\ Tail(<<"receiveConfig">>) = <<>>
  BY SMT
<1>. QED BY <1>1, <1>2, <1>3, <1>4, <1>5, <1>6, <1>7

\* The steps by how many are left.
LEMMA TodosDiffer ==
    /\ Len(GetConfigSteps) = 4
    /\ Len(<<"receiveLibrary", "sendConfig", "receiveConfig">>) = 3
    /\ Len(<<"sendConfig", "receiveConfig">>) = 2
    /\ Len(<<"receiveConfig">>) = 1
  BY SMT DEF GetConfigSteps

\* The environments of one path have the same DVNs in their tables.
LEMMA SameTables ==
    ASSUME NEW e \in Envs, NEW d
    PROVE  Tables(d) = {TableDVNs(e, d)}
<1>1. \A f \in Envs : getOrderlyNetwork(f) = getOrderlyNetwork(e)
  BY LedgerTasksAssumption DEF getSolanaNetwork, getOrderlyNetwork
<1>2. \A f \in Envs : TableDVNs(f, d) = TableDVNs(e, d)
  BY <1>1 DEF TableDVNs
<1>. QED BY <1>2 DEF Tables

LEMMA TransactionKinds ==
    ASSUME NEW tx \in Txs
    PROVE  \/ /\ tx.kind = "setLibrary"
              /\ tx.direction \in Directions /\ tx.library \in Libraries
           \/ /\ tx.kind = "setConfig" /\ tx.direction \in Directions
              /\ tx.library \in Libraries /\ tx.dvns \in SUBSET AllDVNs
  BY DEF Txs, Library, Config

LEMMA EffectiveTyped ==
    ASSUME TypeOK, NEW d \in Directions, NEW lib \in Libraries
    PROVE  Effective(d, lib) \in AllDVNs
<1>1. /\ config[d][lib] \in AllDVNs \cup {NoValue}
      /\ default_config[lib] \in AllDVNs
  BY DEF TypeOK, AllDVNs
<1>. QED BY <1>1 DEF Effective

\* What a step may send.
LEMMA SendsIs ==
    ASSUME NEW s, NEW step
    PROVE  LET d == DirectionOf(step)
               table == TableDVNs(s.env, d)
               differ == s.read.dvns[d] # table
           IN /\ step \in {"sendLibrary", "receiveLibrary"} =>
                   /\ Sends(s, step) \subseteq {Library(d, s.read.library)}
                   /\ Sends(s, step) = {} => library[d] # NoValue
              /\ step \notin {"sendLibrary", "receiveLibrary"} =>
                   /\ Sends(s, step) = SetsConfig(s, d)
                   /\ Sends(s, step) \subseteq
                        {Config(d, s.read.library, IF differ THEN {table} ELSE {})}
                   /\ Sends(s, step) = {} => s.read.dvns[d] = table
  BY DEF Sends, SetsLibrary, SetsConfig, equalDVNs

LEMMA SendsTyped ==
    ASSUME NEW s \in Sessions, NEW step
    PROVE  Sends(s, step) \subseteq Txs
<1>. DEFINE d == DirectionOf(step)
            table == TableDVNs(s.env, d)
<1>1. /\ d \in Directions /\ s.env \in Envs /\ s.read.library \in Libraries
  BY DEF DirectionOf, Directions, Sessions
<1>2. table \in AllDVNs
  BY <1>1 DEF AllDVNs
<1>3. /\ Library(d, s.read.library) \in Txs
      /\ Config(d, s.read.library, {table}) \in Txs
      /\ Config(d, s.read.library, {}) \in Txs
  <2>1. {table} \in SUBSET AllDVNs /\ {} \in SUBSET AllDVNs
    BY <1>2
  <2>. HIDE DEF d, table
  <2>. QED BY <1>1, <2>1 DEF Txs
<1>. QED BY <1>3, SendsIs

-----------------------------------------------------------------------------
(* The mempool.                                                            *)

LEMMA Queue ==
    ASSUME mempool \in Seq(Txs), mempool # <<>>
    PROVE  /\ Len(mempool) \in Nat \ {0} /\ Head(mempool) \in Txs
           /\ Tail(mempool) \in Seq(Txs)
           /\ Len(mempool) = 1 => Own(Head(mempool))
           /\ Len(mempool) # 1 =>
                Tail(mempool) # <<>>
                /\ \A tx : Own(tx) => Tail(mempool)[Len(Tail(mempool))] = tx
           /\ \A i \in DOMAIN Tail(mempool) :
                \E j \in DOMAIN mempool : Tail(mempool)[i] = mempool[j]
           /\ \E j \in DOMAIN mempool : Head(mempool) = mempool[j]
<1>1. /\ Head(mempool) \in Txs /\ Tail(mempool) \in Seq(Txs)
      /\ Len(Tail(mempool)) = Len(mempool) - 1
      /\ \A i \in 1..Len(Tail(mempool)) : Tail(mempool)[i] = mempool[i + 1]
  BY HeadTailProperties
<1>2. /\ Len(mempool) \in Nat \ {0} /\ DOMAIN mempool = 1..Len(mempool)
      /\ DOMAIN Tail(mempool) = 1..Len(Tail(mempool))
      /\ Head(mempool) = mempool[1]
  BY <1>1, EmptySeq, LenProperties, SMT
<1>3. Len(mempool) # 1 =>
        /\ Len(Tail(mempool)) \in 1..Len(Tail(mempool))
        /\ Tail(mempool)[Len(Tail(mempool))] = mempool[Len(mempool)]
  <2>1. Len(mempool) # 1 => Len(Tail(mempool)) \in 1..Len(Tail(mempool))
    BY <1>1, <1>2, SMT
  <2>2. (Len(mempool) - 1) + 1 = Len(mempool)
    BY <1>2, SMT
  <2>. QED BY <1>1, <2>1, <2>2
<1>4. Len(mempool) # 1 => Tail(mempool) # <<>>
  BY <1>1, <1>3, SMT
<1>5. \A i \in 1..Len(Tail(mempool)) : i + 1 \in 1..Len(mempool)
  BY <1>1, <1>2, SMT
<1>6. 1 \in 1..Len(mempool)
  BY <1>2, SMT
<1>. QED BY <1>1, <1>2, <1>3, <1>4, <1>5, <1>6 DEF Own

LEMMA Appended ==
    ASSUME mempool \in Seq(Txs), NEW tx \in Txs, mempool' = Append(mempool, tx)
    PROVE  /\ mempool' \in Seq(Txs) /\ mempool' # <<>>
           /\ mempool'[Len(mempool')] = tx
           /\ \A i \in DOMAIN mempool' :
                mempool'[i] = tx \/ \E j \in DOMAIN mempool : mempool'[i] = mempool[j]
           /\ mempool = <<>> => mempool' = <<tx>>
<1>1. /\ mempool' \in Seq(Txs) /\ mempool' # <<>> /\ Len(mempool') = Len(mempool) + 1
      /\ \A i \in 1..Len(mempool) : mempool'[i] = mempool[i]
      /\ mempool'[Len(mempool) + 1] = tx
  BY AppendProperties
<1>2. /\ Len(mempool) \in Nat /\ DOMAIN mempool = 1..Len(mempool)
      /\ DOMAIN mempool' = 1..Len(mempool')
  BY <1>1, LenProperties
<1>3. \A i \in DOMAIN mempool' : i = Len(mempool) + 1 \/ i \in 1..Len(mempool)
  BY <1>1, <1>2, SMT
<1>4. mempool = <<>> => mempool' = <<tx>>
  <2>1. Append(<<>>, tx) = <<tx>>
    BY SMT
  <2>. QED BY <2>1
<1>. QED BY <1>1, <1>2, <1>3, <1>4

-----------------------------------------------------------------------------
(* What is mined, and types.                                               *)

LEMMA MinedIs ==
    ASSUME NEW tx \in Txs, Mined(tx)
    PROVE  /\ IF tx.kind = "setLibrary"
              THEN /\ tx.direction \in Directions /\ tx.library \in Libraries
                   /\ library' = [library EXCEPT ![tx.direction] = tx.library]
              ELSE library' = library
           /\ IF tx.kind = "setConfig" /\ tx.dvns # {}
              THEN /\ tx.direction \in Directions /\ tx.library \in Libraries
                   /\ \E c \in tx.dvns :
                        /\ c \in AllDVNs
                        /\ config' = [config EXCEPT ![tx.direction][tx.library] = c]
              ELSE config' = config
<1>1. library' = IF tx.kind = "setLibrary"
                 THEN [library EXCEPT ![tx.direction] = tx.library] ELSE library
  BY DEF Mined
<1>2. IF tx.kind = "setConfig" /\ tx.dvns # {}
      THEN \E c \in tx.dvns :
             config' = [config EXCEPT ![tx.direction][tx.library] = c]
      ELSE config' = config
  BY DEF Mined
<1>. QED BY <1>1, <1>2, TransactionKinds

LEMMA TypeInit == Init => TypeOK
<1>. SUFFICES ASSUME Init PROVE TypeOK
  OBVIOUS
<1>1. upgrades \in 0..MaxUpgrades
  BY LedgerTasksAssumption, SMT DEF Init
<1>2. <<>> \in Seq(Txs)
  BY EmptySeq
<1>. QED BY <1>1, <1>2 DEF Init, TypeOK

LEMMA StartTyped ==
    ASSUME TypeOK, NEW env \in Envs, NEW network, NEW setConfig,
           NEW force \in BOOLEAN, GetConfig(env, network, setConfig, force)
    PROVE  TypeOK'
<1>1. /\ session' = [env |-> env, force |-> force, todo |-> GetConfigSteps,
                     read |-> ReadConfig, waiting |-> FALSE,
                     upgrades |-> upgrades]
      /\ UNCHANGED <<library, config, default_library, default_config, upgrades,
                     mempool>>
  BY DEF GetConfig, contractVars, defaultVars
<1>2. GetConfigSteps \in Seq(Steps) \ {<<>>}
  BY DEF GetConfigSteps, Steps
<1>3. ReadConfig \in [library : Libraries, dvns : [Directions -> AllDVNs]]
  <2>1. default_library \in Libraries
    BY DEF TypeOK
  <2>2. \A d \in Directions : Effective(d, default_library) \in AllDVNs
    BY <2>1, EffectiveTyped
  <2>. QED BY <2>1, <2>2 DEF ReadConfig
<1>4. upgrades \in 0..MaxUpgrades
  BY DEF TypeOK
<1>5. session' \in Sessions /\ ~session'.waiting
  BY <1>1, <1>2, <1>3, <1>4 DEF Sessions
<1>. QED BY <1>1, <1>5 DEF TypeOK

LEMMA RestTyped ==
    ASSUME session \in Sessions, session' = Rest
    PROVE  session' = Idle \/ (session' \in Sessions /\ ~session'.waiting)
<1>. SUFFICES ASSUME Tail(session.todo) # <<>>
              PROVE  session' \in Sessions /\ ~session'.waiting
  BY DEF Rest
<1>1. session' = [session EXCEPT !.todo = Tail(session.todo), !.waiting = FALSE]
  BY DEF Rest
<1>2. Tail(session.todo) \in Seq(Steps) \ {<<>>}
  <2>1. session.todo \in Seq(Steps) /\ session.todo # <<>>
    BY DEF Sessions
  <2>. QED BY <2>1, HeadTailProperties
<1>. QED BY <1>1, <1>2 DEF Sessions

LEMMA MinedTyped ==
    ASSUME TypeOK, NEW tx \in Txs, Mined(tx)
    PROVE  /\ (library \in [Directions -> Libraries \cup {NoValue}])'
           /\ (config \in [Directions -> [Libraries -> AllDVNs \cup {NoValue}]])'
<1>1. library' \in [Directions -> Libraries \cup {NoValue}]
  BY MinedIs DEF TypeOK
<1>2. config' \in [Directions -> [Libraries -> AllDVNs \cup {NoValue}]]
  <2>1. config \in [Directions -> [Libraries -> AllDVNs \cup {NoValue}]]
    BY DEF TypeOK
  <2>2. ASSUME NEW d \in Directions, NEW lib \in Libraries, NEW c \in AllDVNs
        PROVE  [config EXCEPT ![d][lib] = c]
                 \in [Directions -> [Libraries -> AllDVNs \cup {NoValue}]]
    <3>1. [config[d] EXCEPT ![lib] = c] \in [Libraries -> AllDVNs \cup {NoValue}]
      BY <2>1
    <3>. QED BY <2>1, <3>1
  <2>3. \/ config' = config
        \/ \E d \in Directions, lib \in Libraries, c \in AllDVNs :
             config' = [config EXCEPT ![d][lib] = c]
    BY MinedIs
  <2>. QED BY <2>1, <2>2, <2>3
<1>. QED BY <1>1, <1>2

LEMMA TypeStep == TypeOK /\ [Next]_vars => TypeOK'
<1>. SUFFICES ASSUME TypeOK, [Next]_vars PROVE TypeOK'
  OBVIOUS
<1>1. ASSUME NEW env \in Envs, NEW network \in Networks,
             NEW setConfig \in BOOLEAN, NEW force \in BOOLEAN,
             GetConfig(env, network, setConfig, force)
      PROVE  TypeOK'
  BY <1>1, StartTyped
<1>2. CASE Skip
  <2>1. /\ session \in Sessions /\ session' = Rest
        /\ UNCHANGED <<library, config, default_library, default_config,
                       upgrades, mempool>>
    BY <1>2 DEF Skip, TypeOK, contractVars, defaultVars
  <2>. QED BY <2>1, RestTyped DEF TypeOK
<1>3. CASE Send
  <2>1. PICK tx \in Sends(session, Head(session.todo)) : mempool' = Append(mempool, tx)
    BY <1>3 DEF Send
  <2>2. /\ session \in Sessions /\ session' = [session EXCEPT !.waiting = TRUE]
        /\ mempool \in Seq(Txs)
        /\ UNCHANGED <<library, config, default_library, default_config,
                       upgrades>>
    BY <1>3 DEF Send, TypeOK, contractVars, defaultVars
  <2>3. mempool' \in Seq(Txs) /\ mempool' # <<>>
    BY <2>1, <2>2, SendsTyped, Appended
  <2>4. session' \in Sessions
    BY <2>2 DEF Sessions
  <2>. QED BY <2>2, <2>3, <2>4 DEF TypeOK
<1>4. CASE MineOne
  <2>1. /\ mempool \in Seq(Txs) /\ mempool # <<>> /\ Mined(Head(mempool))
        /\ mempool' = Tail(mempool)
        /\ session' = IF Awaited THEN Rest ELSE session
        /\ UNCHANGED <<default_library, default_config, upgrades>>
    BY <1>4 DEF MineOne, TypeOK, defaultVars
  <2>2. /\ Head(mempool) \in Txs /\ mempool' \in Seq(Txs)
        /\ Len(mempool) # 1 => mempool' # <<>>
    BY <2>1, Queue
  <2>3. session' = Idle \/ (session' \in Sessions
                              /\ (session'.waiting => mempool' # <<>>))
    <3>1. CASE Awaited
      BY <2>1, <3>1, RestTyped DEF Awaited, TypeOK
    <3>2. CASE ~Awaited
      BY <2>1, <2>2, <3>2 DEF Awaited, TypeOK
    <3>. QED BY <3>1, <3>2
  <2>. QED BY <2>1, <2>2, <2>3, MinedTyped DEF TypeOK
<1>5. CASE RevertOne
  <2>1. /\ mempool \in Seq(Txs) /\ mempool # <<>> /\ mempool' = Tail(mempool)
        /\ session' = IF Awaited THEN Idle ELSE session
        /\ UNCHANGED <<library, config, default_library, default_config,
                       upgrades>>
    BY <1>5 DEF RevertOne, TypeOK, contractVars, defaultVars
  <2>2. mempool' \in Seq(Txs) /\ (Len(mempool) # 1 => mempool' # <<>>)
    BY <2>1, Queue
  <2>. QED BY <2>1, <2>2 DEF Awaited, TypeOK
<1>6. CASE Interrupted
  BY <1>6 DEF Interrupted, TypeOK, contractVars, defaultVars
<1>7. CASE ChangeDefaults
  <2>1. /\ upgrades \in 0..MaxUpgrades /\ upgrades < MaxUpgrades
        /\ upgrades' = upgrades + 1
        /\ UNCHANGED <<library, config, session, mempool>>
    BY <1>7 DEF ChangeDefaults, TypeOK, contractVars
  <2>2. upgrades' \in 0..MaxUpgrades
    BY <2>1, LedgerTasksAssumption, SMT
  <2>3. default_library' \in Libraries /\ default_config' \in [Libraries -> DVNSets]
    BY <1>7 DEF ChangeDefaults, TypeOK
  <2>. QED BY <2>1, <2>2, <2>3 DEF TypeOK
<1>8. CASE UNCHANGED vars
  BY <1>8 DEF vars, contractVars, defaultVars, TypeOK
<1>. QED BY <1>1, <1>2, <1>3, <1>4, <1>5, <1>6, <1>7, <1>8 DEF Next

-----------------------------------------------------------------------------
(* The steps of the model, as the invariants see them.                     *)

LEMMA StartIs ==
    ASSUME NEW env, NEW network, NEW setConfig, NEW force,
           GetConfig(env, network, setConfig, force)
    PROVE  /\ session'.env = env
           /\ session'.todo = GetConfigSteps /\ session'.read = ReadConfig
           /\ session'.waiting = FALSE /\ session'.upgrades = upgrades
           /\ UNCHANGED <<library, config, default_library, default_config,
                          upgrades, mempool>>
<1>1. session' = [env |-> env, force |-> force, todo |-> GetConfigSteps,
                  read |-> ReadConfig, waiting |-> FALSE, upgrades |-> upgrades]
  BY DEF GetConfig
<1>2. UNCHANGED <<library, config, default_library, default_config, upgrades,
                  mempool>>
  BY DEF GetConfig, contractVars, defaultVars
<1>. QED BY <1>1, <1>2

LEMMA RestIs ==
    ASSUME session \in Sessions, session' = Rest, session' # Idle
    PROVE  /\ session'.todo = Tail(session.todo) /\ Tail(session.todo) # <<>>
           /\ session'.waiting = FALSE /\ session'.env = session.env
           /\ session'.force = session.force /\ session'.read = session.read
           /\ session'.upgrades = session.upgrades
<1>1. Tail(session.todo) # <<>>
  BY DEF Rest
<1>2. session' = [session EXCEPT !.todo = Tail(session.todo), !.waiting = FALSE]
  BY <1>1 DEF Rest
<1>. QED BY <1>1, <1>2 DEF Sessions

LEMMA SendIs ==
    ASSUME TypeOK, Send
    PROVE  /\ session # Idle /\ ~session.waiting /\ session' \in Sessions
           /\ session'.waiting = TRUE
           /\ session'.todo = session.todo /\ session'.env = session.env
           /\ session'.force = session.force /\ session'.read = session.read
           /\ session'.upgrades = session.upgrades
           /\ UNCHANGED <<library, config, default_library, default_config,
                          upgrades>>
           /\ \E tx \in Sends(session, Head(session.todo)) :
                /\ tx \in Txs /\ Own(tx)'
                /\ \A i \in DOMAIN mempool' :
                     mempool'[i] = tx
                     \/ \E j \in DOMAIN mempool : mempool'[i] = mempool[j]
<1>1. /\ session # Idle /\ session \in Sessions /\ ~session.waiting
      /\ session' = [session EXCEPT !.waiting = TRUE]
      /\ UNCHANGED <<library, config, default_library, default_config, upgrades>>
      /\ mempool \in Seq(Txs)
  BY DEF Send, TypeOK, contractVars, defaultVars
<1>2. PICK tx \in Sends(session, Head(session.todo)) : mempool' = Append(mempool, tx)
  BY DEF Send
<1>3. tx \in Txs
  BY <1>1, <1>2, SendsTyped
<1>4. /\ Own(tx)'
      /\ \A i \in DOMAIN mempool' :
           mempool'[i] = tx \/ \E j \in DOMAIN mempool : mempool'[i] = mempool[j]
  BY <1>1, <1>2, <1>3, Appended DEF Own
<1>5. \E t \in Sends(session, Head(session.todo)) :
         /\ t \in Txs /\ Own(t)'
         /\ \A i \in DOMAIN mempool' :
              mempool'[i] = t
              \/ \E j \in DOMAIN mempool : mempool'[i] = mempool[j]
  BY <1>2, <1>3, <1>4
<1>. QED BY <1>1, <1>5 DEF Sessions

\* A transaction leaves the mempool, mined or reverted.  A session that awaits
\* one has it at the end, before and after, or is done with it.
LEMMA LeftMempool ==
    ASSUME TypeOK, mempool # <<>>, mempool' = Tail(mempool)
    PROVE  /\ Head(mempool) \in Txs
           /\ Awaited => Own(Head(mempool)) /\ mempool = <<Head(mempool)>>
                         /\ mempool' = <<>>
           /\ session # Idle /\ session.waiting /\ ~Awaited =>
                \A tx : Own(tx) => Own(tx)'
           /\ \A i \in DOMAIN mempool' :
                \E j \in DOMAIN mempool : mempool'[i] = mempool[j]
           /\ \E j \in DOMAIN mempool : Head(mempool) = mempool[j]
<1>1. mempool \in Seq(Txs)
  BY DEF TypeOK
<1>2. Len(mempool) = 1 => mempool = <<Head(mempool)>> /\ Tail(mempool) = <<>>
  <2>. SUFFICES ASSUME Len(mempool) = 1
                PROVE  mempool = <<Head(mempool)>> /\ Tail(mempool) = <<>>
    OBVIOUS
  <2>1. Tail(mempool) = <<>>
    <3>1. Tail(mempool) \in Seq(Txs) /\ Len(Tail(mempool)) = 0
      BY <1>1, HeadTailProperties
    <3>. QED BY <3>1, EmptySeq
  <2>2. mempool = <<Head(mempool)>>
    <3>1. /\ <<Head(mempool)>> \in Seq(Txs) /\ Len(<<Head(mempool)>>) = 1
          /\ <<Head(mempool)>>[1] = Head(mempool) /\ Head(mempool) = mempool[1]
      BY <1>1, HeadTailProperties, SMT
    <3>. QED BY <1>1, <3>1, SeqEqual
  <2>. QED BY <2>1, <2>2
<1>. QED BY <1>1, <1>2, Queue DEF Awaited, Own

-----------------------------------------------------------------------------
(* Libraries.                                                              *)

LEMMA LibraryStep == TypeOK /\ LibraryInv /\ [Next]_vars => LibraryInv'
<1>. SUFFICES ASSUME TypeOK, LibraryInv, [Next]_vars, upgrades' = 0
              PROVE  /\ \A d \in Directions :
                          library'[d] \in {NoValue, default_library'}
                     /\ \A i \in DOMAIN mempool' :
                          mempool'[i].kind = "setLibrary" =>
                            mempool'[i].library = default_library'
                     /\ session' # Idle =>
                          session'.read.library = default_library'
  BY DEF LibraryInv
<1>1. ASSUME NEW env \in Envs, NEW network \in Networks,
             NEW setConfig \in BOOLEAN, NEW force \in BOOLEAN,
             GetConfig(env, network, setConfig, force)
      PROVE  /\ UNCHANGED <<library, default_library, upgrades, mempool>>
             /\ session'.read.library = default_library
  <2>1. /\ UNCHANGED <<library, default_library, upgrades, mempool>>
        /\ session'.read = ReadConfig
    BY <1>1, StartIs
  <2>2. ReadConfig.library = default_library
    BY DEF ReadConfig
  <2>. QED BY <2>1, <2>2
<1>2. CASE \E env \in Envs, network \in Networks, setConfig, force \in BOOLEAN :
              GetConfig(env, network, setConfig, force)
  BY <1>1, <1>2 DEF LibraryInv
<1>3. CASE Skip
  <2>1. /\ session # Idle /\ session \in Sessions /\ session' = Rest
        /\ UNCHANGED <<library, default_library, upgrades, mempool>>
    BY <1>3 DEF Skip, TypeOK, contractVars, defaultVars
  <2>2. session' # Idle => session'.read = session.read
    BY <2>1, RestIs
  <2>. QED BY <2>1, <2>2 DEF LibraryInv
<1>4. CASE Send
  <2>1. /\ session # Idle /\ session \in Sessions /\ session'.read = session.read
        /\ UNCHANGED <<library, default_library, upgrades>>
    BY <1>4, SendIs DEF TypeOK
  <2>2. PICK tx \in Sends(session, Head(session.todo)) :
          /\ tx \in Txs
          /\ \A i \in DOMAIN mempool' :
               mempool'[i] = tx
               \/ \E j \in DOMAIN mempool : mempool'[i] = mempool[j]
    BY <1>4, SendIs
  <2>3. tx.kind = "setLibrary" => tx.library = session.read.library
    BY <2>2, SendsIs DEF Library, Config
  <2>. QED BY <2>1, <2>2, <2>3 DEF LibraryInv
<1>5. CASE MineOne
  <2>1. /\ mempool # <<>> /\ Mined(Head(mempool)) /\ mempool' = Tail(mempool)
        /\ session' = IF Awaited THEN Rest ELSE session
        /\ UNCHANGED <<default_library, upgrades>>
    BY <1>5 DEF MineOne, defaultVars
  <2>2. /\ Head(mempool) \in Txs
        /\ \A i \in DOMAIN mempool' :
             \E j \in DOMAIN mempool : mempool'[i] = mempool[j]
        /\ \E j \in DOMAIN mempool : Head(mempool) = mempool[j]
    BY <2>1, LeftMempool
  <2>3. Head(mempool).kind = "setLibrary" => Head(mempool).library = default_library
    BY <2>1, <2>2 DEF LibraryInv
  <2>4. \A d \in Directions : library'[d] \in {NoValue, default_library}
    <3>1. \A d \in Directions : library[d] \in {NoValue, default_library}
      BY <2>1 DEF LibraryInv
    <3>2. library' = library
          \/ \E e \in Directions :
               library' = [library EXCEPT ![e] = default_library]
      BY <2>1, <2>2, <2>3, MinedIs
    <3>3. library \in [Directions -> Libraries \cup {NoValue}]
      BY DEF TypeOK
    <3>. QED BY <3>1, <3>2, <3>3
  <2>5. session' # Idle => session # Idle /\ session'.read = session.read
    <3>1. CASE Awaited
      BY <2>1, <3>1, RestIs DEF Awaited, TypeOK
    <3>2. CASE ~Awaited
      BY <2>1, <3>2
    <3>. QED BY <3>1, <3>2
  <2>. QED BY <2>1, <2>2, <2>4, <2>5 DEF LibraryInv
<1>6. CASE RevertOne
  <2>1. /\ mempool # <<>> /\ mempool' = Tail(mempool)
        /\ session' = IF Awaited THEN Idle ELSE session
        /\ UNCHANGED <<library, default_library, upgrades>>
    BY <1>6 DEF RevertOne, contractVars, defaultVars
  <2>2. \A i \in DOMAIN mempool' :
          \E j \in DOMAIN mempool : mempool'[i] = mempool[j]
    BY <2>1, LeftMempool
  <2>. QED BY <2>1, <2>2 DEF LibraryInv
<1>7. CASE Interrupted
  BY <1>7 DEF Interrupted, LibraryInv, contractVars, defaultVars
<1>8. CASE ChangeDefaults
  <2>1. upgrades \in 0..MaxUpgrades /\ upgrades' = upgrades + 1
    BY <1>8 DEF ChangeDefaults, TypeOK
  <2>. QED BY <2>1, LedgerTasksAssumption, SMT
<1>9. CASE UNCHANGED vars
  BY <1>9 DEF vars, contractVars, defaultVars, LibraryInv
<1>. QED BY <1>2, <1>3, <1>4, <1>5, <1>6, <1>7, <1>8, <1>9 DEF Next

-----------------------------------------------------------------------------
(* What is stored, and what is settled.                                    *)

\* What a transaction that is mined may store.
LEMMA MinedStores ==
    ASSUME OnlyTablesStored, NEW tx \in Txs, Mined(tx),
           \E j \in DOMAIN mempool : tx = mempool[j]
    PROVE  \/ config' = config
           \/ \E d \in Directions, lib \in Libraries : \E c \in Tables(d) :
                config' = [config EXCEPT ![d][lib] = c]
<1>1. tx.kind = "setConfig" => tx.dvns \subseteq Tables(tx.direction)
  BY DEF OnlyTablesStored
<1>2. CASE tx.kind = "setConfig" /\ tx.dvns # {}
  <2>1. /\ tx.direction \in Directions /\ tx.library \in Libraries
        /\ \E c \in tx.dvns :
             config' = [config EXCEPT ![tx.direction][tx.library] = c]
    BY <1>2, MinedIs
  <2>2. PICK c \in tx.dvns : config' = [config EXCEPT ![tx.direction][tx.library] = c]
    BY <2>1
  <2>3. c \in Tables(tx.direction)
    BY <1>1, <1>2
  <2>. QED BY <2>1, <2>2, <2>3
<1>3. CASE ~(tx.kind = "setConfig" /\ tx.dvns # {})
  <2>1. config' = config
    BY <1>3, MinedIs
  <2>. QED BY <2>1
<1>. QED BY <1>2, <1>3

LEMMA StoredStep == TypeOK /\ OnlyTablesStored /\ [Next]_vars => OnlyTablesStored'
<1>. SUFFICES ASSUME TypeOK, OnlyTablesStored, [Next]_vars PROVE OnlyTablesStored'
  OBVIOUS
<1>1. CASE UNCHANGED <<config, mempool>>
  BY <1>1 DEF OnlyTablesStored
<1>2. CASE Send
  <2>1. session \in Sessions /\ UNCHANGED config
    BY <1>2, SendIs DEF TypeOK
  <2>2. PICK tx \in Sends(session, Head(session.todo)) :
          \A i \in DOMAIN mempool' :
             mempool'[i] = tx \/ \E j \in DOMAIN mempool : mempool'[i] = mempool[j]
    BY <1>2, SendIs
  <2>3. tx.kind = "setConfig" => tx.dvns \subseteq Tables(tx.direction)
    <3>1. \A d : TableDVNs(session.env, d) \in Tables(d)
      BY <2>1 DEF Tables, Sessions
    <3>2. PICK d : \/ tx = Library(d, session.read.library)
                   \/ tx = Config(d, session.read.library, {})
                   \/ tx = Config(d, session.read.library,
                                  {TableDVNs(session.env, d)})
      BY <2>2, SendsIs
    <3>. QED BY <3>1, <3>2 DEF Library, Config
  <2>. QED BY <2>1, <2>2, <2>3 DEF OnlyTablesStored
<1>3. CASE MineOne \/ RevertOne
  <2>1. mempool # <<>> /\ mempool' = Tail(mempool)
    BY <1>3 DEF MineOne, RevertOne
  <2>2. /\ Head(mempool) \in Txs
        /\ \A i \in DOMAIN mempool' :
             \E j \in DOMAIN mempool : mempool'[i] = mempool[j]
        /\ \E j \in DOMAIN mempool : Head(mempool) = mempool[j]
    BY <2>1, LeftMempool
  <2>3. \/ config' = config
        \/ \E d \in Directions, lib \in Libraries : \E c \in Tables(d) :
             config' = [config EXCEPT ![d][lib] = c]
    <3>1. CASE MineOne
      <4>1. Mined(Head(mempool))
        BY <3>1 DEF MineOne
      <4>. QED BY <2>2, <4>1, MinedStores
    <3>2. CASE RevertOne
      BY <3>2 DEF RevertOne, contractVars
    <3>. QED BY <1>3, <3>1, <3>2
  <2>4. \A d \in Directions, l \in Libraries :
          config'[d][l] \in {config[d][l]} \cup Tables(d)
    BY <2>3 DEF TypeOK
  <2>. QED BY <2>2, <2>4 DEF OnlyTablesStored
<1>4. (\E env \in Envs, network \in Networks, setConfig, force \in BOOLEAN :
           GetConfig(env, network, setConfig, force))
      \/ Skip \/ Interrupted \/ ChangeDefaults \/ UNCHANGED vars
      => UNCHANGED <<config, mempool>>
  BY DEF GetConfig, Skip, Interrupted, ChangeDefaults, vars, contractVars
<1>. QED BY <1>1, <1>2, <1>3, <1>4 DEF Next

\* What any transaction that is mined leaves as it is.
LEMMA MinedKeeps ==
    ASSUME TypeOK, OnlyTablesStored, MineOne, NEW d \in Directions
    PROVE  /\ library[d] # NoValue => library'[d] # NoValue
           /\ \A l \in Libraries : config'[d][l] \in {config[d][l]} \cup Tables(d)
<1>1. mempool # <<>> /\ mempool' = Tail(mempool) /\ Mined(Head(mempool))
  BY DEF MineOne
<1>2. /\ Head(mempool) \in Txs
      /\ \E j \in DOMAIN mempool : Head(mempool) = mempool[j]
  BY <1>1, LeftMempool
<1>3. \/ library' = library
      \/ \E e \in Directions, lib \in Libraries : library' = [library EXCEPT ![e] = lib]
  BY <1>1, <1>2, MinedIs
<1>4. \/ config' = config
      \/ \E e \in Directions, lib \in Libraries : \E c \in Tables(e) :
           config' = [config EXCEPT ![e][lib] = c]
  BY <1>1, <1>2, MinedStores
<1>5. library[d] # NoValue => library'[d] # NoValue
  BY <1>3, NoValueAssumption DEF TypeOK
<1>6. \A l \in Libraries : config'[d][l] \in {config[d][l]} \cup Tables(d)
  BY <1>4 DEF TypeOK
<1>. QED BY <1>5, <1>6

LEMMA SettledStays ==
    ASSUME NEW s, s.env \in Envs, NEW d \in Directions, NEW own, NEW new,
           Settled(s, d, own), new = own \/ new \in Tables(d)
    PROVE  Settled(s, d, new)
<1>1. Tables(d) = {TableDVNs(s.env, d)}
  BY SameTables
<1>. QED BY <1>1 DEF Settled

\* The same a step later, for a session that still stands for the same run.
LEMMA SettledNext ==
    ASSUME NEW d, session'.env = session.env, session'.read = session.read,
           session'.upgrades = session.upgrades,
           UNCHANGED <<default_config, upgrades>> \/ upgrades' # session.upgrades,
           Settled(session, d, config'[d][session.read.library])
    PROVE  Settled(session, d, config[d][session.read.library])'
  BY DEF Settled

-----------------------------------------------------------------------------
(* The run.                                                                *)

\* The task goes to its next step.
LEMMA RestTodos ==
    ASSUME TypeOK, GetConfigInv, session # Idle, session' = Rest, session' # Idle
    PROVE  LET step == Head(session.todo)
           IN  /\ session'.todo \in GetConfigTodos
               /\ session'.todo # GetConfigSteps
               /\ step \in {"sendLibrary", "receiveLibrary", "sendConfig"}
               /\ step = "sendLibrary" => session'.todo \notin LastTwo
               /\ step # "sendLibrary" => session.todo # GetConfigSteps
               /\ step = "sendConfig" <=> session'.todo = <<"receiveConfig">>
               /\ step = "sendConfig" => session.todo \in LastTwo
<1>1. session'.todo = Tail(session.todo) /\ Tail(session.todo) # <<>>
  BY RestIs DEF TypeOK
<1>2. session.todo \in GetConfigTodos /\ session.todo # <<"receiveConfig">>
  BY <1>1, StepsOfTheTask DEF GetConfigInv
<1>. USE DEF GetConfigTodos, LastTwo
<1>3. CASE session.todo = GetConfigSteps
  BY <1>1, <1>3, StepsOfTheTask, TodosDiffer
<1>4. CASE session.todo = <<"receiveLibrary", "sendConfig", "receiveConfig">>
  BY <1>1, <1>4, StepsOfTheTask, TodosDiffer
<1>5. CASE session.todo = <<"sendConfig", "receiveConfig">>
  BY <1>1, <1>5, StepsOfTheTask, TodosDiffer
<1>. QED BY <1>2, <1>3, <1>4, <1>5

\* A step that is skipped or confirmed is done.
LEMMA StepDone ==
    ASSUME TypeOK, OnlyTablesStored, GetConfigInv, session # Idle,
           Skip \/ (Awaited /\ MineOne)
    PROVE  LET step == Head(session.todo)
               d    == DirectionOf(step)
           IN  /\ step \in {"sendLibrary", "receiveLibrary"} => library'[d] # NoValue
               /\ step \in {"sendConfig", "receiveConfig"} =>
                    Settled(session, d, config'[d][session.read.library])
<1>. DEFINE step  == Head(session.todo)
            d     == DirectionOf(step)
            lib   == session.read.library
            table == TableDVNs(session.env, d)
<1>1. /\ d \in Directions /\ lib \in Libraries /\ session.env \in Envs
  BY DEF TypeOK, Sessions, DirectionOf, Directions
<1>2. session.read.dvns[d] = table => Settled(session, d, config[d][lib])
  BY <1>1 DEF GetConfigInv
<1>3. CASE Skip
  <2>1. Sends(session, step) = {} /\ UNCHANGED <<library, config>>
    BY <1>3 DEF Skip, contractVars
  <2>2. step \in {"sendLibrary", "receiveLibrary"} => library[d] # NoValue
    BY <2>1, SendsIs
  <2>3. step \in {"sendConfig", "receiveConfig"} => session.read.dvns[d] = table
    BY <2>1, SendsIs
  <2>. QED BY <1>2, <2>1, <2>2, <2>3
<1>4. CASE Awaited /\ MineOne
  <2>1. mempool # <<>> /\ mempool' = Tail(mempool) /\ Mined(Head(mempool))
    BY <1>4 DEF MineOne
  <2>2. Head(mempool) \in Txs /\ Own(Head(mempool))
    BY <1>4, <2>1, LeftMempool
  <2>3. Head(mempool) \in AsksFor(step)
    BY <1>4, <2>2 DEF GetConfigInv, Awaited, Own
  <2>4. CASE step \in {"sendLibrary", "receiveLibrary"}
    <3>1. Head(mempool) = Library(d, lib)
      BY <2>3, <2>4 DEF AsksFor
    <3>2. library' = [library EXCEPT ![d] = lib]
      BY <2>1, <2>2, <3>1, MinedIs DEF Library
    <3>3. library'[d] = lib
      BY <1>1, <3>2 DEF TypeOK
    <3>. QED BY <1>1, <2>4, <3>3, NoValueAssumption
  <2>5. CASE step \in {"sendConfig", "receiveConfig"}
    <3>1. Head(mempool) \in SetsConfig(session, d)
      BY <2>3, <2>5 DEF AsksFor
    <3>2. CASE session.read.dvns[d] = table
      <4>1. config'[d][lib] = config[d][lib] \/ config'[d][lib] \in Tables(d)
        BY <1>1, <1>4, MinedKeeps
      <4>2. Settled(session, d, config'[d][lib])
        BY <1>1, <1>2, <3>2, <4>1, SettledStays
      <4>. QED BY <2>5, <4>2
    <3>3. CASE session.read.dvns[d] # table
      <4>1. Head(mempool) = Config(d, lib, {table})
        BY <3>1, <3>3 DEF SetsConfig, equalDVNs
      <4>2. /\ Head(mempool).kind = "setConfig" /\ Head(mempool).dvns = {table}
            /\ Head(mempool).direction = d /\ Head(mempool).library = lib
        BY <4>1 DEF Config
      <4>3. \E c \in {table} : config' = [config EXCEPT ![d][lib] = c]
        BY <2>1, <2>2, <4>2, MinedIs
      <4>4. config'[d][lib] = table
        BY <1>1, <4>3 DEF TypeOK
      <4>. QED BY <2>5, <4>4 DEF Settled
    <3>. QED BY <3>2, <3>3
  <2>. QED BY <2>4, <2>5
<1>. QED BY <1>3, <1>4

\* The session goes on to its next step.
LEMMA GoesOn ==
    ASSUME TypeOK, OnlyTablesStored, GetConfigInv, session # Idle,
           Skip \/ (Awaited /\ MineOne), session' = Rest, session' # Idle,
           UNCHANGED <<default_library, default_config, upgrades>>,
           \A d \in Directions :
              /\ library[d] # NoValue => library'[d] # NoValue
              /\ \A l \in Libraries : config'[d][l] \in {config[d][l]} \cup Tables(d)
    PROVE  GetConfigInv'
<1>. DEFINE step == Head(session.todo)
<1>1. /\ session'.waiting = FALSE /\ session'.env = session.env
      /\ session'.read = session.read /\ session'.upgrades = session.upgrades
      /\ session \in Sessions
  BY RestIs DEF TypeOK
<1>2. /\ session'.todo \in GetConfigTodos /\ session'.todo # GetConfigSteps
      /\ step \in {"sendLibrary", "receiveLibrary", "sendConfig"}
      /\ step = "sendLibrary" => session'.todo \notin LastTwo
      /\ step # "sendLibrary" => session.todo # GetConfigSteps
      /\ step = "sendConfig" <=> session'.todo = <<"receiveConfig">>
      /\ step = "sendConfig" => session.todo \in LastTwo
  BY RestTodos
<1>3. /\ "send" \in Directions /\ "receive" \in Directions
      /\ DirectionOf("sendLibrary") = "send" /\ DirectionOf("sendConfig") = "send"
      /\ DirectionOf("receiveLibrary") = "receive"
  BY DEF Directions, DirectionOf
<1>4. library'["send"] # NoValue
  <2>1. CASE step = "sendLibrary"
    BY <1>3, <2>1, StepDone
  <2>2. CASE step # "sendLibrary"
    BY <1>2, <1>3, <2>2 DEF GetConfigInv
  <2>. QED BY <2>1, <2>2
<1>5. session'.todo \in LastTwo => library'["receive"] # NoValue
  <2>1. CASE step = "receiveLibrary"
    BY <1>3, <2>1, StepDone
  <2>2. CASE step = "sendConfig"
    BY <1>2, <1>3, <2>2 DEF GetConfigInv
  <2>. QED BY <1>2, <2>1, <2>2
<1>6. ASSUME NEW d \in Directions,
             \/ session.read.dvns[d] = TableDVNs(session.env, d)
             \/ d = "send" /\ session'.todo = <<"receiveConfig">>
      PROVE  Settled(session, d, config[d][session.read.library])'
  <2>1. session.env \in Envs /\ session.read.library \in Libraries
    BY <1>1 DEF Sessions
  <2>2. Settled(session, d, config'[d][session.read.library])
    <3>1. CASE session.read.dvns[d] = TableDVNs(session.env, d)
      <4>1. Settled(session, d, config[d][session.read.library])
        BY <3>1 DEF GetConfigInv
      <4>2. \/ config'[d][session.read.library] = config[d][session.read.library]
            \/ config'[d][session.read.library] \in Tables(d)
        BY <2>1
      <4>. QED BY <2>1, <4>1, <4>2, SettledStays
    <3>2. CASE d = "send" /\ session'.todo = <<"receiveConfig">>
      BY <1>2, <1>3, <3>2, StepDone
    <3>. QED BY <1>6, <3>1, <3>2
  <2>. QED BY <1>1, <2>2, SettledNext
<1>7. \A d : (TableDVNs(session.env, d))' = TableDVNs(session.env, d)
  BY <1>1
<1>8. session'.upgrades \in 0..upgrades'
  BY <1>1 DEF GetConfigInv
<1>. QED BY <1>1, <1>2, <1>4, <1>5, <1>6, <1>7, <1>8 DEF GetConfigInv

\* The session stays at its step while something else changes the chain.
LEMMA StaysAtItsStep ==
    ASSUME TypeOK, OnlyTablesStored, GetConfigInv, session # Idle,
           session' = session, session.upgrades \in 0..upgrades',
           UNCHANGED <<default_config, upgrades>> \/ upgrades' # session.upgrades,
           \A d \in Directions :
              /\ library[d] # NoValue => library'[d] # NoValue
              /\ \A l \in Libraries : config'[d][l] \in {config[d][l]} \cup Tables(d),
           session.waiting => \A tx : Own(tx) => Own(tx)'
    PROVE  GetConfigInv'
<1>1. session \in Sessions
  BY DEF TypeOK
<1>2. ASSUME session.waiting
      PROVE  (\E tx \in AsksFor(Head(session.todo)) : Own(tx))'
  <2>1. AsksFor(Head(session.todo))' = AsksFor(Head(session.todo))
    BY DEF AsksFor, SetsConfig
  <2>. QED BY <1>2, <2>1 DEF GetConfigInv
<1>3. ASSUME NEW d \in Directions,
             \/ session.read.dvns[d] = TableDVNs(session.env, d)
             \/ d = "send" /\ session.todo = <<"receiveConfig">>
      PROVE  Settled(session, d, config[d][session.read.library])'
  <2>1. session.env \in Envs /\ session.read.library \in Libraries
    BY <1>1 DEF Sessions
  <2>2. Settled(session, d, config[d][session.read.library])
    BY <1>3 DEF GetConfigInv
  <2>3. \/ config'[d][session.read.library] = config[d][session.read.library]
        \/ config'[d][session.read.library] \in Tables(d)
    BY <2>1
  <2>4. Settled(session, d, config'[d][session.read.library])
    BY <2>1, <2>2, <2>3, SettledStays
  <2>. QED BY <2>4, SettledNext
<1>4. "send" \in Directions /\ "receive" \in Directions
  BY DEF Directions
<1>. QED BY <1>2, <1>3, <1>4 DEF GetConfigInv

LEMMA GetConfigStep ==
    TypeOK /\ OnlyTablesStored /\ GetConfigInv /\ [Next]_vars => GetConfigInv'
<1>. SUFFICES ASSUME TypeOK, OnlyTablesStored, GetConfigInv, [Next]_vars
              PROVE  GetConfigInv'
  OBVIOUS
<1>0. CASE session' = Idle
  BY <1>0 DEF GetConfigInv
<1>1. ASSUME NEW env \in Envs, NEW network \in Networks,
             NEW setConfig \in BOOLEAN, NEW force \in BOOLEAN,
             GetConfig(env, network, setConfig, force)
      PROVE  GetConfigInv'
  <2>1. /\ session'.env = env /\ session'.todo = GetConfigSteps
        /\ session'.read = ReadConfig /\ session'.waiting = FALSE
        /\ session'.upgrades = upgrades
        /\ UNCHANGED <<library, config, default_library, default_config, upgrades,
                       mempool>>
    BY <1>1, StartIs
  <2>2. /\ GetConfigSteps \in GetConfigTodos /\ GetConfigSteps \notin LastTwo
        /\ GetConfigSteps # <<"receiveConfig">>
    BY TodosDiffer DEF GetConfigTodos, LastTwo
  <2>3. upgrades \in 0..upgrades
    <3>1. upgrades \in Nat
      BY LedgerTasksAssumption DEF TypeOK
    <3>. QED BY <3>1
  <2>4. ASSUME NEW d \in Directions, ReadConfig.dvns[d] = TableDVNs(env, d)
        PROVE  Settled(session, d, config[d][session.read.library])'
    <3>1. /\ ReadConfig.library = default_library
          /\ ReadConfig.dvns[d] = Effective(d, default_library)
      BY DEF ReadConfig
    <3>2. \/ config[d][default_library] = TableDVNs(env, d)
          \/ /\ config[d][default_library] = NoValue
             /\ default_config[default_library] = TableDVNs(env, d)
      BY <2>4, <3>1 DEF Effective
    <3>. QED BY <2>1, <2>4, <3>1, <3>2 DEF Settled
  <2>. QED BY <2>1, <2>2, <2>3, <2>4 DEF GetConfigInv
<1>2. CASE Skip
  <2>1. /\ session # Idle /\ session' = Rest
        /\ UNCHANGED <<library, config, default_library, default_config, upgrades>>
    BY <1>2 DEF Skip, contractVars, defaultVars
  <2>. QED BY <1>0, <1>2, <2>1, GoesOn
<1>3. CASE Send
  <2>1. /\ session # Idle /\ ~session.waiting
        /\ session'.todo = session.todo /\ session'.env = session.env
        /\ session'.force = session.force /\ session'.read = session.read
        /\ session'.upgrades = session.upgrades
        /\ UNCHANGED <<library, config, default_library, default_config, upgrades>>
    BY <1>3, SendIs
  <2>2. PICK tx \in Sends(session, Head(session.todo)) : Own(tx)'
    BY <1>3, SendIs
  <2>3. tx \in AsksFor(Head(session.todo))
    BY <2>2 DEF AsksFor, Sends, SetsLibrary
  <2>4. AsksFor(Head(session.todo))' = AsksFor(Head(session.todo))
    BY <2>1 DEF AsksFor, SetsConfig
  <2>5. \A d \in Directions :
          Settled(session, d, config[d][session.read.library]) =>
            Settled(session, d, config[d][session.read.library])'
    BY <2>1, SettledNext
  <2>. QED BY <2>1, <2>2, <2>3, <2>4, <2>5 DEF GetConfigInv
<1>4. CASE MineOne
  <2>1. /\ mempool # <<>> /\ mempool' = Tail(mempool)
        /\ session' = IF Awaited THEN Rest ELSE session
        /\ UNCHANGED <<default_library, default_config, upgrades>>
    BY <1>4 DEF MineOne, defaultVars
  <2>2. \A d \in Directions :
           /\ library[d] # NoValue => library'[d] # NoValue
           /\ \A l \in Libraries : config'[d][l] \in {config[d][l]} \cup Tables(d)
    BY <1>4, MinedKeeps
  <2>3. CASE Awaited
    <3>1. session # Idle /\ session' = Rest
      BY <2>1, <2>3 DEF Awaited
    <3>. QED BY <1>0, <1>4, <2>1, <2>2, <2>3, <3>1, GoesOn
  <2>4. CASE ~Awaited
    <3>1. session' = session
      BY <2>1, <2>4
    <3>2. session # Idle /\ session.waiting => \A tx : Own(tx) => Own(tx)'
      BY <2>1, <2>4, LeftMempool
    <3>3. session # Idle => session.upgrades \in 0..upgrades'
      BY <2>1 DEF GetConfigInv
    <3>. QED BY <1>0, <2>1, <2>2, <3>1, <3>2, <3>3, StaysAtItsStep
  <2>. QED BY <2>3, <2>4
<1>5. CASE RevertOne
  <2>1. /\ mempool # <<>> /\ mempool' = Tail(mempool)
        /\ session' = IF Awaited THEN Idle ELSE session
        /\ UNCHANGED <<library, config, default_library, default_config, upgrades>>
    BY <1>5 DEF RevertOne, contractVars, defaultVars
  <2>2. CASE ~Awaited
    <3>1. session # Idle /\ session.waiting => \A tx : Own(tx) => Own(tx)'
      BY <2>1, <2>2, LeftMempool
    <3>2. session # Idle => session.upgrades \in 0..upgrades'
      BY <2>1 DEF GetConfigInv
    <3>. QED BY <1>0, <2>1, <2>2, <3>1, <3>2, StaysAtItsStep
  <2>. QED BY <1>0, <2>1, <2>2
<1>6. CASE Interrupted
  BY <1>0, <1>6 DEF Interrupted
<1>7. CASE ChangeDefaults
  <2>1. /\ upgrades' = upgrades + 1 /\ upgrades \in Nat
        /\ UNCHANGED <<library, config, session, mempool>>
    BY <1>7, LedgerTasksAssumption DEF ChangeDefaults, TypeOK, contractVars
  <2>2. ASSUME session # Idle
        PROVE  session.upgrades \in 0..upgrades' /\ upgrades' # session.upgrades
    <3>1. session.upgrades \in 0..upgrades
      BY <2>2 DEF GetConfigInv
    <3>. QED BY <2>1, <3>1, SMT
  <2>3. \A tx : Own(tx) => Own(tx)'
    BY <2>1 DEF Own
  <2>. QED BY <1>0, <2>1, <2>2, <2>3, StaysAtItsStep
<1>8. CASE UNCHANGED vars
  <2>1. UNCHANGED <<library, config, default_library, default_config, upgrades,
                    session, mempool>>
    BY <1>8 DEF vars, contractVars, defaultVars
  <2>2. \A tx : Own(tx) => Own(tx)'
    BY <2>1 DEF Own
  <2>3. session # Idle => session.upgrades \in 0..upgrades'
    BY <2>1 DEF GetConfigInv
  <2>. QED BY <1>0, <2>1, <2>2, <2>3, StaysAtItsStep
<1>. QED BY <1>1, <1>2, <1>3, <1>4, <1>5, <1>6, <1>7, <1>8 DEF Next

-----------------------------------------------------------------------------
(* The theorems.                                                           *)

LEMMA LedgerTasksInit == Init => LedgerTasksInv
<1>. SUFFICES ASSUME Init PROVE LedgerTasksInv
  OBVIOUS
<1>1. TypeOK
  BY TypeInit
<1>2. GetConfigInv
  BY DEF Init, GetConfigInv
<1>3. DOMAIN mempool = {}
  BY SMT DEF Init
<1>4. LibraryInv /\ OnlyTablesStored
  BY <1>3 DEF Init, LibraryInv, OnlyTablesStored
<1>. QED BY <1>1, <1>2, <1>4 DEF LedgerTasksInv

(* Whatever runs of orderly:getconfig are cut short, repeated or caught up with
   by transactions left in the mempool, and whatever LayerZero does to its
   defaults meanwhile: a run that waits has its own transaction last, only the
   tables' DVNs are ever stored, and what a run found right or has done stays
   so until a default it relies on changes. *)
THEOREM LedgerTasksStayInOrder == Spec => []LedgerTasksInv
<1>1. Init => LedgerTasksInv
  BY LedgerTasksInit
<1>2. LedgerTasksInv /\ [Next]_vars => LedgerTasksInv'
  BY TypeStep, StoredStep, LibraryStep, GetConfigStep DEF LedgerTasksInv
<1>. QED BY <1>1, <1>2, PTL DEF Spec

\* The last step is done.
LEMMA GetConfigEnds ==
    ASSUME LedgerTasksInv, LibraryInv', Finishes, NEW d \in Directions
    PROVE  /\ library'[d] # NoValue
           /\ upgrades = 0 => library'[d] = session.read.library
           /\ Settled(session, d, config'[d][session.read.library])
<1>. USE DEF LedgerTasksInv
<1>1. /\ session # Idle /\ session \in Sessions
      /\ Skip \/ (Awaited /\ MineOne)
      /\ UNCHANGED <<default_library, upgrades>>
  BY DEF Finishes, Skip, MineOne, TypeOK, defaultVars
<1>2. session.todo = <<"receiveConfig">>
  <2>1. session.todo \in GetConfigTodos /\ Len(session.todo) = 1
    BY DEF Finishes, GetConfigInv
  <2>. QED BY <2>1, TodosDiffer, SMT DEF GetConfigTodos, LastTwo
<1>3. /\ Head(session.todo) = "receiveConfig"
      /\ DirectionOf("receiveConfig") = "receive"
      /\ GetConfigSteps # <<"receiveConfig">> /\ <<"receiveConfig">> \in LastTwo
  BY <1>2, StepsOfTheTask, TodosDiffer DEF DirectionOf, LastTwo
<1>4. d \in {"send", "receive"}
  BY DEF Directions
<1>5. /\ library[d] # NoValue => library'[d] # NoValue
      /\ \A l \in Libraries : config'[d][l] \in {config[d][l]} \cup Tables(d)
  <2>1. CASE Skip
    BY <2>1 DEF Skip, contractVars
  <2>2. CASE MineOne
    BY <2>2, MinedKeeps
  <2>. QED BY <1>1, <2>1, <2>2
<1>6. library'[d] # NoValue
  <2>1. library[d] # NoValue
    BY <1>1, <1>2, <1>3, <1>4 DEF GetConfigInv
  <2>. QED BY <1>5, <2>1
<1>7. upgrades = 0 => library'[d] = session.read.library
  BY <1>1, <1>6 DEF LibraryInv
<1>8. Settled(session, d, config'[d][session.read.library])
  <2>1. CASE d = "receive"
    BY <1>1, <1>3, <2>1, StepDone
  <2>2. CASE d = "send"
    <3>1. Settled(session, d, config[d][session.read.library])
      BY <1>1, <1>2, <2>2 DEF GetConfigInv
    <3>2. session.env \in Envs /\ session.read.library \in Libraries
      BY <1>1 DEF Sessions
    <3>3. \/ config'[d][session.read.library] = config[d][session.read.library]
          \/ config'[d][session.read.library] \in Tables(d)
      BY <1>5, <3>2
    <3>. QED BY <3>1, <3>2, <3>3, SettledStays
  <2>. QED BY <1>4, <2>1, <2>2
<1>. QED BY <1>6, <1>7, <1>8

(* orderly:getconfig --set-config that gets to its end leaves the OApp with a
   library of its own in both directions and with settled DVNs for the library
   it read, whatever landed since it read the chain and whatever LayerZero
   changed. *)
THEOREM GetConfigIsComplete == Spec => GetConfigFinishesConfigured
<1>1. LedgerTasksInv /\ LedgerTasksInv' /\ [Next]_vars =>
        [Finishes =>
           \A d \in Directions :
              /\ library'[d] # NoValue
              /\ upgrades = 0 => library'[d] = session.read.library
              /\ Settled(session, d, config'[d][session.read.library])]_vars
  BY GetConfigEnds DEF LedgerTasksInv
<1>. QED BY <1>1, LedgerTasksStayInOrder, PTL DEF Spec, GetConfigFinishesConfigured

=============================================================================
