--------------------------- MODULE OFTTasks_proofs ---------------------------
(***************************************************************************)
(* Proofs about OFTTasks for all keys, additional minters, numbers of runs *)
(* and of transactions in flight: wherever a task stops and whatever lands *)
(* late, no authority is given to a multisig without a store of the token, *)
(* and OFT.json is true.                                                   *)
(***************************************************************************)
EXTENDS OFTTasks, FiniteSetTheorems, TLAPS

-----------------------------------------------------------------------------
(* Keys and tables.                                                        *)

\* A set of numbers with a member has a least one.
LEMMA LeastIn ==
    ASSUME NEW S, S \subseteq Nat, S # {}
    PROVE  Least(S) \in S
<1>1. PICK n \in S : TRUE
  OBVIOUS
<1>. DEFINE I == 0..n
            Below == {0..k : k \in {j \in S : j <= n}}
<1>2. IsFiniteSet(I)
  BY FS_Interval
<1>3. IsWellFoundedOn(StrictSubsetOrdering(I), SUBSET I)
  <2>1. FiniteSubsetsOf(I) = SUBSET I
    BY <1>2, FS_FiniteSubsetsOfFinite
  <2>2. IsWellFoundedOn(StrictSubsetOrdering(I), FiniteSubsetsOf(I))
    BY <1>2, FS_StrictSubsetOrderingWellFounded
  <2>. QED BY ONLY <2>1, <2>2
<1>4. Below \subseteq SUBSET I /\ 0..n \in Below
  BY SMT
<1>5. PICK T \in Below : \A U \in Below : ~(<<U, T>> \in StrictSubsetOrdering(I))
  <2>. HIDE DEF Below, I
  <2>. QED BY <1>3, <1>4, WFMin
<1>6. PICK k \in S : k <= n /\ T = 0..k
  OBVIOUS
<1>7. ASSUME NEW j \in S, j < k PROVE FALSE
  <2>1. 0..j \in Below /\ 0..j \in SUBSET I /\ 0..k \in SUBSET I
    BY <1>6, <1>7, SMT
  <2>2. 0..j \subseteq 0..k /\ 0..j # 0..k
    <3>1. k \notin 0..j /\ k \in 0..k /\ 0..j \subseteq 0..k
      BY <1>7, SMT
    <3>. QED BY <3>1
  <2>3. <<0..j, 0..k>> \in StrictSubsetOrdering(I)
    BY <2>1, <2>2 DEF StrictSubsetOrdering
  <2>. QED BY <1>5, <1>6, <2>1, <2>3
<1>8. \A j \in S : k <= j
  BY <1>7, SMT
<1>. QED BY <1>8 DEF Least

-----------------------------------------------------------------------------
(* Steps.                                                                  *)

\* The tables, entry by entry.
LEMMA Tables ==
    /\ DOMAIN StepsOf("create") = 1..7 /\ Len(StepsOf("create")) = 7
    /\ StepsOf("create")[1] = "multisig" /\ StepsOf("create")[2] = "check"
    /\ StepsOf("create")[3] = "token" /\ StepsOf("create")[4] = "seen"
    /\ StepsOf("create")[5] = "initOft" /\ StepsOf("create")[6] = "setAuthorities"
    /\ StepsOf("create")[7] = "output"
    /\ DOMAIN StepsOf("maba") = 1..4 /\ Len(StepsOf("maba")) = 4
    /\ StepsOf("maba")[1] = "multisig" /\ StepsOf("maba")[2] = "check"
    /\ StepsOf("maba")[3] = "initOft" /\ StepsOf("maba")[4] = "output"
    /\ DOMAIN StepsOf("adapter") = 1..2 /\ Len(StepsOf("adapter")) = 2
    /\ StepsOf("adapter")[1] = "initOft" /\ StepsOf("adapter")[2] = "output"
    /\ DOMAIN StepsOf("setauthority") = 1..4 /\ Len(StepsOf("setauthority")) = 4
    /\ StepsOf("setauthority")[1] = "multisig"
    /\ StepsOf("setauthority")[2] = "check"
    /\ StepsOf("setauthority")[3] = "MintTokens"
    /\ StepsOf("setauthority")[4] = "FreezeAccount"
<1>1. /\ StepsOf("create") = CreateSteps /\ StepsOf("maba") = MABASteps
      /\ StepsOf("adapter") = AdapterSteps
      /\ StepsOf("setauthority") = AuthoritySteps
  BY DEF StepsOf
<1>. QED BY <1>1, SMT DEF CreateSteps, MABASteps, AdapterSteps, AuthoritySteps

\* A session that is somewhere in its table.
Somewhere == /\ session.task \in Tasks
             /\ session.step \in DOMAIN StepsOf(session.task)

\* What was done when a step is reached.
LEMMA StepFacts ==
    ASSUME Somewhere
    PROVE  /\ Step = "token" => session.task = "create"
           /\ Step = "initOft" => /\ session.task # "setauthority"
                                  /\ session.task = "create" => Did("token")
           /\ Step = "setAuthorities" =>
                /\ session.task = "create"
                /\ Did("multisig") /\ Did("token") /\ Did("initOft")
           /\ Step \in AuthorityTypes =>
                session.task = "setauthority" /\ Did("multisig")
           /\ Step = "output" =>
                /\ session.task # "setauthority" /\ Did("initOft")
                /\ session.task = "create" =>
                     Did("multisig") /\ Did("setAuthorities")
           /\ Did("setAuthorities") => Step = "output"
           /\ Step \in {"multisig", "check", "token", "seen", "initOft",
                        "setAuthorities", "output"} \cup AuthorityTypes
<1>1. CASE session.task = "create"
  BY <1>1, Tables, SMT DEF Somewhere, Step, Did, AuthorityTypes
<1>2. CASE session.task = "maba"
  BY <1>2, Tables, SMT DEF Somewhere, Step, Did, AuthorityTypes
<1>3. CASE session.task = "adapter"
  BY <1>3, Tables, SMT DEF Somewhere, Step, Did, AuthorityTypes
<1>4. CASE session.task = "setauthority"
  BY <1>4, Tables, SMT DEF Somewhere, Step, Did, AuthorityTypes
<1>. QED BY <1>1, <1>2, <1>3, <1>4 DEF Somewhere, Tasks

\* Which tasks have a step at all.
LEMMA TaskFacts ==
    ASSUME Somewhere
    PROVE  /\ Todo("multisig") \/ Did("multisig") => session.task # "adapter"
           /\ Todo("token") \/ Did("token") \/ Todo("setAuthorities")
                \/ Did("setAuthorities") => session.task = "create"
           /\ Todo("initOft") \/ Did("initOft") => session.task # "setauthority"
<1>1. CASE session.task = "create"
  BY <1>1
<1>2. CASE session.task = "maba"
  BY <1>2, Tables, SMT DEF Somewhere, Todo, Did
<1>3. CASE session.task = "adapter"
  BY <1>3, Tables, SMT DEF Somewhere, Todo, Did
<1>4. CASE session.task = "setauthority"
  BY <1>4, Tables, SMT DEF Somewhere, Todo, Did
<1>. QED BY <1>1, <1>2, <1>3, <1>4 DEF Somewhere, Tasks

\* The authorities are given away last.
LEMMA DoneBefore ==
    ASSUME Somewhere, Did("setAuthorities")
    PROVE  Did("token")
<1>1. session.task = "create"
  BY TaskFacts
<1>. QED BY <1>1, Tables, SMT DEF Somewhere, Did

\* No step comes twice.
LEMMA StepsDiffer ==
    ASSUME NEW task \in Tasks, NEW i \in DOMAIN StepsOf(task),
           NEW j \in DOMAIN StepsOf(task), StepsOf(task)[i] = StepsOf(task)[j]
    PROVE  i = j
<1>1. CASE task = "create"
  BY <1>1, Tables, SMT
<1>2. CASE task = "maba"
  BY <1>2, Tables, SMT
<1>3. CASE task = "adapter"
  BY <1>3, Tables, SMT
<1>4. CASE task = "setauthority"
  BY <1>4, Tables, SMT
<1>. QED BY <1>1, <1>2, <1>3, <1>4 DEF Tasks

LEMMA StepDomain ==
    ASSUME NEW task \in Tasks
    PROVE  /\ Len(StepsOf(task)) \in Nat \ {0}
           /\ DOMAIN StepsOf(task) = 1..Len(StepsOf(task))
<1>1. CASE task = "create"
  BY <1>1, Tables, SMT
<1>2. CASE task = "maba"
  BY <1>2, Tables, SMT
<1>3. CASE task = "adapter"
  BY <1>3, Tables, SMT
<1>4. CASE task = "setauthority"
  BY <1>4, Tables, SMT
<1>. QED BY <1>1, <1>2, <1>3, <1>4 DEF Tasks

\* The session goes on to its next step, or ends.
LEMMA Advanced ==
    ASSUME SessionIs, session' = EndOrNext, session' # Idle
    PROVE  /\ session' = [session EXCEPT !.step = session.step + 1, !.tx = NoTx]
           /\ session'.task = session.task /\ session'.mint = session.mint
           /\ session'.escrow = session.escrow
           /\ session'.multisig = session.multisig /\ session'.tx = NoTx
           /\ session' = [task |-> session'.task, step |-> session'.step,
                          mint |-> session'.mint, escrow |-> session'.escrow,
                          multisig |-> session'.multisig, tx |-> session'.tx]
           /\ session'.step \in DOMAIN StepsOf(session.task)
           /\ \A name : Did(name)' => Did(name) \/ name = Step
           /\ \A name : Todo(name)' => Todo(name) /\ name # Step
<1>. DEFINE task == session.task
            step == session.step
            last == Len(StepsOf(task))
<1>1. /\ task \in Tasks /\ step \in DOMAIN StepsOf(task)
      /\ session = [task |-> session.task, step |-> session.step,
                    mint |-> session.mint, escrow |-> session.escrow,
                    multisig |-> session.multisig, tx |-> session.tx]
  BY DEF SessionIs
<1>2. /\ session' = [session EXCEPT !.step = session.step + 1, !.tx = NoTx]
      /\ step # last
  BY DEF EndOrNext
<1>3. /\ session'.task = session.task /\ session'.step = step + 1
      /\ session'.mint = session.mint /\ session'.escrow = session.escrow
      /\ session'.multisig = session.multisig /\ session'.tx = NoTx
      /\ session' = [task |-> session'.task, step |-> session'.step,
                     mint |-> session'.mint, escrow |-> session'.escrow,
                     multisig |-> session'.multisig, tx |-> session'.tx]
  BY <1>1, <1>2
<1>. HIDE DEF task, step, last
<1>4. /\ last \in Nat \ {0} /\ DOMAIN StepsOf(task) = 1..last
      /\ step \in 1..last /\ step + 1 \in 1..last
  <2>1. last \in Nat \ {0} /\ DOMAIN StepsOf(task) = 1..last
    BY <1>1, StepDomain DEF last
  <2>. QED BY <1>1, <1>2, <2>1, SMT
<1>5. ASSUME NEW name, Did(name)' PROVE Did(name) \/ name = Step
  <2>1. PICK i \in DOMAIN StepsOf(task) : i < step + 1 /\ StepsOf(task)[i] = name
    BY <1>3, <1>5 DEF Did, task
  <2>2. i < step \/ i = step
    BY <1>4, <2>1, SMT
  <2>. QED BY <2>1, <2>2 DEF Did, Step, task, step
<1>6. ASSUME NEW name, Todo(name)' PROVE Todo(name) /\ name # Step
  <2>1. PICK i \in DOMAIN StepsOf(task) : i >= step + 1 /\ StepsOf(task)[i] = name
    BY <1>3, <1>6 DEF Todo, task
  <2>2. i >= step /\ i # step
    BY <1>4, <2>1, SMT
  <2>3. name # StepsOf(task)[step]
    BY <1>1, <2>1, <2>2, StepsDiffer DEF step, task
  <2>. QED BY <2>1, <2>2, <2>3 DEF Todo, Step, task, step
<1>7. session'.step \in DOMAIN StepsOf(session.task)
  BY <1>3, <1>4 DEF task
<1>. QED BY <1>2, <1>3, <1>5, <1>6, <1>7

\* A session at its step has that step to do.
LEMMA StepIsTodo ==
    ASSUME SessionIs
    PROVE  Todo(Step) /\ Somewhere
<1>1. /\ session.task \in Tasks
      /\ session.step \in DOMAIN StepsOf(session.task)
  BY DEF SessionIs
<1>2. DOMAIN StepsOf(session.task) = 1..Len(StepsOf(session.task))
      /\ Len(StepsOf(session.task)) \in Nat
  BY <1>1, StepDomain
<1>3. session.step >= session.step
  BY <1>1, <1>2, SMT
<1>. QED BY <1>1, <1>3 DEF Todo, Step, Somewhere

-----------------------------------------------------------------------------
(* What lands.                                                             *)

\* What is on chain stays there.
Grows ==
    /\ \A k \in DOMAIN multisigs :
          k \in DOMAIN multisigs' /\ multisigs'[k] = multisigs[k]
    /\ \A escrow \in DOMAIN stores :
          escrow \in DOMAIN stores' /\ stores'[escrow] = stores[escrow]
    /\ DOMAIN mints \subseteq DOMAIN mints'

LEMMA GrowthKeeps ==
    ASSUME Grows
    PROVE  /\ \A escrow, k : CanMint(escrow, k) => CanMint(escrow, k)'
           /\ \A tx : TransactionOK(tx) => TransactionOK(tx)'
<1>1. ASSUME NEW escrow, NEW k, CanMint(escrow, k) PROVE CanMint(escrow, k)'
  BY <1>1 DEF CanMint, Grows
<1>2. ASSUME NEW tx, TransactionOK(tx) PROVE TransactionOK(tx)'
  BY <1>1, <1>2 DEF TransactionOK, Grows
<1>. QED BY <1>1, <1>2

\* A transaction makes what it names and nothing else.
LEMMA Landed ==
    ASSUME NEW tx, Lands(tx)
    PROVE  /\ Grows
           /\ \/ /\ tx.kind = "multisig" /\ tx.key \notin DOMAIN multisigs
                 /\ DOMAIN multisigs' = DOMAIN multisigs \cup {tx.key}
                 /\ multisigs'[tx.key] = tx.account
                 /\ UNCHANGED <<mints, stores>>
              \/ /\ tx.kind = "token" /\ tx.mint \notin DOMAIN mints
                 /\ DOMAIN mints' = DOMAIN mints \cup {tx.mint}
                 /\ \A type \in AuthorityTypes : mints'[tx.mint][type] = Wallet
                 /\ \A m \in DOMAIN mints : mints'[m] = mints[m]
                 /\ UNCHANGED <<multisigs, stores>>
              \/ /\ tx.kind = "initOft" /\ tx.escrow \notin DOMAIN stores
                 /\ tx.mint \in DOMAIN mints
                 /\ DOMAIN stores' = DOMAIN stores \cup {tx.escrow}
                 /\ stores'[tx.escrow].mint = tx.mint
                 /\ UNCHANGED <<mints, multisigs>>
              \/ /\ tx.kind = "authority" /\ tx.mint \in DOMAIN mints
                 /\ DOMAIN mints' = DOMAIN mints
                 /\ \A type \in AuthorityTypes : mints'[tx.mint][type] =
                       IF type \in tx.types THEN tx.new ELSE mints[tx.mint][type]
                 /\ \A m \in DOMAIN mints : m # tx.mint => mints'[m] = mints[m]
                 /\ UNCHANGED <<multisigs, stores>>
<1>1. Accepted(tx) /\ Effect(tx)
  BY DEF Lands
<1>2. CASE tx.kind = "multisig"
  <2>1. /\ tx.key \notin DOMAIN multisigs
        /\ multisigs' = With(multisigs, tx.key, tx.account)
        /\ UNCHANGED <<mints, stores>>
    BY <1>1, <1>2 DEF Accepted, Effect
  <2>2. /\ DOMAIN multisigs' = DOMAIN multisigs \cup {tx.key}
        /\ multisigs'[tx.key] = tx.account
        /\ \A k \in DOMAIN multisigs : multisigs'[k] = multisigs[k]
    BY <2>1 DEF With
  <2>. QED BY <1>2, <2>1, <2>2 DEF Grows
<1>3. CASE tx.kind = "token"
  <2>. DEFINE own == [type \in AuthorityTypes |-> Wallet]
  <2>1. /\ tx.mint \notin DOMAIN mints
        /\ mints' = With(mints, tx.mint, own)
        /\ UNCHANGED <<multisigs, stores>>
    BY <1>1, <1>3 DEF Accepted, Effect
  <2>2. \A type \in AuthorityTypes : own[type] = Wallet
    OBVIOUS
  <2>. HIDE DEF own
  <2>3. /\ DOMAIN mints' = DOMAIN mints \cup {tx.mint}
        /\ mints'[tx.mint] = own
        /\ \A m \in DOMAIN mints : mints'[m] = mints[m]
    BY <2>1 DEF With
  <2>. QED BY <1>3, <2>1, <2>2, <2>3 DEF Grows
<1>4. CASE tx.kind = "initOft"
  <2>. DEFINE store == [mint |-> tx.mint, oft_type |-> tx.oft_type]
  <2>1. /\ tx.escrow \notin DOMAIN stores /\ tx.mint \in DOMAIN mints
        /\ stores' = With(stores, tx.escrow, store)
        /\ UNCHANGED <<mints, multisigs>>
    BY <1>1, <1>4 DEF Accepted, Effect
  <2>2. store.mint = tx.mint
    OBVIOUS
  <2>. HIDE DEF store
  <2>3. /\ DOMAIN stores' = DOMAIN stores \cup {tx.escrow}
        /\ stores'[tx.escrow] = store
        /\ \A escrow \in DOMAIN stores : stores'[escrow] = stores[escrow]
    BY <2>1 DEF With
  <2>. QED BY <1>4, <2>1, <2>2, <2>3 DEF Grows
<1>5. CASE tx.kind \notin {"multisig", "token", "initOft"}
  <2>1. /\ tx.kind = "authority" /\ tx.mint \in DOMAIN mints
        /\ mints' = [mints EXCEPT ![tx.mint] = [type \in AuthorityTypes |->
                        IF type \in tx.types THEN tx.new ELSE @[type]]]
        /\ UNCHANGED <<multisigs, stores>>
    BY <1>1, <1>5 DEF Accepted, Effect
  <2>. QED BY <1>5, <2>1 DEF Grows
<1>. QED BY <1>2, <1>3, <1>4, <1>5

\* A transaction that is in order leaves the chain and the file in order.
LEMMA LandingKeeps ==
    ASSUME ChainInv, NEW tx, TransactionOK(tx), Lands(tx), file' = file
    PROVE  ChainInv'
<1>1. /\ Grows
      /\ \A escrow, k : CanMint(escrow, k) => CanMint(escrow, k)'
  BY Landed, GrowthKeeps
<1>2. \A escrow \in DOMAIN stores' :
        /\ escrow \in Runs
        /\ stores'[escrow].mint \in DOMAIN mints' \cap {escrow, Order}
  <2>1. CASE tx.kind = "initOft"
    <3>1. /\ DOMAIN stores' = DOMAIN stores \cup {tx.escrow}
          /\ stores'[tx.escrow].mint = tx.mint /\ tx.mint \in DOMAIN mints'
          /\ tx.escrow \in Runs /\ tx.mint \in {tx.escrow, Order}
      BY <2>1, Landed DEF TransactionOK
    <3>. QED BY <1>1, <3>1 DEF ChainInv, Grows
  <2>2. CASE tx.kind # "initOft"
    <3>1. stores' = stores
      BY <2>2, Landed
    <3>. QED BY <1>1, <3>1 DEF ChainInv, Grows
  <2>. QED BY <2>1, <2>2
<1>3. ASSUME NEW m \in DOMAIN mints', NEW type \in AuthorityTypes,
             NEW k \in Multisigs, mints'[m][type] = k
      PROVE  \E escrow \in DOMAIN stores :
               stores[escrow].mint = m /\ CanMint(escrow, k)
  <2>1. CASE m \in DOMAIN mints /\ mints'[m][type] = mints[m][type]
    BY <1>3, <2>1 DEF ChainInv, AuthorityHasAStore
  <2>2. CASE tx.kind = "token" /\ m = tx.mint
    <3>1. k = Wallet
      BY <1>3, <2>2, Landed
    <3>. QED BY <3>1, OFTTasksAssumption
  <2>3. CASE tx.kind = "authority" /\ m = tx.mint /\ type \in tx.types
    <3>1. k = tx.new
      BY <1>3, <2>3, Landed
    <3>. QED BY <2>3, <3>1 DEF TransactionOK
  <2>. QED BY <1>3, <2>1, <2>2, <2>3, Landed
<1>4. AuthorityHasAStore'
  <2>. SUFFICES ASSUME NEW m \in DOMAIN mints', NEW type \in AuthorityTypes,
                       mints'[m][type] \in Multisigs
                PROVE  \E escrow \in DOMAIN stores' :
                         /\ stores'[escrow].mint = m
                         /\ mints'[m][type] \in DOMAIN multisigs'
                         /\ oftStore(escrow) \in multisigs'[mints'[m][type]].signers
    BY DEF AuthorityHasAStore, CanMint
  <2>1. PICK k \in Multisigs : mints'[m][type] = k
    OBVIOUS
  <2>2. PICK escrow \in DOMAIN stores :
          stores[escrow].mint = m /\ CanMint(escrow, k)
    BY <1>3, <2>1
  <2>3. CanMint(escrow, k)'
    BY <1>1, <2>2
  <2>. QED BY <1>1, <2>1, <2>2, <2>3 DEF Grows, CanMint
<1>5. ASSUME file # NoFile
      PROVE  /\ file.escrow \in DOMAIN stores' /\ stores'[file.escrow].mint = file.mint
             /\ file.task = "create" =>
                  /\ file.mint = file.escrow
                  /\ mints'[file.mint]["MintTokens"] \in DOMAIN multisigs'
                  /\ oftStore(file.escrow)
                       \in multisigs'[mints'[file.mint]["MintTokens"]].signers
  <2>1. /\ file.escrow \in DOMAIN stores /\ stores[file.escrow].mint = file.mint
        /\ file.mint \in DOMAIN mints /\ file.escrow \in Runs
        /\ file.task = "create" =>
             /\ file.mint = file.escrow
             /\ CanMint(file.escrow, mints[file.mint]["MintTokens"])
    BY <1>5 DEF ChainInv, OFTFileIsTrue
  <2>2. ASSUME file.task = "create"
        PROVE  \E k : mints'[file.mint]["MintTokens"] = k /\ CanMint(file.escrow, k)
    <3>1. CASE mints'[file.mint]["MintTokens"] = mints[file.mint]["MintTokens"]
      BY <2>1, <2>2, <3>1
    <3>2. CASE tx.kind = "authority" /\ tx.mint = file.mint
               /\ mints'[file.mint]["MintTokens"] = tx.new
      <4>1. PICK escrow \in DOMAIN stores :
              stores[escrow].mint = file.mint /\ CanMint(escrow, tx.new)
        BY <3>2 DEF TransactionOK
      <4>2. escrow = file.escrow
        BY <2>1, <2>2, <4>1, OFTTasksAssumption DEF ChainInv
      <4>. QED BY <3>2, <4>1, <4>2
    <3>3. "MintTokens" \in AuthorityTypes
      BY DEF AuthorityTypes
    <3>4. \/ mints'[file.mint]["MintTokens"] = mints[file.mint]["MintTokens"]
          \/ /\ tx.kind = "authority" /\ tx.mint = file.mint
             /\ mints'[file.mint]["MintTokens"] = tx.new
      <4>1. CASE tx.kind = "authority" /\ tx.mint = file.mint
        <5>1. mints'[tx.mint]["MintTokens"] =
                IF "MintTokens" \in tx.types THEN tx.new
                                             ELSE mints[tx.mint]["MintTokens"]
          BY <3>3, <4>1, Landed
        <5>. QED BY <4>1, <5>1
      <4>2. CASE ~(tx.kind = "authority" /\ tx.mint = file.mint)
        <5>1. mints'[file.mint] = mints[file.mint]
          BY <2>1, <4>2, Landed
        <5>. QED BY <5>1
      <4>. QED BY <4>1, <4>2
    <3>. QED BY <3>1, <3>2, <3>4
  <2>3. ASSUME file.task = "create"
        PROVE  /\ mints'[file.mint]["MintTokens"] \in DOMAIN multisigs'
               /\ oftStore(file.escrow)
                    \in multisigs'[mints'[file.mint]["MintTokens"]].signers
    <3>1. PICK k : mints'[file.mint]["MintTokens"] = k /\ CanMint(file.escrow, k)
      BY <2>2, <2>3
    <3>2. CanMint(file.escrow, k) => k \in DOMAIN multisigs'
            /\ oftStore(file.escrow) \in multisigs'[k].signers
      BY <1>1 DEF CanMint, Grows
    <3>. QED BY <3>1, <3>2
  <2>. QED BY <1>1, <2>1, <2>3 DEF Grows
<1>6. OFTFileIsTrue' /\ (file' # NoFile => (file'.task = "create"
                                              => file'.mint = file'.escrow))
  BY <1>5 DEF OFTFileIsTrue, CanMint
<1>7. (Order \in DOMAIN mints)'
  BY <1>1 DEF ChainInv, Grows
<1>. QED BY <1>2, <1>4, <1>6, <1>7 DEF ChainInv

-----------------------------------------------------------------------------
(* The running task.                                                       *)

\* What a step of the task leaves on chain, whether it sent a transaction or
\* not.
StepTaken ==
    /\ IF Step = "multisig"
       THEN /\ session.multisig \in DOMAIN multisigs'
            /\ oftStore(session.escrow) \in multisigs'[session.multisig].signers
       ELSE multisigs' = multisigs
    /\ IF Step = "initOft"
       THEN /\ session.escrow \in DOMAIN stores'
            /\ stores'[session.escrow].mint = TheMint
       ELSE stores' = stores
    /\ IF Step = "token"
       THEN /\ session.escrow \in DOMAIN mints'
            /\ \A type \in AuthorityTypes : mints'[session.escrow][type] = Wallet
       ELSE DOMAIN mints' = DOMAIN mints
    /\ Step = "setAuthorities" =>
         mints'[session.escrow]["MintTokens"] = session.multisig
    /\ Step \notin {"token", "setAuthorities"} \cup AuthorityTypes => mints' = mints

LEMMA NextKeeps ==
    ASSUME SessionIs, YetToMake, Made, Grows, StepTaken,
           session' = EndOrNext, UNCHANGED <<minters, in_flight>>
    PROVE  SessionInv'
<1>. SUFFICES ASSUME session' # Idle
              PROVE  SessionIs' /\ YetToMake' /\ Made' /\ TxOfStep'
  BY DEF SessionInv, Running
<1>1. /\ session'.task = session.task /\ session'.mint = session.mint
      /\ session'.escrow = session.escrow
      /\ session'.multisig = session.multisig /\ session'.tx = NoTx
      /\ session' = [task |-> session'.task, step |-> session'.step,
                     mint |-> session'.mint, escrow |-> session'.escrow,
                     multisig |-> session'.multisig, tx |-> session'.tx]
      /\ session'.step \in DOMAIN StepsOf(session.task)
      /\ \A name : Did(name)' => Did(name) \/ name = Step
      /\ \A name : Todo(name)' => Todo(name) /\ name # Step
  BY Advanced
<1>2. Somewhere
  BY StepIsTodo
<1>3. SessionIs'
  BY <1>1 DEF SessionIs, Grows
<1>4. YetToMake'
  BY <1>1 DEF YetToMake, StepTaken
<1>5. (Did("multisig") => CanMint(session.escrow, session.multisig))'
  <2>1. CASE Step = "multisig"
    BY <1>1, <2>1 DEF StepTaken, CanMint
  <2>2. CASE Step # "multisig"
    BY <1>1, <2>2 DEF StepTaken, CanMint, Made
  <2>. QED BY <2>1, <2>2
<1>6. (Did("token") =>
         /\ session.escrow \in DOMAIN mints
         /\ Todo("setAuthorities") =>
              \A type \in AuthorityTypes : mints[session.escrow][type] = Wallet)'
  <2>. SUFFICES ASSUME Did("token")'
                PROVE  /\ session.escrow \in DOMAIN mints'
                       /\ Todo("setAuthorities")' =>
                            \A type \in AuthorityTypes :
                               mints'[session.escrow][type] = Wallet
    BY <1>1
  <2>1. CASE Step = "token"
    BY <1>1, <2>1 DEF StepTaken
  <2>2. CASE Step # "token"
    <3>1. Did("token") /\ session.task = "create"
      BY <1>1, <1>2, <2>2, TaskFacts
    <3>2. Step \notin AuthorityTypes
      BY <1>2, <3>1, StepFacts
    <3>. QED BY <1>1, <2>2, <3>1, <3>2 DEF StepTaken, Made
  <2>. QED BY <2>1, <2>2
<1>7. (Did("initOft") => /\ session.escrow \in DOMAIN stores
                         /\ stores[session.escrow].mint = TheMint)'
  <2>1. TheMint' = TheMint
    BY <1>1 DEF TheMint
  <2>2. CASE Step = "initOft"
    BY <1>1, <2>1, <2>2 DEF StepTaken
  <2>3. CASE Step # "initOft"
    BY <1>1, <2>1, <2>3 DEF StepTaken, Made
  <2>. QED BY <2>2, <2>3
<1>8. (Did("setAuthorities") =>
         mints[session.escrow]["MintTokens"] = session.multisig)'
  <2>1. CASE Step = "setAuthorities"
    BY <1>1, <2>1 DEF StepTaken
  <2>2. CASE Step # "setAuthorities"
    <3>1. ASSUME Did("setAuthorities") PROVE mints' = mints
      BY <1>2, <3>1, StepFacts DEF StepTaken, AuthorityTypes
    <3>. QED BY <1>1, <2>2, <3>1 DEF Made
  <2>. QED BY <2>1, <2>2
<1>9. TxOfStep'
  BY <1>1 DEF TxOfStep
<1>. QED BY <1>3, <1>4, <1>5, <1>6, <1>7, <1>8, <1>9 DEF Made

\* The transaction a step builds.
LEMMA BuildIs ==
    /\ Step = "multisig" =>
         /\ BuildTx.kind = "multisig" /\ BuildTx.key = session.multisig
         /\ oftStore(session.escrow) \in BuildTx.account.signers
    /\ Step = "token" => BuildTx.kind = "token" /\ BuildTx.mint = TheMint
    /\ Step = "initOft" => /\ BuildTx.kind = "initOft"
                           /\ BuildTx.escrow = session.escrow
                           /\ BuildTx.mint = TheMint
    /\ Step = "setAuthorities" =>
         /\ BuildTx.kind = "authority" /\ BuildTx.mint = TheMint
         /\ BuildTx.types = AuthorityTypes /\ BuildTx.owner = Wallet
         /\ BuildTx.new = session.multisig
    /\ Step \in AuthorityTypes =>
         /\ BuildTx.kind = "authority" /\ BuildTx.mint = session.mint
         /\ BuildTx.new = session.multisig
<1>1. CASE Step = "multisig"
  BY <1>1 DEF BuildTx, createMintAuthorityMultisig, AuthorityTypes
<1>2. CASE Step = "token"
  BY <1>2 DEF BuildTx, AuthorityTypes
<1>3. CASE Step = "initOft"
  BY <1>3 DEF BuildTx, AuthorityTypes
<1>4. CASE Step = "setAuthorities"
  BY <1>4 DEF BuildTx, setAuthorities, AuthorityTypes
<1>5. CASE Step \in AuthorityTypes
  BY <1>5 DEF BuildTx, SetAuthorityTx, AuthorityTypes
<1>. QED BY <1>1, <1>2, <1>3, <1>4, <1>5

\* A step that takes its transaction's effect is taken.
LEMMA ConfirmedTakes ==
    ASSUME SessionIs, YetToMake, Made, TxOfStep, session.tx # NoTx,
           Lands(session.tx)
    PROVE  StepTaken
<1>. DEFINE tx == session.tx
<1>1. /\ IsTx(Step) /\ Somewhere
      /\ IF Step \in AuthorityTypes THEN tx.kind = "authority" ELSE tx = BuildTx
  BY StepIsTodo DEF TxOfStep
<1>2. Step \in {"multisig", "token", "initOft", "setAuthorities"} \cup AuthorityTypes
  BY <1>1, StepFacts DEF IsTx
<1>3. CASE Step = "multisig"
  <2>1. /\ tx.kind = "multisig" /\ tx.key = session.multisig
        /\ oftStore(session.escrow) \in tx.account.signers
    BY <1>1, <1>3, BuildIs DEF AuthorityTypes
  <2>. HIDE DEF tx
  <2>2. /\ DOMAIN multisigs' = DOMAIN multisigs \cup {tx.key}
        /\ multisigs'[tx.key] = tx.account
        /\ UNCHANGED <<mints, stores>>
    BY <2>1, Landed DEF tx
  <2>. QED BY <1>3, <2>1, <2>2 DEF StepTaken
<1>4. CASE Step = "token"
  <2>1. tx.kind = "token" /\ tx.mint = session.escrow
    BY <1>1, <1>4, BuildIs, StepFacts DEF TheMint, AuthorityTypes
  <2>. HIDE DEF tx
  <2>2. /\ DOMAIN mints' = DOMAIN mints \cup {tx.mint}
        /\ \A type \in AuthorityTypes : mints'[tx.mint][type] = Wallet
        /\ UNCHANGED <<multisigs, stores>>
    BY <2>1, Landed DEF tx
  <2>. QED BY <1>4, <2>1, <2>2 DEF StepTaken
<1>5. CASE Step = "initOft"
  <2>1. /\ tx.kind = "initOft" /\ tx.escrow = session.escrow /\ tx.mint = TheMint
    BY <1>1, <1>5, BuildIs DEF AuthorityTypes
  <2>. HIDE DEF tx
  <2>2. /\ DOMAIN stores' = DOMAIN stores \cup {tx.escrow}
        /\ stores'[tx.escrow].mint = tx.mint
        /\ UNCHANGED <<mints, multisigs>>
    BY <2>1, Landed DEF tx
  <2>. QED BY <1>5, <2>1, <2>2 DEF StepTaken
<1>6. CASE Step = "setAuthorities"
  <2>1. /\ tx.kind = "authority" /\ tx.mint = session.escrow
        /\ tx.types = AuthorityTypes /\ tx.new = session.multisig
    BY <1>1, <1>6, BuildIs, StepFacts DEF TheMint, AuthorityTypes
  <2>. HIDE DEF tx
  <2>2. /\ DOMAIN mints' = DOMAIN mints
        /\ \A type \in AuthorityTypes : mints'[tx.mint][type] =
              IF type \in tx.types THEN tx.new ELSE mints[tx.mint][type]
        /\ UNCHANGED <<multisigs, stores>>
    BY <2>1, Landed DEF tx
  <2>3. "MintTokens" \in AuthorityTypes
    BY DEF AuthorityTypes
  <2>. QED BY <1>6, <2>1, <2>2, <2>3 DEF StepTaken
<1>7. CASE Step \in AuthorityTypes
  <2>1. /\ DOMAIN mints' = DOMAIN mints
        /\ UNCHANGED <<multisigs, stores>>
    BY <1>1, <1>7, Landed
  <2>. QED BY <1>7, <2>1 DEF StepTaken, AuthorityTypes
<1>. QED BY <1>2, <1>3, <1>4, <1>5, <1>6, <1>7

\* Once its simulation passed, only a change of authority can be refused: what
\* the others make is the run's own.
LEMMA RejectedIsAuthority ==
    ASSUME ChainInv, SessionIs, YetToMake, Made, TxOfStep, session.tx # NoTx,
           ~Accepted(session.tx)
    PROVE  Step \in AuthorityTypes
<1>. SUFFICES ASSUME Step \notin AuthorityTypes PROVE FALSE
  OBVIOUS
<1>1. /\ IsTx(Step) /\ Somewhere /\ Todo(Step) /\ session.tx = BuildTx
  BY StepIsTodo DEF TxOfStep
<1>2. Step \in {"multisig", "token", "initOft", "setAuthorities"}
  BY <1>1, StepFacts DEF IsTx
<1>3. CASE Step = "multisig"
  BY <1>1, <1>3, BuildIs DEF YetToMake, Accepted
<1>4. CASE Step = "token"
  BY <1>1, <1>4, BuildIs, StepFacts DEF YetToMake, Accepted, TheMint
<1>5. CASE Step = "initOft"
  <2>1. TheMint \in DOMAIN mints
    <3>1. CASE session.task = "create"
      BY <1>1, <1>5, <3>1, StepFacts DEF TheMint, Made
    <3>2. CASE session.task # "create"
      BY <1>1, <1>5, <3>2, StepFacts DEF TheMint, SessionIs, Tasks, ChainInv
    <3>. QED BY <3>1, <3>2
  <2>. QED BY <1>1, <1>5, <2>1, BuildIs DEF YetToMake, Accepted
<1>6. CASE Step = "setAuthorities"
  <2>1. /\ TheMint = session.escrow /\ session.escrow \in DOMAIN mints
        /\ \A type \in AuthorityTypes : mints[session.escrow][type] = Wallet
    BY <1>1, <1>6, StepFacts DEF TheMint, Made
  <2>. QED BY <1>1, <1>6, <2>1, BuildIs DEF Accepted, WalletSignsFor
<1>. QED BY <1>2, <1>3, <1>4, <1>5, <1>6

\* The transaction a step builds is in order.
LEMMA BuiltIsOK ==
    ASSUME SessionIs, YetToMake, Made, IsTx(Step)
    PROVE  TransactionOK(BuildTx)
<1>1. Somewhere /\ Todo(Step)
  BY StepIsTodo
<1>2. Step \in {"multisig", "token", "initOft", "setAuthorities"} \cup AuthorityTypes
  BY <1>1, StepFacts DEF IsTx
<1>3. CASE Step = "multisig"
  BY <1>1, <1>3, BuildIs DEF YetToMake, TransactionOK
<1>4. CASE Step = "token"
  BY <1>1, <1>4, BuildIs, StepFacts DEF SessionIs, TheMint, TransactionOK
<1>5. CASE Step = "initOft"
  <2>1. TheMint \in {session.escrow, Order}
    BY <1>1, <1>5, StepFacts DEF SessionIs, Tasks, TheMint
  <2>. QED BY <1>5, <2>1, BuildIs DEF SessionIs, TransactionOK
<1>6. CASE Step = "setAuthorities"
  BY <1>1, <1>6, BuildIs, StepFacts DEF Made, TransactionOK
<1>7. CASE Step \in AuthorityTypes
  BY <1>1, <1>7, BuildIs, StepFacts DEF Made, SessionIs, TransactionOK
<1>. QED BY <1>2, <1>3, <1>4, <1>5, <1>6, <1>7

\* A transaction of an earlier run that lands late leaves the running task as
\* it was.
LEMMA LateKeeps ==
    ASSUME ChainInv, SessionInv, NEW tx \in in_flight, TransactionOK(tx), Lands(tx),
           UNCHANGED <<minters, file, session, in_flight>>
    PROVE  SessionInv'
<1>. SUFFICES ASSUME Running
              PROVE  SessionIs' /\ YetToMake' /\ Made' /\ TxOfStep'
  BY DEF SessionInv, Running
<1>1. /\ SessionIs /\ YetToMake /\ Made /\ TxOfStep /\ Somewhere
  BY StepIsTodo DEF SessionInv
<1>2. /\ Grows
      /\ \A escrow, k : CanMint(escrow, k) => CanMint(escrow, k)'
      /\ \A t : TransactionOK(t) => TransactionOK(t)'
  BY Landed, GrowthKeeps
<1>3. /\ \A name : Todo(name)' = Todo(name) /\ Did(name)' = Did(name)
      /\ TheMint' = TheMint /\ Step' = Step
  BY DEF Todo, Did, TheMint, Step
<1>4. SessionIs'
  BY <1>1, <1>2 DEF SessionIs, Grows
<1>5. YetToMake'
  <2>1. ASSUME Todo("multisig") PROVE session.multisig \notin DOMAIN multisigs'
    BY <1>1, <2>1, Landed DEF YetToMake
  <2>2. ASSUME Todo("token") PROVE session.escrow \notin DOMAIN mints'
    BY <1>1, <2>2, Landed DEF YetToMake
  <2>3. ASSUME Todo("initOft") PROVE session.escrow \notin DOMAIN stores'
    BY <1>1, <2>3, Landed DEF YetToMake
  <2>. QED BY <1>1, <1>3, <2>1, <2>2, <2>3 DEF YetToMake
<1>6. Made'
  <2>1. (session.task = "create" /\ session.escrow \in DOMAIN mints)
          => mints'[session.escrow] = mints[session.escrow]
    BY <1>1, Landed DEF YetToMake
  <2>2. Did("token") \/ Did("setAuthorities") => session.task = "create"
    BY <1>1, TaskFacts
  <2>3. Did("setAuthorities") => session.escrow \in DOMAIN mints
    <3>1. Did("setAuthorities") => Did("token")
      BY <1>1, DoneBefore
    <3>. QED BY <1>1, <3>1 DEF Made
  <2>. QED BY <1>1, <1>2, <1>3, <2>1, <2>2, <2>3 DEF Made, Grows
<1>7. TxOfStep'
  <2>1. ASSUME Step \notin AuthorityTypes, IsTx(Step) PROVE BuildTx' = BuildTx
    <3>1. Step \in {"multisig", "token", "initOft", "setAuthorities"}
      BY <1>1, <2>1, StepFacts DEF IsTx
    <3>. QED BY <1>3, <3>1 DEF BuildTx, setAuthorities
  <2>. QED BY <1>1, <1>2, <1>3, <2>1 DEF TxOfStep
<1>. QED BY <1>4, <1>5, <1>6, <1>7

-----------------------------------------------------------------------------
(* A task begins.                                                          *)

\* Keys that are fresh name nothing there is.
LEMMA Fresh ==
    /\ FreshRuns # {} => Least(FreshRuns) \in FreshRuns
    /\ FreshMultisigs # {} => Least(FreshMultisigs) \in FreshMultisigs
<1>1. FreshRuns \subseteq Nat /\ FreshMultisigs \subseteq Nat
  BY OFTTasksAssumption DEF FreshRuns, FreshMultisigs
<1>. QED BY <1>1, LeastIn

\* What an authority, the file or a transaction names is not dropped.
LEMMA DroppingKeeps ==
    ASSUME ChainInv, \A tx \in in_flight : TransactionOK(tx),
           multisigs' = [k \in DOMAIN multisigs \cap Referred |-> multisigs[k]],
           UNCHANGED <<mints, stores, file, in_flight>>
    PROVE  ChainInv' /\ (\A tx \in in_flight : TransactionOK(tx))'
<1>1. \A escrow : \A k \in Referred : CanMint(escrow, k) => CanMint(escrow, k)'
  BY DEF CanMint
<1>2. \A m \in DOMAIN mints, type \in AuthorityTypes : mints[m][type] \in Referred
  BY DEF Referred
<1>3. \A tx \in in_flight : tx.kind = "authority" => tx.new \in Referred
  BY DEF Referred
<1>4. AuthorityHasAStore'
  <2>. SUFFICES ASSUME NEW m \in DOMAIN mints, NEW type \in AuthorityTypes,
                       mints[m][type] \in Multisigs
                PROVE  \E escrow \in DOMAIN stores :
                         /\ stores[escrow].mint = m
                         /\ mints[m][type] \in DOMAIN multisigs'
                         /\ oftStore(escrow) \in multisigs'[mints[m][type]].signers
    BY DEF AuthorityHasAStore, CanMint
  <2>1. PICK escrow \in DOMAIN stores :
          stores[escrow].mint = m /\ CanMint(escrow, mints[m][type])
    BY DEF ChainInv, AuthorityHasAStore
  <2>2. /\ mints[m][type] \in DOMAIN multisigs'
        /\ oftStore(escrow) \in multisigs'[mints[m][type]].signers
    BY <1>2, <2>1 DEF CanMint
  <2>. QED BY <2>1, <2>2
<1>5. OFTFileIsTrue'
  <2>. SUFFICES ASSUME file # NoFile
                PROVE  /\ file.escrow \in DOMAIN stores
                       /\ stores[file.escrow].mint = file.mint
                       /\ file.task = "create" =>
                            /\ mints[file.mint]["MintTokens"] \in DOMAIN multisigs'
                            /\ oftStore(file.escrow)
                                 \in multisigs'[mints[file.mint]["MintTokens"]].signers
    BY DEF OFTFileIsTrue, CanMint
  <2>1. /\ file.escrow \in DOMAIN stores /\ stores[file.escrow].mint = file.mint
        /\ file.mint \in DOMAIN mints
        /\ file.task = "create" => CanMint(file.escrow, mints[file.mint]["MintTokens"])
    BY DEF ChainInv, OFTFileIsTrue
  <2>2. mints[file.mint]["MintTokens"] \in Referred
    BY <1>2, <2>1 DEF AuthorityTypes
  <2>. QED BY <2>1, <2>2 DEF CanMint
<1>6. ChainInv'
  BY <1>4, <1>5 DEF ChainInv
<1>7. ASSUME NEW tx \in in_flight PROVE TransactionOK(tx)'
  BY <1>1, <1>3, <1>7 DEF TransactionOK
<1>. QED BY <1>6, <1>7

LEMMA BeginKeeps ==
    ASSUME TasksInv,
           NEW task \in Tasks, NEW mint, NEW escrow \in Runs, NEW multisig,
           task # "setauthority" => escrow \in FreshRuns,
           task # "adapter" => multisig \in FreshMultisigs,
           task \in {"maba", "adapter"} => mint = Order,
           task = "setauthority" =>
             escrow \in DOMAIN stores /\ stores[escrow].mint = mint,
           Begin(task, mint, escrow, multisig)
    PROVE  TasksInv'
<1>1. /\ session' = [task |-> task, step |-> 1, mint |-> mint, escrow |-> escrow,
                     multisig |-> multisig, tx |-> NoTx]
      /\ multisigs' = [k \in DOMAIN multisigs \cap Referred |-> multisigs[k]]
      /\ UNCHANGED <<minters, mints, stores, file, in_flight>>
  BY DEF Begin
<1>2. ChainInv' /\ (\A tx \in in_flight : TransactionOK(tx))'
  BY <1>1, DroppingKeeps DEF TasksInv
<1>3. /\ session'.task = task /\ session'.step = 1 /\ session'.mint = mint
      /\ session'.escrow = escrow /\ session'.multisig = multisig
      /\ session'.tx = NoTx
      /\ session' = [task |-> session'.task, step |-> session'.step,
                     mint |-> session'.mint, escrow |-> session'.escrow,
                     multisig |-> session'.multisig, tx |-> session'.tx]
  BY <1>1
<1>4. /\ Len(StepsOf(task)) \in Nat \ {0}
      /\ DOMAIN StepsOf(task) = 1..Len(StepsOf(task))
  BY StepDomain
<1>5. SessionIs'
  <2>1. 1 \in DOMAIN StepsOf(task)
    BY <1>4, SMT
  <2>. QED BY <1>1, <1>3, <2>1 DEF SessionIs
<1>6. \A name : ~Did(name)'
  <2>1. \A i \in DOMAIN StepsOf(task) : ~(i < 1)
    BY <1>4, SMT
  <2>. QED BY <1>3, <2>1 DEF Did
<1>7. Made'
  BY <1>6 DEF Made
<1>8. /\ Todo("multisig")' => task # "adapter"
      /\ Todo("token")' \/ Todo("initOft")' => task # "setauthority"
  <2>1. CASE task = "adapter"
    BY <1>3, <2>1, Tables, SMT DEF Todo
  <2>2. CASE task = "setauthority"
    BY <1>3, <2>2, Tables, SMT DEF Todo
  <2>. QED BY <2>1, <2>2
<1>9. multisig \in FreshMultisigs =>
        /\ multisig \in Multisigs \ DOMAIN multisigs'
        /\ \A tx \in in_flight : tx.kind = "multisig" => tx.key # multisig
  BY <1>1 DEF FreshMultisigs, Referred
<1>10. escrow \in FreshRuns =>
         /\ escrow \notin DOMAIN mints /\ escrow \notin DOMAIN stores
         /\ \A tx \in in_flight : /\ tx.kind = "token" => tx.mint # escrow
                                  /\ tx.kind = "initOft" => tx.escrow # escrow
  BY DEF FreshRuns
<1>11. \A tx \in in_flight : tx.kind = "authority" => tx.mint \in DOMAIN mints
  BY DEF TasksInv, ChainInv, TransactionOK
<1>12. YetToMake'
  BY <1>1, <1>3, <1>8, <1>9, <1>10, <1>11 DEF YetToMake
<1>13. TxOfStep'
  BY <1>3 DEF TxOfStep
<1>. QED BY <1>2, <1>5, <1>7, <1>12, <1>13 DEF TasksInv, SessionInv

-----------------------------------------------------------------------------
(* The invariant.                                                          *)

LEMMA InitTasks == Init => TasksInv
<1>. SUFFICES ASSUME Init PROVE TasksInv
  OBVIOUS
<1>1. PICK freeze \in {Wallet, NoOne} :
        mints = [m \in {Order} |-> [type \in AuthorityTypes |->
                    IF type = "MintTokens" THEN Wallet ELSE freeze]]
  BY DEF Init
<1>2. DOMAIN mints = {Order}
      /\ \A m \in DOMAIN mints, type \in AuthorityTypes :
            mints[m][type] \in {Wallet, NoOne}
  BY <1>1
<1>3. DOMAIN stores = {} /\ file = NoFile /\ session = Idle /\ in_flight = {}
  BY DEF Init
<1>4. AuthorityHasAStore
  BY <1>2, OFTTasksAssumption DEF AuthorityHasAStore
<1>. QED BY <1>2, <1>3, <1>4
         DEF TasksInv, ChainInv, SessionInv, Running, OFTFileIsTrue

LEMMA CreateKeeps == TasksInv /\ Create => TasksInv'
<1>. SUFFICES ASSUME TasksInv, Create PROVE TasksInv'
  OBVIOUS
<1>1. /\ Least(FreshRuns) \in FreshRuns /\ Least(FreshRuns) \in Runs
      /\ Least(FreshMultisigs) \in FreshMultisigs
      /\ Begin("create", NoOne, Least(FreshRuns), Least(FreshMultisigs))
  BY Fresh DEF Create, FreshRuns
<1>. QED BY <1>1, BeginKeeps DEF Tasks

LEMMA CreateMABAKeeps == TasksInv /\ CreateMABA => TasksInv'
<1>. SUFFICES ASSUME TasksInv, CreateMABA PROVE TasksInv'
  OBVIOUS
<1>1. /\ Least(FreshRuns) \in FreshRuns /\ Least(FreshRuns) \in Runs
      /\ Least(FreshMultisigs) \in FreshMultisigs
      /\ Begin("maba", Order, Least(FreshRuns), Least(FreshMultisigs))
  BY Fresh DEF CreateMABA, FreshRuns
<1>. QED BY <1>1, BeginKeeps DEF Tasks

LEMMA CreateAdapterKeeps == TasksInv /\ CreateAdapter => TasksInv'
<1>. SUFFICES ASSUME TasksInv, CreateAdapter PROVE TasksInv'
  OBVIOUS
<1>1. /\ Least(FreshRuns) \in FreshRuns /\ Least(FreshRuns) \in Runs
      /\ Begin("adapter", Order, Least(FreshRuns), mints[Order]["MintTokens"])
  BY Fresh DEF CreateAdapter, FreshRuns
<1>. QED BY <1>1, BeginKeeps DEF Tasks

LEMMA SetAuthorityKeeps ==
    ASSUME TasksInv, NEW escrow \in Runs, SetAuthority(escrow)
    PROVE  TasksInv'
<1>1. /\ escrow \in DOMAIN stores
      /\ Least(FreshMultisigs) \in FreshMultisigs
      /\ Begin("setauthority", stores[escrow].mint, escrow, Least(FreshMultisigs))
  BY Fresh DEF SetAuthority
<1>. QED BY <1>1, BeginKeeps DEF Tasks

LEMMA IdleKeeps ==
    ASSUME TasksInv, session' = Idle, UNCHANGED <<mints, multisigs, stores, file>>,
           \A tx \in in_flight' : tx \in in_flight \/ TransactionOK(tx)
    PROVE  TasksInv'
<1>1. ChainInv'
  BY DEF TasksInv, ChainInv, AuthorityHasAStore, OFTFileIsTrue, CanMint
<1>2. \A tx : TransactionOK(tx) => TransactionOK(tx)'
  BY DEF TransactionOK, CanMint
<1>. QED BY <1>1, <1>2 DEF TasksInv, SessionInv, Running

LEMMA PrepareKeeps == TasksInv /\ Prepare => TasksInv'
<1>. SUFFICES ASSUME TasksInv, Prepare PROVE TasksInv'
  OBVIOUS
<1>1. /\ Running /\ session.tx = NoTx /\ IsTx(Step)
      /\ UNCHANGED <<minters, mints, multisigs, stores, file, in_flight>>
      /\ session' = Idle \/ session' = [session EXCEPT !.tx = BuildTx]
  BY DEF Prepare, chainVars
<1>2. CASE session' = Idle
  BY <1>1, <1>2, IdleKeeps
<1>3. CASE session' = [session EXCEPT !.tx = BuildTx]
  <2>1. SessionIs /\ YetToMake /\ Made
    BY <1>1 DEF TasksInv, SessionInv
  <2>2. /\ session'.task = session.task /\ session'.step = session.step
        /\ session'.mint = session.mint /\ session'.escrow = session.escrow
        /\ session'.multisig = session.multisig /\ session'.tx = BuildTx
        /\ session' = [task |-> session'.task, step |-> session'.step,
                       mint |-> session'.mint, escrow |-> session'.escrow,
                       multisig |-> session'.multisig, tx |-> session'.tx]
    BY <1>3, <2>1 DEF SessionIs
  <2>3. /\ \A name : Todo(name)' = Todo(name) /\ Did(name)' = Did(name)
        /\ TheMint' = TheMint /\ Step' = Step
    BY <2>2 DEF Todo, Did, TheMint, Step
  <2>4. BuildTx' = BuildTx
    BY <1>1, <2>2, <2>3 DEF BuildTx, setAuthorities, SetAuthorityTx
  <2>5. SessionIs'
    BY <1>1, <2>1, <2>2 DEF SessionIs
  <2>6. YetToMake'
    BY <1>1, <2>1, <2>2, <2>3 DEF YetToMake
  <2>7. Made'
    BY <1>1, <2>1, <2>2, <2>3 DEF Made, CanMint
  <2>8. ChainInv' /\ \A tx : TransactionOK(tx) => TransactionOK(tx)'
    BY <1>1 DEF TasksInv, ChainInv, AuthorityHasAStore, OFTFileIsTrue, CanMint,
                TransactionOK
  <2>9. TxOfStep'
    BY <1>1, <2>1, <2>2, <2>3, <2>4, <2>8, BuiltIsOK, BuildIs DEF TxOfStep
  <2>. QED BY <1>1, <2>5, <2>6, <2>7, <2>8, <2>9 DEF TasksInv, SessionInv
<1>. QED BY <1>1, <1>2, <1>3

LEMMA ConfirmedKeeps == TasksInv /\ Confirmed => TasksInv'
<1>. SUFFICES ASSUME TasksInv, Confirmed PROVE TasksInv'
  OBVIOUS
<1>1. /\ Lands(session.tx) /\ session.tx # NoTx /\ session' = EndOrNext
      /\ UNCHANGED <<minters, file, in_flight>>
      /\ ChainInv /\ SessionIs /\ YetToMake /\ Made /\ TxOfStep
  BY DEF Confirmed, Sent, TasksInv, SessionInv
<1>2. TransactionOK(session.tx)
  BY <1>1 DEF TxOfStep
<1>3. Grows /\ \A tx : TransactionOK(tx) => TransactionOK(tx)'
  BY <1>1, Landed, GrowthKeeps
<1>4. ChainInv'
  BY <1>1, <1>2, LandingKeeps
<1>5. SessionInv'
  BY <1>1, <1>3, ConfirmedTakes, NextKeeps
<1>. QED BY <1>1, <1>3, <1>4, <1>5 DEF TasksInv

\* A step that leaves the chain as it was.
LEMMA QuietKeeps ==
    ASSUME TasksInv, Running, session' = EndOrNext,
           Step \in {"check", "seen"} \cup AuthorityTypes,
           UNCHANGED <<minters, mints, multisigs, stores, file, in_flight>>
    PROVE  TasksInv'
<1>1. SessionIs /\ YetToMake /\ Made /\ ChainInv
  BY DEF TasksInv, SessionInv
<1>2. Grows /\ StepTaken
  BY DEF Grows, StepTaken, AuthorityTypes
<1>3. SessionInv'
  BY <1>1, <1>2, NextKeeps
<1>4. ChainInv' /\ \A tx : TransactionOK(tx) => TransactionOK(tx)'
  BY <1>1 DEF ChainInv, AuthorityHasAStore, OFTFileIsTrue, CanMint, TransactionOK
<1>. QED BY <1>3, <1>4 DEF TasksInv

LEMMA RejectedKeeps == TasksInv /\ Rejected => TasksInv'
<1>. SUFFICES ASSUME TasksInv, Rejected PROVE TasksInv'
  OBVIOUS
<1>1. /\ Running /\ ~Accepted(session.tx) /\ session.tx # NoTx
      /\ session' = EndOrNext
      /\ UNCHANGED <<minters, mints, multisigs, stores, file, in_flight>>
      /\ ChainInv /\ SessionIs /\ YetToMake /\ Made /\ TxOfStep
  BY DEF Rejected, Sent, TasksInv, SessionInv, chainVars
<1>. QED BY <1>1, RejectedIsAuthority, QuietKeeps

LEMMA GivenUpKeeps == TasksInv /\ GivenUp => TasksInv'
<1>. SUFFICES ASSUME TasksInv, GivenUp PROVE TasksInv'
  OBVIOUS
<1>1. /\ TransactionOK(session.tx) /\ session' = Idle
      /\ in_flight' = in_flight \cup {session.tx}
      /\ UNCHANGED <<mints, multisigs, stores, file>>
  BY DEF GivenUp, Sent, TasksInv, SessionInv, TxOfStep, chainVars
<1>. QED BY <1>1, IdleKeeps

LEMMA CheckKeeps == TasksInv /\ (Check \/ Unseen) => TasksInv'
<1>. SUFFICES ASSUME TasksInv, Check \/ Unseen PROVE TasksInv'
  OBVIOUS
<1>1. /\ Running /\ Step \in {"check", "seen"}
      /\ session' \in {Idle, EndOrNext}
      /\ UNCHANGED <<minters, mints, multisigs, stores, file, in_flight>>
  BY DEF Check, Unseen, chainVars
<1>2. CASE session' = Idle
  BY <1>1, <1>2, IdleKeeps
<1>3. CASE session' = EndOrNext
  BY <1>1, <1>3, QuietKeeps
<1>. QED BY <1>1, <1>2, <1>3

LEMMA outputKeeps == TasksInv /\ output => TasksInv'
<1>. SUFFICES ASSUME TasksInv, output PROVE TasksInv'
  OBVIOUS
<1>1. /\ Step = "output" /\ session' = Idle
      /\ file' = [mint |-> TheMint, mintAuthority |-> session.multisig,
                  escrow |-> session.escrow, task |-> session.task]
      /\ UNCHANGED <<mints, multisigs, stores, in_flight>>
      /\ ChainInv /\ SessionIs /\ Made
  BY DEF output, TasksInv, SessionInv, chainVars
<1>2. /\ Did("initOft")
      /\ session.task = "create" => Did("multisig") /\ Did("setAuthorities")
  BY <1>1, StepIsTodo, StepFacts
<1>3. /\ session.escrow \in DOMAIN stores
      /\ stores[session.escrow].mint = TheMint
      /\ session.task = "create" =>
           /\ TheMint = session.escrow
           /\ CanMint(session.escrow, mints[TheMint]["MintTokens"])
  BY <1>1, <1>2 DEF Made, TheMint
<1>4. OFTFileIsTrue' /\ (file'.task = "create" => file'.mint = file'.escrow)
  BY <1>1, <1>3 DEF OFTFileIsTrue, CanMint
<1>5. ChainInv'
  BY <1>1, <1>4 DEF ChainInv, AuthorityHasAStore, CanMint
<1>6. \A tx : TransactionOK(tx) => TransactionOK(tx)'
  BY <1>1 DEF TransactionOK, CanMint
<1>. QED BY <1>1, <1>5, <1>6 DEF TasksInv, SessionInv, Running

LEMMA LandsLateKeeps ==
    ASSUME TasksInv, NEW tx \in in_flight, LandsLate(tx)
    PROVE  TasksInv'
<1>1. /\ Lands(tx) /\ TransactionOK(tx) /\ ChainInv /\ SessionInv
      /\ UNCHANGED <<minters, file, session, in_flight>>
  BY DEF LandsLate, TasksInv
<1>2. \A t : TransactionOK(t) => TransactionOK(t)'
  BY <1>1, Landed, GrowthKeeps
<1>3. ChainInv' /\ SessionInv'
  BY <1>1, LandingKeeps, LateKeeps
<1>. QED BY <1>1, <1>2, <1>3 DEF TasksInv

\* A transaction that expires, or nothing that happens.
LEMMA ExpiresKeeps ==
    ASSUME TasksInv, in_flight' \subseteq in_flight,
           UNCHANGED <<minters, mints, multisigs, stores, file, session>>
    PROVE  TasksInv'
<1>1. ChainInv' /\ \A tx : TransactionOK(tx) => TransactionOK(tx)'
  BY DEF TasksInv, ChainInv, AuthorityHasAStore, OFTFileIsTrue, CanMint, TransactionOK
<1>2. /\ \A name : Todo(name)' = Todo(name) /\ Did(name)' = Did(name)
      /\ TheMint' = TheMint /\ Step' = Step
  BY DEF Todo, Did, TheMint, Step
<1>3. BuildTx' = BuildTx
  BY <1>2 DEF BuildTx, setAuthorities, SetAuthorityTx
<1>4. ASSUME Running PROVE SessionIs' /\ YetToMake' /\ Made' /\ TxOfStep'
  <2>1. SessionIs /\ YetToMake /\ Made /\ TxOfStep
    BY <1>4 DEF TasksInv, SessionInv
  <2>2. SessionIs' /\ YetToMake'
    BY <1>2, <2>1 DEF SessionIs, YetToMake
  <2>3. Made' /\ TxOfStep'
    BY <1>1, <1>2, <1>3, <2>1 DEF Made, CanMint, TxOfStep
  <2>. QED BY <2>2, <2>3
<1>. QED BY <1>1, <1>4 DEF TasksInv, SessionInv, Running

(* Through every run of the tasks, with whatever transactions land late: what
   the chain, the file, the running task and the transactions in flight say of
   one another.  It is inductive, which neither property below is alone. *)
THEOREM TasksStayInOrder == Spec => []TasksInv
<1>1. TasksInv /\ [Next]_vars => TasksInv'
  <2>. SUFFICES ASSUME TasksInv, [Next]_vars PROVE TasksInv'
    OBVIOUS
  <2>1. CASE Create \/ CreateMABA \/ CreateAdapter
    BY <2>1, CreateKeeps, CreateMABAKeeps, CreateAdapterKeeps
  <2>2. CASE \E escrow \in Runs : SetAuthority(escrow)
    BY <2>2, SetAuthorityKeeps
  <2>3. CASE Prepare \/ Confirmed \/ Rejected \/ GivenUp
    BY <2>3, PrepareKeeps, ConfirmedKeeps, RejectedKeeps, GivenUpKeeps
  <2>4. CASE Check \/ Unseen \/ output
    BY <2>4, CheckKeeps, outputKeeps
  <2>5. ASSUME NEW tx \in in_flight, LandsLate(tx) PROVE TasksInv'
    BY <2>5, LandsLateKeeps
  <2>6. ASSUME NEW tx \in in_flight, Expires(tx) PROVE TasksInv'
    <3>1. /\ in_flight' \subseteq in_flight
          /\ UNCHANGED <<minters, mints, multisigs, stores, file, session>>
      BY <2>6 DEF Expires, chainVars
    <3>. QED BY <3>1, ExpiresKeeps
  <2>7. CASE UNCHANGED vars
    <3>1. /\ in_flight' \subseteq in_flight
          /\ UNCHANGED <<minters, mints, multisigs, stores, file, session>>
      BY <2>7 DEF vars, chainVars
    <3>. QED BY <3>1, ExpiresKeeps
  <2>. QED BY <2>1, <2>2, <2>3, <2>4, <2>5, <2>6, <2>7 DEF Next
<1>. QED BY InitTasks, <1>1, PTL DEF Spec

(* Wherever create or setauthority stops, and whatever it sent lands late, no
   authority of a token has been given to a multisig without a store of that
   token among its signers. *)
THEOREM AuthoritiesAlwaysHaveStores == Spec => []AuthorityHasAStore
<1>1. TasksInv => AuthorityHasAStore
  BY DEF TasksInv, ChainInv
<1>. QED BY <1>1, TasksStayInOrder, PTL

(* OFT.json names a store that exists, for the token it names; the token of
   create can be minted by it, whatever setauthority does to it later. *)
THEOREM OFTFileStaysTrue == Spec => []OFTFileIsTrue
<1>1. TasksInv => OFTFileIsTrue
  BY DEF TasksInv, ChainInv
<1>. QED BY <1>1, TasksStayInOrder, PTL

=============================================================================
