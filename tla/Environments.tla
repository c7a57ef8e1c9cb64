---------------------------- MODULE Environments ----------------------------
(***************************************************************************)
(* The tables and selectors the deployment tasks and the client read       *)
(* (tasks/proxy/constants.ts, tasks/proxy/utils.ts): for each environment, *)
(* which programs, addresses, endpoint ids, options and libraries it uses. *)
(* A key or an address is a string that starts the way the source's does;  *)
(* Missing is what reading a field a table does not have gives.            *)
(***************************************************************************)
EXTENDS Integers, FiniteSets

Missing == "undefined"

ENV == {"local", "dev", "qa", "staging", "mainnet"}

isDevnet(env)         == env # "mainnet"
getSolanaNetwork(env) == IF isDevnet(env) THEN "soldev" ELSE "solana"
getOrderlyNetwork(env) == IF isDevnet(env) THEN "orderlysepolia" ELSE "orderly"

\* The networks hardhat can be started on, and those the orderly tasks accept.
HardhatNetworks == {"orderlysepolia", "orderly", "hardhat"}
checkOrderlyNetwork(network) == network \in {"orderlysepolia", "orderlymainnet"}

-----------------------------------------------------------------------------
\* Program-derived addresses.  The hash is modelled as collision-free: an
\* address is its program and its seeds.

findProgramAddress(seeds, program) == [program |-> program, seeds |-> seeds]

Uln      == "7a4Wj"   \* the send, the receive and the treasury program

getProxyConfigPda(program)  == findProgramAddress(<<"ProxyConfig">>, program)

-----------------------------------------------------------------------------

PROXY_ACCOUNTS ==
    [env \in ENV |->
        [programId |-> CASE env \in {"local", "dev"} -> "DATLW"
                         [] env = "qa"               -> "2HH2M"
                         [] OTHER                    -> "Dwnm7",
         \* The keys the table writes out: v6RzpFC2... is the address DATLW...
         \* derives, HY978ZaH... is that of neither 2HH2M... nor Dwnm7....
         configPda |-> getProxyConfigPda(IF env \in {"local", "dev"}
                                         THEN "DATLW" ELSE "another program"),
         usdcMint  |-> IF env = "mainnet" THEN "EPjFW" ELSE "4zMMC",
         multisig  |-> CASE env \in {"local", "dev"} -> "AbQgW"
                         [] env = "qa"               -> "2WG7U"
                         [] env = "staging"          -> Missing
                         [] OTHER                    -> "6aQHP"]]

getProxyAccounts(env) == PROXY_ACCOUNTS[env]
getUsdcMint(env)      == PROXY_ACCOUNTS[env].usdcMint

OFT_ACCOUNTS ==
    [env \in ENV |->
        CASE env \in {"local", "dev"} ->
               [programId |-> "Cz7PQ", mint |-> "DW7Mk", escrow |-> "BsePJ",
                oftStore |-> "6oRZ8", alt |-> "9JLjA",
                ledgerOccManger |-> "0xb846", evmOftAddress |-> "0xe2eB"]
          [] env = "qa" ->
               [programId |-> "B2BBh", mint |-> "HJzi8", escrow |-> "85Fsy",
                oftStore |-> Missing, alt |-> "HdLTw",
                ledgerOccManger |-> "0xD14b", evmOftAddress |-> "0x5628"]
          [] env = "staging" ->
               [programId |-> "3LftF", mint |-> "8bgqs", escrow |-> "69q8x",
                oftStore |-> "76XwE", alt |-> "HdLTw",
                ledgerOccManger |-> "0x45f3", evmOftAddress |-> "0x5f11"]
          [] env = "mainnet" ->
               [programId |-> "GZGX6", mint |-> "ABt79", escrow |-> "7PGWT",
                oftStore |-> "Efvf2", alt |-> "HdLTw",
                ledgerOccManger |-> "0x6883", evmOftAddress |-> "0x4E20"]]

getOftAccounts(env) == OFT_ACCOUNTS[env]

\* LEDGER_OAPP_ACCOUNTS: qa, staging and mainnet share one proxy address.
getLedgerOAppAddress(env) ==
    IF env \in {"local", "dev"} THEN "0xdD73" ELSE "0xF2BC"

OPTIONS_TO_ORDERLY ==
    [env \in ENV |->
        [LZ_RECEIVE_GAS   |-> IF env = "mainnet" THEN 500000 ELSE 1000000,
         LZ_RECEIVE_VALUE |-> 0, LZ_COMPOSE_GAS |-> 0, LZ_COMPOSE_VALUE |-> 0]]

OPTIONS_TO_SOLANA ==
    [env \in ENV |->
        [LZ_RECEIVE_GAS   |-> IF env = "mainnet" THEN 500000 ELSE 1000000,
         LZ_RECEIVE_VALUE |-> 0, LZ_COMPOSE_GAS |-> 0, LZ_COMPOSE_VALUE |-> 0]]

\* Named for the network the message leaves from in the parameter's name, for
\* the one it goes to in the tables': the proxy's own options are
\* OPTIONS_TO_SOLANA's.
getOptions(env, localNetwork) ==
    IF localNetwork \in {"soldev", "solana"} THEN OPTIONS_TO_SOLANA[env]
                                             ELSE OPTIONS_TO_ORDERLY[env]

getEncodedOptions(options) ==
    LET receive == <<"lzReceive", options.LZ_RECEIVE_GAS,
                     options.LZ_RECEIVE_VALUE>>
    IN  <<{receive},
          {receive, <<"compose", options.LZ_COMPOSE_GAS,
                      options.LZ_COMPOSE_VALUE>>}>>

\* The orderly networks' tables have no confirmations and no message size.
LZ_CONFIG ==
    [soldev |->
        [endpointId |-> "SOLANA_V2_TESTNET", executor |-> "AwrbH",
         sendLib |-> "2XgGZ", sendDVNs |-> {"4VDjp"}, sendConfirmations |-> 10,
         receiveLib |-> "2XgGZ", receiveDVNs |-> {"4VDjp"},
         receiveConfirmations |-> 1],
     solana |->
        [endpointId |-> "SOLANA_V2_MAINNET", executor |-> "AwrbH",
         sendLib |-> "2XgGZ", sendDVNs |-> {"4VDjp"}, sendConfirmations |-> 32,
         receiveLib |-> "2XgGZ", receiveDVNs |-> {"4VDjp"},
         receiveConfirmations |-> 5],
     orderlysepolia |->
        [endpointId |-> "ORDERLY_V2_TESTNET", executor |-> "0x1e56",
         sendLib |-> "0x8e3D", sendDVNs |-> {"0x175d"},
         receiveLib |-> "0x3013", receiveDVNs |-> {"0x175d"}],
     orderly |->
        [endpointId |-> "ORDERLY_V2_MAINNET", executor |-> "0x1aCe",
         sendLib |-> "0x5B23", sendDVNs |-> {"0xF538"},
         receiveLib |-> "0xCFf0", receiveDVNs |-> {"0xF538"}]]

getLocalLzConfig(network) == LZ_CONFIG[network]

(* Bug: arrays compared by their length. *)
MutSameNumber(dvn1, dvn2) == Cardinality(dvn1) = Cardinality(dvn2)

\* The DVN arrays hold no address twice, so an array is the set of its members.
equalDVNs(dvn1, dvn2) == dvn1 = dvn2

\* set_backward_fee's arguments, the same in every environment.
getBackwardFee == [order |-> 112233, usdc |-> 112234]
=============================================================================
