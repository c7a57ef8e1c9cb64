----------------------------- MODULE Interfaces -----------------------------
(***************************************************************************)
(* The instructions of the two Solana programs as their parts see them.    *)
(* An account is passed by its place, so four lists must agree: the one    *)
(* the program reads (the #[derive(Accounts)] structs), the one a client   *)
(* is built with (an IDL: target/types is generated from the program,      *)
(* types/solana_proxy.ts and types/oft.ts are committed copies), the names *)
(* a task fills in, and, for a delivery, the list the program itself gives *)
(* the executor.  An account is its name and its flags: s for signer, w    *)
(* for writable.                                                           *)
(***************************************************************************)
EXTENDS Naturals, Sequences, Layouts

R(name)  == <<name, "">>
W(name)  == <<name, "w">>
S(name)  == <<name, "s">>
WS(name) == <<name, "ws">>

Names(accounts) == {accounts[i][1] : i \in DOMAIN accounts}
Flags(accounts) == [i \in DOMAIN accounts |-> accounts[i][2]]

-----------------------------------------------------------------------------
\* What the proxy program reads (programs/solana-proxy).

SendRequest  == <<WS("user"), W("proxyConfig"), R("peerConfig"),
                  R("backwardFee")>>
QuoteRequest == <<S("user"), R("proxyConfig"), R("peerConfig"),
                  R("backwardFee")>>
SubmitProof  == <<WS("user"), R("proxyConfig"), W("claimData"),
                  R("systemProgram")>>
SendClaim    == <<WS("user"), W("claimData"), W("proxyConfig"),
                  R("peerConfig"), R("backwardFee"), R("systemProgram")>>
QuoteClaim   == <<S("user"), R("claimData"), R("proxyConfig"),
                  R("peerConfig"), R("backwardFee")>>
\* event_cpi adds the last two.
LzReceive    == <<WS("payer"), R("proxyConfig"), R("peerConfig"),
                  R("tokenMint"), W("proxyTokenAccount"), R("receiver"),
                  W("receiverTokenAccount"), R("tokenProgram"),
                  R("associatedTokenProgram"), R("systemProgram"),
                  R("eventAuthority"), R("program")>>
LzReceiveTypes == <<R("proxyConfig"), R("accountList")>>
InitProxyAccounts == <<WS("payer"), W("proxyConfig"),
                  W("lzReceiveTypesAccounts"), W("proxyTokenAccount"),
                  R("tokenMint"), R("tokenProgram"),
                  R("associatedTokenProgram"), R("systemProgram")>>
SetBackwardFeeAccounts == <<WS("admin"), R("proxyConfig"), W("backwardFee"),
                  R("systemProgram")>>
WithdrawFee  == <<S("admin"), W("proxyConfig"), W("feeCollector")>>
SetPauseAccounts == <<S("admin"), W("proxyConfig")>>
SetAccountListAccounts == <<WS("admin"), R("proxyConfig"),
                  W("lzReceiveTypes"), W("accountList"), R("systemProgram")>>
SetPeerConfigAccounts == <<WS("admin"), W("peerConfig"), R("proxyConfig"),
                  R("systemProgram")>>
SetDelegate   == <<S("admin"), R("proxyConfig")>>
TransferAdmin == <<S("admin"), W("proxyConfig"), R("systemProgram")>>

\* The IDL anchor generates from them, by the names of lib.rs.
ProxyProgram ==
    [sendRequest |-> SendRequest, quoteRequest |-> QuoteRequest,
     submitProof |-> SubmitProof, sendClaim |-> SendClaim,
     quoteClaim |-> QuoteClaim, lzReceive |-> LzReceive,
     lzReceiveTypes |-> LzReceiveTypes, initProxy |-> InitProxyAccounts,
     setBackwardFee |-> SetBackwardFeeAccounts, withdrawFee |-> WithdrawFee,
     setPause |-> SetPauseAccounts, setAccountList |-> SetAccountListAccounts,
     setPeerConfig |-> SetPeerConfigAccounts, setDelegate |-> SetDelegate,
     transferAdmin |-> TransferAdmin]

\* LzReceiveTypes::apply: the accounts the executor is told to deliver with,
\* each with its flags, before those the endpoint's clear needs.
ReceiveList == <<WS("payer"), R("proxyConfig"), R("peerConfig"),
                 R("tokenMint"), W("proxyTokenAccount"), R("receiver"),
                 W("receiverTokenAccount"), R("tokenProgram"),
                 R("associatedTokenProgram"), R("systemProgram"),
                 R("eventAuthority"), R("program")>>

-----------------------------------------------------------------------------
\* The committed copy of the proxy's IDL (types/solana_proxy.ts).

IDLRequests ==
    [sendRequest  |-> <<WS("user"), W("proxyConfig"), R("peerConfig"),
                        R("backwardFee")>>,
     quoteRequest |-> <<S("user"), R("proxyConfig"), R("peerConfig"),
                        R("backwardFee")>>,
     submitProof  |-> <<WS("user"), W("claimData"), R("systemProgram")>>]

IDLClaims ==
    [sendClaim  |-> <<WS("user"), W("claimData"), W("proxyConfig"),
                      R("peerConfig"), R("backwardFee"), R("systemProgram")>>,
     quoteClaim |-> <<S("user"), R("claimData"), R("proxyConfig"),
                      R("peerConfig"), R("backwardFee")>>]

IDLDelivery ==
    [lzReceive |-> <<WS("payer"), R("proxyConfig"), R("peerConfig"),
                     R("tokenMint"), W("proxyTokenAccount"), R("receiver"),
                     W("receiverTokenAccount"), R("tokenProgram"),
                     R("eventAuthority"), R("program")>>,
     lzReceiveTypes |-> <<R("proxyConfig")>>]

IDLSetup ==
    [initProxy |-> <<WS("payer"), W("proxyConfig"),
                     W("lzReceiveTypesAccounts"), W("proxyTokenAccount"),
                     R("tokenMint"), R("tokenProgram"),
                     R("associatedTokenProgram"), R("systemProgram")>>,
     setBackwardFee |-> <<WS("admin"), R("proxyConfig"), W("backwardFee"),
                          R("systemProgram")>>]

IDLOperation ==
    [withdrawFee |-> <<S("admin"), W("proxyConfig"), W("feeCollector")>>,
     setPause    |-> <<S("admin"), W("proxyConfig")>>,
     setAccountsList |-> <<WS("admin"), R("proxyConfig"), W("lzReceiveTypes"),
                           W("accountsList"), R("systemProgram")>>]

IDLRoles ==
    [setPeerConfig |-> <<WS("admin"), W("peerConfig"), R("proxyConfig"),
                         R("systemProgram")>>,
     setDelegate   |-> <<S("admin"), R("proxyConfig")>>,
     transferAdmin |-> <<S("admin"), W("proxyConfig"), R("systemProgram")>>]

ProxyIDL == IDLRequests @@ IDLClaims @@ IDLDelivery @@ IDLSetup
            @@ IDLOperation @@ IDLRoles

-----------------------------------------------------------------------------
\* The OFT program: its committed IDL (types/oft.ts), which the client and the
\* LayerZero SDK's encoders use, and what the program reads.

OFTIDLSetup ==
    [initOft |-> <<WS("payer"), W("oftStore"), W("lzReceiveTypesAccounts"),
                   R("tokenMint"), WS("tokenEscrow"), R("tokenProgram"),
                   R("systemProgram")>>,
     setOftConfig  |-> <<S("admin"), W("oftStore")>>,
     setPeerConfig |-> <<WS("admin"), W("peer"), R("oftStore"),
                         R("systemProgram")>>,
     setPause      |-> <<S("signer"), W("oftStore")>>]

OFTIDLTransfer ==
    [withdrawFee |-> <<S("admin"), R("oftStore"), R("tokenMint"),
                       W("tokenEscrow"), W("tokenDest"), R("tokenProgram")>>,
     quoteOft    |-> <<R("oftStore"), R("peer"), R("tokenMint")>>,
     quoteSend   |-> <<R("oftStore"), R("peer"), R("tokenMint")>>,
     send        |-> <<S("signer"), W("peer"), W("oftStore"),
                       W("tokenSource"), W("tokenEscrow"), W("tokenMint"),
                       R("tokenProgram"), R("eventAuthority"), R("program")>>]

OFTIDLDelivery ==
    [lzReceive |-> <<WS("payer"), W("peer"), W("oftStore"), W("tokenEscrow"),
                     R("toAddress"), W("tokenDest"), W("tokenMint"),
                     R("mintAuthority"), R("tokenProgram"),
                     R("associatedTokenProgram"), R("systemProgram"),
                     R("eventAuthority"), R("program")>>,
     lzReceiveTypes |-> <<R("oftStore"), R("tokenMint")>>]

OFTIDL == OFTIDLSetup @@ OFTIDLTransfer @@ OFTIDLDelivery

OFTSend == <<S("signer"), W("peer"), W("oftStore"), W("tokenSource"),
             W("tokenEscrow"), W("tokenMint"), R("tokenProgram"),
             R("eventAuthority"), R("program")>>

-----------------------------------------------------------------------------
\* The accounts the tasks name.

initProxyAccounts == {"payer", "proxyConfig", "lzReceiveTypesAccounts",
                      "proxyTokenAccount", "tokenMint"}
setBackwardFeeNames == {"admin", "proxyConfig", "backwardFee"}
setAccountListNames == {"admin", "proxyConfig", "lzReceiveTypes", "accountList"}
withdrawFeeNames == {"admin", "proxyConfig", "feeCollector"}
setPauseNames == {"admin", "proxyConfig"}
setDelegateNames == {"admin", "proxyConfig"}
transferAdminNames == {"admin", "proxyConfig"}
requestNames == {"user", "peerConfig", "proxyConfig", "backwardFee"}
claimRewardAccounts == {"user", "claimData"}
quoteClaimNames == {"user", "claimData", "proxyConfig", "peerConfig",
                    "backwardFee"}
claimAccounts == {"user", "claimData", "proxyConfig", "peerConfig",
                  "backwardFee"}
oftSendAccounts == {"signer", "peer", "oftStore", "tokenSource", "tokenEscrow",
                    "tokenMint", "tokenProgram", "eventAuthority", "program"}

Named ==
    [initProxy |-> initProxyAccounts, setBackwardFee |-> setBackwardFeeNames,
     setAccountList |-> setAccountListNames, withdrawFee |-> withdrawFeeNames,
     setPause |-> setPauseNames, setDelegate |-> setDelegateNames,
     transferAdmin |-> transferAdminNames, quoteRequest |-> requestNames,
     sendRequest |-> requestNames, submitProof |-> claimRewardAccounts,
     quoteClaim |-> quoteClaimNames, sendClaim |-> claimAccounts]

\* Accounts anchor's client fills in by itself (Anchor.toml's seeds = false
\* leaves the program-derived addresses out of the IDL).
Resolved == {"systemProgram", "tokenProgram", "associatedTokenProgram", "rent"}

\* A client built with idl can encode the instruction, and the program reads
\* it as it was meant.
Builds(idl, instruction) ==
    /\ instruction \in DOMAIN idl
    /\ Names(idl[instruction]) \subseteq Named[instruction] \cup Resolved

Reads(idl, layouts, instruction) ==
    /\ instruction \in DOMAIN ProxyProgram
    /\ idl[instruction] = ProxyProgram[instruction]
    /\ Agree(layouts, ArgumentTypes[instruction])

\* sol:proxy:setpeer has the OFT's encoder write the proxy's setPeerConfig: the
\* names of the accounts differ, their flags, the instruction's name and its
\* arguments must not.
PeerEncoderReads ==
    /\ Flags(OFTIDL.setPeerConfig) = Flags(ProxyProgram.setPeerConfig)
    /\ PeerParamsAgree

StakeReads == /\ Names(OFTIDL.send) \subseteq oftSendAccounts
              /\ OFTIDL.send = OFTSend
              /\ StakeParamsAgree
=============================================================================
