------------------------------- MODULE Layouts -------------------------------
(***************************************************************************)
(* How the arguments and the accounts of the two Solana programs are laid  *)
(* out: one field after the other, without names, so that an IDL and the   *)
(* program must have the same types in the same order.  An instruction's   *)
(* arguments and an account are named by their type; a field is its name   *)
(* and its type, with the IDL's spelling of names; key is a public key,    *)
(* b32 is [u8; 32], an enum is the sequence of its variants.               *)
(***************************************************************************)
EXTENDS TLC

\* What the proxy program reads and writes (programs/solana-proxy).
RequestParams     == <<"payloadType u8", "payload bytes">>
SubmitProofParams == <<"distributionId u32", "cumulativeAmount b32",
                       "merkleProof vec b32">>
InitProxyParams   == <<"endpointProgram key", "usdcTokenAccount key",
                       "admin key", "orderlyEid u32", "solChainId u32">>
SetBackwardFeeParams == <<"orderBackwardFee u64", "usdcBackwardFee u64">>
SetAccountListParams == <<"usdcTokenAccount key">>
WithdrawFeeParams    == <<"amount u64">>
SetPauseParams       == <<"paused bool">>
SetDelegateParams    == <<"delegate key">>
TransferAdminParams  == <<"newAdmin key">>
SetPeerConfigParams  == <<"remoteEid u32", "config PeerConfigParam">>
PeerConfigParam == <<"PeerAddress b32", "FeeBps opt u16",
                     "EnforcedOptions bytes bytes",
                     "OutboundRateLimit opt RateLimitParams",
                     "InboundRateLimit opt RateLimitParams">>
RateLimitParams == <<"refillPerSecond opt u64", "capacity opt u64">>
LzReceiveParams == <<"srcEid u32", "sender b32", "nonce u64", "guid b32",
                     "message bytes", "extraData bytes">>
MessagingFee    == <<"nativeFee u64", "lzTokenFee u64">>
BackwardFee == <<"bump u8", "orderBackwardFee u64", "usdcBackwardFee u64">>
ClaimData   == <<"bump u8", "distributionId b32", "amount b32", "root b32",
                 "user key">>
PeerConfig  == <<"peerAddress b32", "enforcedOptions EnforcedOptions",
                 "outboundRateLimiter opt RateLimiter",
                 "inboundRateLimiter opt RateLimiter", "feeBps opt u16",
                 "bump u8">>
EnforcedOptions == <<"send bytes", "sendAndCall bytes">>
RateLimiter == <<"capacity u64", "tokens u64", "refillPerSecond u64",
                 "lastRefillTime u64">>
ProxyConfig == <<"bump u8", "endpointProgram key", "usdcTokenAccount key",
                 "admin key", "orderlyEid u32", "solChainId u32",
                 "paused bool">>
LzReceiveTypesAccounts == <<"proxyConfig key", "accountList key">>
AccountList == <<"bump u8", "usdcTokenAccount key">>

ProgramLayouts ==
    [RequestParams |-> RequestParams, SubmitProofParams |-> SubmitProofParams,
     InitProxyParams |-> InitProxyParams,
     SetBackwardFeeParams |-> SetBackwardFeeParams,
     SetAccountListParams |-> SetAccountListParams,
     WithdrawFeeParams |-> WithdrawFeeParams, SetPauseParams |-> SetPauseParams,
     SetDelegateParams |-> SetDelegateParams,
     TransferAdminParams |-> TransferAdminParams,
     SetPeerConfigParams |-> SetPeerConfigParams,
     PeerConfigParam |-> PeerConfigParam, RateLimitParams |-> RateLimitParams,
     LzReceiveParams |-> LzReceiveParams, MessagingFee |-> MessagingFee,
     backwardFee |-> BackwardFee, claimData |-> ClaimData,
     peerConfig |-> PeerConfig, EnforcedOptions |-> EnforcedOptions,
     RateLimiter |-> RateLimiter, proxyConfig |-> ProxyConfig,
     lzReceiveTypesAccounts |-> LzReceiveTypesAccounts,
     accountList |-> AccountList]

-----------------------------------------------------------------------------
\* The committed copy of the proxy's IDL (types/solana_proxy.ts).

IDLAccounts ==
    [backwardFee |-> <<"bump u8", "orderBackwardFee u64",
                       "usdcBackwardFee u64">>,
     claimData   |-> <<"bump u8", "distributionId b32", "amount b32",
                       "root b32", "user key">>,
     peerConfig  |-> <<"peerAddress b32", "enforcedOptions EnforcedOptions",
                       "outboundRateLimiter opt RateLimiter",
                       "inboundRateLimiter opt RateLimiter", "feeBps opt u16",
                       "bump u8">>,
     accountList |-> <<"bump u8", "usdcTokenAccount key">>]

IDLConfigAccounts ==
    [lzReceiveTypesAccounts |-> <<"proxyConfig key">>,
     proxyConfig |-> <<"bump u8", "endpointProgram key",
                       "usdcTokenAccount key", "admin key", "orderlyEid u32",
                       "solChainId u32", "paused bool">>]

IDLMessages ==
    [MessagingFee    |-> <<"nativeFee u64", "lzTokenFee u64">>,
     InitProxyParams |-> <<"endpointProgram key", "usdcTokenAccount key",
                           "admin key", "orderlyEid u32", "solChainId u32">>,
     LzReceiveParams |-> <<"srcEid u32", "sender b32", "nonce u64",
                           "guid b32", "message bytes", "extraData bytes">>]

IDLUserParams ==
    [SubmitProofParams |-> <<"distributionId u32", "cumulativeAmount b32",
                             "merkleProof vec b32">>,
     RequestParams     |-> <<"payloadType u8", "payload bytes">>]

IDLAdminParams ==
    [SetAccountListParams |-> <<"usdcTokenAccount key">>,
     SetBackwardFeeParams |-> <<"orderBackwardFee u64",
                                "usdcBackwardFee u64">>,
     SetDelegateParams    |-> <<"delegate key">>,
     SetPauseParams       |-> <<"paused bool">>]

IDLPeerParams ==
    [PeerConfigParam |-> <<"PeerAddress b32", "FeeBps opt u16",
                           "EnforcedOptions bytes bytes",
                           "OutboundRateLimit opt RateLimitParams",
                           "InboundRateLimit opt RateLimitParams">>,
     RateLimitParams |-> <<"refillPerSecond opt u64", "capacity opt u64">>,
     SetPeerConfigParams |-> <<"remoteEid u32", "config PeerConfigParam">>]

IDLOtherTypes ==
    [TransferAdminParams |-> <<"newAdmin key">>,
     WithdrawFeeParams   |-> <<"amount u64">>,
     EnforcedOptions     |-> <<"send bytes", "sendAndCall bytes">>,
     RateLimiter         |-> <<"capacity u64", "tokens u64",
                               "refillPerSecond u64", "lastRefillTime u64">>]

IDLLayouts == IDLAccounts @@ IDLConfigAccounts @@ IDLMessages @@ IDLUserParams
              @@ IDLAdminParams @@ IDLPeerParams @@ IDLOtherTypes

-----------------------------------------------------------------------------
\* The OFT: what the SDK's encoder writes and the client sends, by the
\* committed IDL (types/oft.ts), and the program.

OFTIDLSend == <<"dstEid u32", "to b32", "amountLd u64", "minAmountLd u64",
                "options bytes", "composeMsg opt bytes", "nativeFee u64",
                "lzTokenFee u64">>
OFTIDLQuoteSend == <<"dstEid u32", "to b32", "amountLd u64",
                     "minAmountLd u64", "options bytes",
                     "composeMsg opt bytes", "payInLzToken bool">>
OFTIDLPeerParams ==
    [PeerConfigParam |-> <<"PeerAddress b32", "FeeBps opt u16",
                           "EnforcedOptions bytes bytes",
                           "OutboundRateLimit opt RateLimitParams",
                           "InboundRateLimit opt RateLimitParams">>,
     RateLimitParams |-> <<"refillPerSecond opt u64", "capacity opt u64">>,
     SetPeerConfigParams |-> <<"remoteEid u32", "config PeerConfigParam">>]

OFTSendParams == <<"dstEid u32", "to b32", "amountLd u64", "minAmountLd u64",
                   "options bytes", "composeMsg opt bytes", "nativeFee u64",
                   "lzTokenFee u64">>
OFTQuoteSendParams == <<"dstEid u32", "to b32", "amountLd u64",
                        "minAmountLd u64", "options bytes",
                        "composeMsg opt bytes", "payInLzToken bool">>

-----------------------------------------------------------------------------

\* The types an instruction's arguments are made of.
ArgumentTypes ==
    [sendRequest |-> {"RequestParams", "MessagingFee"},
     quoteRequest |-> {"RequestParams"}, submitProof |-> {"SubmitProofParams"},
     sendClaim |-> {"MessagingFee"}, quoteClaim |-> {},
     initProxy |-> {"InitProxyParams"},
     setBackwardFee |-> {"SetBackwardFeeParams"},
     withdrawFee |-> {"WithdrawFeeParams"}, setPause |-> {"SetPauseParams"},
     setAccountList |-> {"SetAccountListParams"},
     setPeerConfig |-> {"SetPeerConfigParams", "PeerConfigParam",
                        "RateLimitParams"},
     setDelegate |-> {"SetDelegateParams"},
     transferAdmin |-> {"TransferAdminParams"}]

\* What a client built with layouts writes or reads is what the program means.
Agree(layouts, types) ==
    \A type \in types : /\ type \in DOMAIN layouts
                        /\ layouts[type] = ProgramLayouts[type]

PeerParamsAgree ==
    \A type \in DOMAIN OFTIDLPeerParams :
        OFTIDLPeerParams[type] = ProgramLayouts[type]

StakeParamsAgree == /\ OFTIDLSend = OFTSendParams
                    /\ OFTIDLQuoteSend = OFTQuoteSendParams
=============================================================================
