---------------------------- MODULE PayloadTypes ----------------------------
(***************************************************************************)
(* The payload and token codes of the Solana program (msg_codec.rs) and    *)
(* the predicates by which it decides what it sends and what it accepts.   *)
(* A code is the byte that travels in the message.                         *)
(***************************************************************************)
EXTENDS Integers

Byte == 0..255

ORDER             == 0
ESORDER           == 1
USDC              == 2
PLACEHOLDER_TOKEN == 3

TokenTypes == {ORDER, ESORDER, USDC, PLACEHOLDER_TOKEN}

ClaimReward                 == 0
Stake                       == 1
CreateOrderUnstakeRequest   == 2
CancelOrderUnstakeRequest   == 3
WithdrawOrder               == 4
EsOrderUnstakeAndVest       == 5
CancelVestingRequest        == 6
CancelAllVestingRequests    == 7
ClaimVestingRequest         == 8
RedeemValor                 == 9
ClaimUsdcRevenue            == 10
ClaimRewardBackward         == 11
WithdrawOrderBackward       == 12
ClaimVestingRequestBackward == 13
ClaimUsdcRevenueBackward    == 14
UnstakeOrderNow             == 15
ClaimRewardSolana           == 16
PLACEHOLDER                 == 17

PayloadTypes == ClaimReward..PLACEHOLDER

\* The program's reading of a payload byte; an unknown byte is PLACEHOLDER.
from_u8(value) == IF value \in ClaimReward..ClaimRewardSolana
                  THEN value ELSE PLACEHOLDER

\* The program's reading of a token byte; an unknown byte is PLACEHOLDER.
token_from_u8(value) == IF value \in {ORDER, ESORDER, USDC}
                        THEN value ELSE PLACEHOLDER_TOKEN

\* Every message the program sends carries the placeholder token.
get_token_type(payload_type) == PLACEHOLDER_TOKEN

check_claim_payload_type(payload_type) == payload_type = ClaimRewardSolana

check_request_payload_type(payload_type) ==
    payload_type \in {CreateOrderUnstakeRequest, CancelOrderUnstakeRequest,
                      WithdrawOrder, EsOrderUnstakeAndVest,
                      CancelVestingRequest, ClaimVestingRequest, RedeemValor,
                      ClaimUsdcRevenue, UnstakeOrderNow}

MutRequestTypeExpected(payload_type) == payload_type = ClaimUsdcRevenue
check_ledger_payload_type(payload_type) ==
    payload_type = ClaimUsdcRevenueBackward

check_ledger_token_type(token) == token = USDC

=============================================================================
