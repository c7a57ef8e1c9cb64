------------------------------ MODULE OCCTypes ------------------------------
(***************************************************************************)
(* The token and payload codes of contracts/lib/OCCTypes.sol and the two   *)
(* predicates of its PayloadTypeChecker.  They are the ledger side's own:  *)
(* the program's are in PayloadTypes, and nothing but the two agreeing     *)
(* makes the bridge work.                                                  *)
(***************************************************************************)
EXTENDS Integers

uint8 == 0..255

\* enum LedgerToken
ORDER       == 0
ESORDER     == 1
USDC        == 2
PLACEHOLDER == 3
LedgerToken == ORDER..PLACEHOLDER

\* enum PayloadDataType
ClaimReward               == 0
Stake                     == 1
CreateOrderUnstakeRequest == 2
CancelOrderUnstakeRequest == 3
WithdrawOrder             == 4
EsOrderUnstakeAndVest     == 5
CancelVestingRequest      == 6
CancelAllVestingRequests  == 7
ClaimVestingRequest       == 8
RedeemValor               == 9
ClaimUsdcRevenue          == 10
ClaimUsdcRevenueBackward  == 14
UnstakeOrderNow           == 15
ClaimRewardSolana         == 16

MutOldVaultTypes(payloadType) ==
    payloadType \in CreateOrderUnstakeRequest..ClaimUsdcRevenue
checkVaultPayloadType(payloadType) ==
    \/ payloadType \in CreateOrderUnstakeRequest..ClaimUsdcRevenue
    \/ payloadType \in {UnstakeOrderNow, ClaimRewardSolana}

checkLedgerPayloadType(payloadType) == payloadType = ClaimUsdcRevenueBackward

=============================================================================
