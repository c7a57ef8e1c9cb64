----------------------------- MODULE OFTAmounts -----------------------------
(***************************************************************************)
(* The arithmetic of the OFT program: what of an amount is taken, what is  *)
(* kept as a fee, what the other chain is told, and what a Token-2022 mint *)
(* with transfer fees withholds.  Amounts are local decimals (ld) or       *)
(* shared decimals (sd).                                                   *)
(***************************************************************************)
EXTENDS RateLimiter

CONSTANTS
    ld2sd_rate,           \* 10^(decimals - shared_decimals)
    ONE_IN_BASIS_POINTS,  \* 10000, scaled down
    DUST,                 \* 10^8, wire decimals per shared decimal, scaled down
    U128,                 \* 2^128, scaled down
    None                  \* the Option that is not there

ASSUME AmountsAssumption ==
    /\ ld2sd_rate \in Nat \ {0}
    /\ ONE_IN_BASIS_POINTS \in Nat \ {0}
    /\ DUST \in Nat \ {0}
    /\ U128 \in Nat /\ U64 * DUST <= U128
    /\ None \notin Nat

\* A fee rate below one.
Bps == 0..ONE_IN_BASIS_POINTS - 1

\* The transfer fee of the mint; bps = 0 also stands for a mint without one.
TransferFee == [bps : 0..ONE_IN_BASIS_POINTS, maximum_fee : u64]

ld2sd(amount_ld)       == amount_ld \div ld2sd_rate
sd2ld(amount_sd)       == amount_sd * ld2sd_rate
MutKeepDust(amount_ld) == amount_ld
remove_dust(amount_ld) == amount_ld - (amount_ld % ld2sd_rate)

ceil_div(numerator, denominator) ==
    (numerator + denominator - 1) \div denominator

calculate_fee(pre_fee_amount, default_fee_bps, fee_bps) ==
    (pre_fee_amount * (IF fee_bps = None THEN default_fee_bps ELSE fee_bps))
      \div ONE_IN_BASIS_POINTS

\* What the token program withholds of a transfer: rounded up, and capped.
withheld_of(fee, amount) ==
    Lesser(ceil_div(amount * fee.bps, ONE_IN_BASIS_POINTS), fee.maximum_fee)

get_post_fee_amount_ld(fee, amount) == amount - withheld_of(fee, amount)

\* The least amount of which post_fee_amount arrives.
MutRoundedDown(fee, post_fee_amount) ==
    IF fee.bps = 0 \/ post_fee_amount = 0 THEN post_fee_amount
    ELSE IF fee.bps = ONE_IN_BASIS_POINTS THEN post_fee_amount + fee.maximum_fee
    ELSE Lesser((post_fee_amount * ONE_IN_BASIS_POINTS)
                  \div (ONE_IN_BASIS_POINTS - fee.bps),
                post_fee_amount + fee.maximum_fee)
calculate_pre_fee_amount(fee, post_fee_amount) ==
    IF fee.bps = 0 \/ post_fee_amount = 0 THEN post_fee_amount
    ELSE IF fee.bps = ONE_IN_BASIS_POINTS THEN post_fee_amount + fee.maximum_fee
    ELSE Lesser(ceil_div(post_fee_amount * ONE_IN_BASIS_POINTS,
                         ONE_IN_BASIS_POINTS - fee.bps),
                post_fee_amount + fee.maximum_fee)

\* compute_fee_and_adjust_amount of an Adapter: what is taken from the
\* sender, what the receiver is told of, and what is kept.
adapter_amounts(amount_ld, transfer_fee, default_fee_bps, fee_bps) ==
    LET arriving == remove_dust(get_post_fee_amount_ld(transfer_fee, amount_ld))
        oft_fee  == remove_dust(calculate_fee(arriving, default_fee_bps, fee_bps))
    IN [sent     |-> calculate_pre_fee_amount(transfer_fee, arriving),
        received |-> arriving - oft_fee,
        fee      |-> oft_fee]

\* The same of a Native OFT, whose mint withholds nothing.
native_amounts(amount_ld, default_fee_bps, fee_bps) ==
    LET sent    == remove_dust(amount_ld)
        oft_fee == remove_dust(calculate_fee(sent, default_fee_bps, fee_bps))
    IN [sent |-> sent, received |-> sent - oft_fee, fee |-> oft_fee]

\* The transfer fee quote_oft lists among its fee details, if any.
quoted_transfer_fee(amount) ==
    IF amount.received + amount.fee < amount.sent
    THEN amount.sent - amount.fee - amount.received ELSE 0

\* The amount on the wire has more decimals and more bits than a u64.
u64_to_bytes32(amount_sd) == amount_sd * DUST
MutDustRoundedUp(wire)    == ceil_div(wire % U128, DUST) % U64
bytes32_to_u64(wire)      == ((wire % U128) \div DUST) % U64

=============================================================================
