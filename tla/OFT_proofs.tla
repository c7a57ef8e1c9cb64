----------------------------- MODULE OFT_proofs -----------------------------
(***************************************************************************)
(* Proofs about OFT for all sets of users, keys, peers and packets, all    *)
(* fees, limits and amounts that OFTAssumption allows.                     *)
(***************************************************************************)
EXTENDS OFTMesh, Sums

-----------------------------------------------------------------------------
(* Division.                                                               *)

\* Integer division is the floor.
LEMMA Division ==
    ASSUME NEW a \in Nat, NEW b \in Nat \ {0}
    PROVE  /\ a \div b \in Nat
           /\ a % b \in Nat
           /\ a % b < b
           /\ a = b * (a \div b) + (a % b)
  BY SMT

\* The floor is the only integer within one below.
LEMMA FloorIsUnique ==
    ASSUME NEW a \in Nat, NEW b \in Nat \ {0}, NEW q \in Nat,
           b * q <= a, a < b * q + b
    PROVE  a \div b = q
<1>1. /\ a \div b \in Nat
      /\ b * (a \div b) <= a
      /\ a < b * (a \div b) + b
  BY Division
<1>2. ASSUME NEW x \in Nat, NEW y \in Nat, x < y,
             b * y <= a, a < b * x + b
      PROVE  FALSE
  <2>1. b * (x + 1) <= b * y
    BY <1>2, SMT
  <2>2. b * (x + 1) = b * x + b
    BY SMT
  <2>. QED BY <1>2, <2>1, <2>2, SMT
<1>3. a \div b < q \/ a \div b = q \/ q < a \div b
  BY <1>1, SMT
<1>4. ~(a \div b < q)
  BY <1>1, <1>2
<1>5. ~(q < a \div b)
  BY <1>1, <1>2
<1>. QED BY <1>3, <1>4, <1>5

-----------------------------------------------------------------------------
(* Rounding up.                                                            *)

LEMMA CeilBounds ==
    ASSUME NEW n \in Nat, NEW d \in Nat \ {0}
    PROVE  /\ ceil_div(n, d) \in Nat
           /\ n <= d * ceil_div(n, d)
           /\ d * ceil_div(n, d) < n + d
<1>. DEFINE m == n + d - 1
            q == m \div d
<1>1. m \in Nat
  BY SMT
<1>2. /\ q \in Nat
      /\ d * q <= m
      /\ m < d * q + d
  BY <1>1, Division, SMT
<1>3. ceil_div(n, d) = q
  BY DEF ceil_div
<1>4. d * q \in Nat
  BY <1>2, SMT
<1>. HIDE DEF q
<1>. QED BY <1>2, <1>3, <1>4, SMT

\* Rounded up, a quotient is the least integer not below it.
LEMMA CeilIsLeast ==
    ASSUME NEW n \in Nat, NEW d \in Nat \ {0}, NEW k \in Nat, n <= d * k
    PROVE  ceil_div(n, d) <= k
<1>. DEFINE q == ceil_div(n, d)
<1>1. q \in Nat /\ d * q < n + d
  BY CeilBounds
<1>. HIDE DEF q
<1>2. SUFFICES ASSUME k + 1 <= q PROVE FALSE
  BY <1>1, SMT DEF q
<1>3. d * (k + 1) <= d * q
  BY <1>1, <1>2, SMT
<1>4. d * (k + 1) = d * k + d
  BY SMT
<1>. QED BY <1>1, <1>3, <1>4, SMT

LEMMA CeilIsAbove ==
    ASSUME NEW n \in Nat, NEW d \in Nat \ {0}, NEW k \in Nat, d * k < n
    PROVE  k < ceil_div(n, d)
<1>. DEFINE q == ceil_div(n, d)
<1>1. q \in Nat /\ n <= d * q
  BY CeilBounds
<1>. HIDE DEF q
<1>2. SUFFICES ASSUME q <= k PROVE FALSE
  BY <1>1, SMT DEF q
<1>3. d * q <= d * k
  BY <1>1, <1>2, SMT
<1>. QED BY <1>1, <1>3, SMT

-----------------------------------------------------------------------------
(* Decimals.                                                               *)

LEMMA WholeShared ==
    ASSUME NEW k \in Nat
    PROVE  ld2sd(ld2sd_rate * k) = k /\ sd2ld(k) = ld2sd_rate * k
<1>1. ld2sd_rate \in Nat \ {0}
  BY AmountsAssumption
<1>2. ld2sd_rate * k \in Nat /\ ld2sd_rate * k < ld2sd_rate * k + ld2sd_rate
  BY <1>1, SMT
<1>3. (ld2sd_rate * k) \div ld2sd_rate = k
  BY <1>1, <1>2, FloorIsUnique, SMT
<1>. QED BY <1>1, <1>3, SMT DEF ld2sd, sd2ld

\* What is left without dust is so many shared decimals.
LEMMA Dusted ==
    ASSUME NEW a \in Nat
    PROVE  /\ a \div ld2sd_rate \in Nat
           /\ remove_dust(a) = ld2sd_rate * (a \div ld2sd_rate)
           /\ remove_dust(a) \in Nat
           /\ remove_dust(a) <= a
<1>1. ld2sd_rate \in Nat \ {0}
  BY AmountsAssumption
<1>. DEFINE q == a \div ld2sd_rate
            r == a % ld2sd_rate
<1>2. q \in Nat /\ r \in Nat /\ a = ld2sd_rate * q + r
  BY <1>1, Division
<1>3. remove_dust(a) = a - r
  BY DEF remove_dust
<1>4. ld2sd_rate * q \in Nat
  BY <1>1, <1>2, SMT
<1>. HIDE DEF q, r
<1>5. remove_dust(a) = ld2sd_rate * q /\ ld2sd_rate * q <= a
  BY <1>2, <1>3, <1>4, SMT
<1>. QED BY <1>2, <1>4, <1>5 DEF q

\* A difference of two amounts without dust has none.
LEMMA DustFree ==
    ASSUME NEW x \in Nat, NEW y \in Nat, y <= x,
           NEW j \in Nat, x = ld2sd_rate * j, NEW k \in Nat, y = ld2sd_rate * k
    PROVE  sd2ld(ld2sd(x - y)) = x - y
<1>1. ld2sd_rate \in Nat \ {0}
  BY AmountsAssumption
<1>2. k <= j
  <2>1. SUFFICES ASSUME j + 1 <= k PROVE FALSE
    BY SMT
  <2>2. ld2sd_rate * (j + 1) <= ld2sd_rate * k
    BY <1>1, <2>1, SMT
  <2>3. ld2sd_rate * (j + 1) = ld2sd_rate * j + ld2sd_rate
    BY <1>1, SMT
  <2>. QED BY <1>1, <2>2, <2>3, SMT
<1>3. j - k \in Nat /\ ld2sd_rate * (j - k) = x - y
  BY <1>1, <1>2, SMT
<1>. QED BY <1>3, WholeShared

\* A fee rate below one takes no more than there is.
LEMMA FeeBound ==
    ASSUME NEW a \in Nat, NEW default_bps \in Bps, NEW bps \in Bps \cup {None}
    PROVE  /\ calculate_fee(a, default_bps, bps) \in Nat
           /\ calculate_fee(a, default_bps, bps) <= a
<1>. DEFINE f == IF bps = None THEN default_bps ELSE bps
            q == (a * f) \div ONE_IN_BASIS_POINTS
<1>1. ONE_IN_BASIS_POINTS \in Nat \ {0}
  BY AmountsAssumption
<1>2. f \in Nat /\ f < ONE_IN_BASIS_POINTS
  BY <1>1 DEF Bps
<1>. HIDE DEF f
<1>3. a * f \in Nat /\ a * f <= a * ONE_IN_BASIS_POINTS
  BY <1>1, <1>2, SMT
<1>4. q \in Nat /\ ONE_IN_BASIS_POINTS * q <= a * f
  BY <1>1, <1>3, Division
<1>5. calculate_fee(a, default_bps, bps) = q
  BY DEF calculate_fee, f
<1>. HIDE DEF q
<1>6. q <= a
  <2>1. SUFFICES ASSUME a + 1 <= q PROVE FALSE
    BY <1>4, SMT
  <2>2. ONE_IN_BASIS_POINTS * (a + 1) <= ONE_IN_BASIS_POINTS * q
    BY <1>1, <1>4, <2>1, SMT
  <2>3. ONE_IN_BASIS_POINTS * (a + 1) = a * ONE_IN_BASIS_POINTS + ONE_IN_BASIS_POINTS
    BY <1>1, SMT
  <2>4. a * ONE_IN_BASIS_POINTS \in Nat /\ ONE_IN_BASIS_POINTS * q \in Nat
    BY <1>1, <1>4, SMT
  <2>. QED BY <1>1, <1>3, <1>4, <2>2, <2>3, <2>4, SMT
<1>. QED BY <1>4, <1>5, <1>6

-----------------------------------------------------------------------------
(* Transfer fees.                                                          *)

LEMMA WithheldBound ==
    ASSUME NEW fee \in TransferFee, NEW a \in Nat
    PROVE  /\ withheld_of(fee, a) \in Nat
           /\ withheld_of(fee, a) <= a
           /\ get_post_fee_amount_ld(fee, a) \in Nat
           /\ get_post_fee_amount_ld(fee, a) <= a
           /\ a = get_post_fee_amount_ld(fee, a) + withheld_of(fee, a)
<1>. DEFINE f == fee.bps
            c == ceil_div(a * f, ONE_IN_BASIS_POINTS)
<1>1. /\ ONE_IN_BASIS_POINTS \in Nat \ {0}
      /\ f \in Nat /\ f <= ONE_IN_BASIS_POINTS
      /\ fee.maximum_fee \in Nat
  BY AmountsAssumption, WidthAssumption, SMT DEF TransferFee, u64
<1>. HIDE DEF f
<1>2. a * f \in Nat /\ a * f <= ONE_IN_BASIS_POINTS * a
  BY <1>1, SMT
<1>3. c \in Nat /\ c <= a
  BY <1>1, <1>2, CeilBounds, CeilIsLeast
<1>4. withheld_of(fee, a) = IF c <= fee.maximum_fee THEN c ELSE fee.maximum_fee
  BY DEF withheld_of, Lesser, f
<1>. HIDE DEF c
<1>5. withheld_of(fee, a) \in Nat /\ withheld_of(fee, a) <= a
  BY <1>1, <1>3, <1>4, SMT
<1>. QED BY <1>5, SMT DEF get_post_fee_amount_ld

\* The least amount to send so that x arrives, uncapped: what rounding up the
\* inverse adds is what rounding up the fee takes.
LEMMA RoundingsMeet ==
    ASSUME NEW x \in Nat, NEW f \in Nat, f < ONE_IN_BASIS_POINTS,
           NEW p \in Nat,
           p = ceil_div(x * ONE_IN_BASIS_POINTS, ONE_IN_BASIS_POINTS - f)
    PROVE  /\ x <= p
           /\ ceil_div(p * f, ONE_IN_BASIS_POINTS) = p - x
<1>. DEFINE B == ONE_IN_BASIS_POINTS
            d == B - f
<1>1. B \in Nat \ {0} /\ d \in Nat \ {0}
  BY AmountsAssumption, SMT
<1>2. x * B \in Nat /\ x * B <= d * p /\ d * p < x * B + d
  BY <1>1, CeilBounds, SMT
<1>3. d * p = B * p - p * f
  BY <1>1, SMT
<1>4. B * p \in Nat /\ p * f \in Nat /\ x * B = B * x
  BY <1>1, SMT
<1>. HIDE DEF B, d
<1>5. x <= p
  <2>1. SUFFICES ASSUME p + 1 <= x PROVE FALSE
    BY SMT
  <2>2. B * (p + 1) <= B * x
    BY <1>1, <2>1, SMT
  <2>3. B * (p + 1) = B * p + B
    BY <1>1, SMT
  <2>. QED BY <1>1, <1>2, <1>3, <1>4, <2>2, <2>3, SMT
<1>6. p - x \in Nat /\ B * (p - x) = B * p - B * x
  BY <1>1, <1>5, SMT
<1>7. p * f <= B * (p - x)
  BY <1>2, <1>3, <1>4, <1>6, SMT
<1>. DEFINE c == ceil_div(p * f, B)
<1>8. c \in Nat /\ c <= p - x /\ p * f <= B * c
  BY <1>1, <1>4, <1>6, <1>7, CeilIsLeast, CeilBounds
<1>. HIDE DEF c
<1>9. p - x <= c
  <2>1. SUFFICES ASSUME c <= p - x - 1 PROVE FALSE
    BY <1>6, <1>8, SMT
  <2>2. B * c <= B * (p - x - 1)
    BY <1>1, <1>6, <1>8, <2>1, SMT
  <2>3. B * (p - x - 1) = B * (p - x) - B
    BY <1>1, <1>6, SMT
  <2>4. B * c \in Nat
    BY <1>1, <1>8, SMT
  <2>5. d <= B
    BY <1>1, SMT DEF d, B
  <2>. QED BY <1>1, <1>2, <1>3, <1>4, <1>6, <1>8, <2>2, <2>3, <2>4, <2>5, SMT
<1>10. c = p - x
  BY <1>6, <1>8, <1>9, SMT
<1>. QED BY <1>5, <1>10 DEF c, B

LEMMA CeilOfMultiple ==
    ASSUME NEW k \in Nat, NEW d \in Nat \ {0}
    PROVE  ceil_div(k * d, d) = k
<1>1. k * d \in Nat /\ k * d <= d * k
  BY SMT
<1>2. ceil_div(k * d, d) <= k
  BY <1>1, CeilIsLeast
<1>3. CASE k = 0
  BY <1>1, <1>2, <1>3, CeilBounds, SMT
<1>4. CASE k # 0
  <2>1. k - 1 \in Nat /\ d * (k - 1) < k * d
    BY <1>4, SMT
  <2>2. k - 1 < ceil_div(k * d, d)
    BY <1>1, <2>1, CeilIsAbove
  <2>3. ceil_div(k * d, d) \in Nat
    BY <1>1, CeilBounds
  <2>. QED BY <1>2, <2>1, <2>2, <2>3, SMT
<1>. QED BY <1>3, <1>4

\* Of what calculate_pre_fee_amount says to send, exactly the amount asked for
\* arrives.
THEOREM PreFeeInverts ==
    ASSUME NEW fee \in TransferFee, NEW x \in Nat
    PROVE  /\ calculate_pre_fee_amount(fee, x) \in Nat
           /\ get_post_fee_amount_ld(fee, calculate_pre_fee_amount(fee, x)) = x
<1>. DEFINE B == ONE_IN_BASIS_POINTS
            f == fee.bps
            M == fee.maximum_fee
            pre == calculate_pre_fee_amount(fee, x)
<1>1. B \in Nat \ {0} /\ f \in Nat /\ f <= B /\ M \in Nat
  BY AmountsAssumption, WidthAssumption, SMT DEF TransferFee, u64
<1>2. SUFFICES pre \in Nat /\ Lesser(ceil_div(pre * f, B), M) = pre - x
  BY SMT DEF get_post_fee_amount_ld, withheld_of
<1>3. CASE f = 0 \/ x = 0
  <2>1. pre = x /\ pre * f = 0 * B
    BY <1>1, <1>3, SMT DEF calculate_pre_fee_amount
  <2>2. ceil_div(0 * B, B) = 0
    BY <1>1, CeilOfMultiple
  <2>. QED BY <1>1, <2>1, <2>2, SMT DEF Lesser
<1>4. CASE f # 0 /\ x # 0 /\ f = B
  <2>1. pre = x + M
    BY <1>4 DEF calculate_pre_fee_amount
  <2>2. ceil_div((x + M) * B, B) = x + M
    BY <1>1, CeilOfMultiple, SMT
  <2>. QED BY <1>1, <1>4, <2>1, <2>2, SMT DEF Lesser
<1>5. CASE f # 0 /\ x # 0 /\ f # B
  <2>. DEFINE p == ceil_div(x * B, B - f)
  <2>1. f < B /\ B - f \in Nat \ {0} /\ x * B \in Nat
    BY <1>1, <1>5, SMT
  <2>2. p \in Nat /\ pre = Lesser(p, x + M)
    BY <1>5, <2>1, CeilBounds DEF calculate_pre_fee_amount
  <2>3. x <= p /\ ceil_div(p * f, B) = p - x
    BY <1>1, <2>1, <2>2, RoundingsMeet
  <2>4. (B - f) * (x + M) < x * B \/ p <= x + M
    <3>1. x + M \in Nat /\ (B - f) * (x + M) \in Nat
      BY <1>1, <2>1, SMT
    <3>2. x * B <= (B - f) * (x + M) => p <= x + M
      BY <2>1, <3>1, CeilIsLeast
    <3>. QED BY <2>1, <3>1, <3>2, SMT
  <2>. HIDE DEF p, pre, B, f, M
  <2>5. CASE p <= x + M
    BY <1>1, <2>2, <2>3, <2>5, SMT DEF Lesser
  <2>6. CASE ~(p <= x + M)
    <3>. DEFINE a == x + M
    <3>1. a \in Nat /\ pre = a /\ (B - f) * a < x * B
      BY <1>1, <2>2, <2>4, <2>6, SMT DEF Lesser
    <3>2. (B - f) * a = B * a - a * f /\ x * B = B * x /\ B * a = B * x + B * M
      BY <1>1, SMT
    <3>3. a * f \in Nat /\ B * M \in Nat /\ B * x \in Nat
      BY <1>1, <3>1, SMT
    <3>. HIDE DEF a
    <3>4. B * M < a * f
      BY <3>1, <3>2, <3>3, SMT
    <3>5. M < ceil_div(a * f, B) /\ ceil_div(a * f, B) \in Nat
      BY <1>1, <3>3, <3>4, CeilIsAbove, CeilBounds
    <3>. QED BY <1>1, <3>1, <3>5, SMT DEF Lesser, a
  <2>. QED BY <2>5, <2>6
<1>. QED BY <1>3, <1>4, <1>5

\* No more need be sent for x to arrive than some amount of which x or more
\* would arrive.
THEOREM PreFeeIsLeast ==
    ASSUME NEW fee \in TransferFee, NEW a \in Nat, NEW x \in Nat,
           x <= get_post_fee_amount_ld(fee, a)
    PROVE  calculate_pre_fee_amount(fee, x) <= a
<1>. DEFINE B == ONE_IN_BASIS_POINTS
            f == fee.bps
            M == fee.maximum_fee
            pre == calculate_pre_fee_amount(fee, x)
            c == ceil_div(a * f, B)
<1>1. B \in Nat \ {0} /\ f \in Nat /\ f <= B /\ M \in Nat
  BY AmountsAssumption, WidthAssumption, SMT DEF TransferFee, u64
<1>2. x <= a - Lesser(c, M) /\ x <= a
  BY WithheldBound, SMT DEF get_post_fee_amount_ld, withheld_of
<1>3. c \in Nat /\ a * f <= B * c
  <2>1. a * f \in Nat
    BY <1>1, SMT
  <2>. QED BY <1>1, <2>1, CeilBounds
<1>. SUFFICES pre <= a
  OBVIOUS
<1>4. CASE f = 0 \/ x = 0
  BY <1>2, <1>4 DEF calculate_pre_fee_amount
<1>5. CASE f # 0 /\ x # 0 /\ f = B
  <2>1. pre = x + M
    BY <1>5 DEF calculate_pre_fee_amount
  <2>2. c = a
    BY <1>1, <1>5, CeilOfMultiple
  <2>. HIDE DEF c, pre
  <2>. QED BY <1>1, <1>2, <1>5, <2>1, <2>2, SMT DEF Lesser
<1>6. CASE f # 0 /\ x # 0 /\ f # B
  <2>. DEFINE d == B - f
              p == ceil_div(x * B, d)
  <2>1. d \in Nat \ {0} /\ x * B \in Nat
    BY <1>1, <1>6, SMT
  <2>2. p \in Nat /\ pre = Lesser(p, x + M)
    BY <1>6, <2>1, CeilBounds DEF calculate_pre_fee_amount
  <2>3. p <= a \/ d * a < x * B
    <3>1. d * a \in Nat
      BY <2>1, SMT
    <3>2. x * B <= d * a => p <= a
      BY <2>1, CeilIsLeast
    <3>. QED BY <2>1, <3>1, <3>2, SMT
  <2>4. d * a = B * a - a * f /\ x * B = B * x
    BY <1>1, SMT
  <2>5. B * a \in Nat /\ a * f \in Nat /\ B * x \in Nat
    BY <1>1, SMT
  <2>. HIDE DEF p, pre, c, d, B, f, M
  <2>6. CASE M <= c
    BY <1>1, <1>2, <1>3, <2>2, <2>6, SMT DEF Lesser
  <2>7. CASE c < M
    <3>1. x + c <= a
      BY <1>1, <1>2, <1>3, <2>7, SMT DEF Lesser
    <3>2. B * (x + c) <= B * a
      BY <1>1, <1>3, <3>1, SMT
    <3>3. B * (x + c) = B * x + B * c /\ B * c \in Nat
      BY <1>1, <1>3, SMT
    <3>4. ~(d * a < x * B)
      BY <1>3, <2>4, <2>5, <3>2, <3>3, SMT
    <3>. QED BY <1>1, <2>2, <2>3, <3>4, SMT DEF Lesser
  <2>. QED BY <1>1, <1>3, <2>6, <2>7, SMT
<1>. QED BY <1>4, <1>5, <1>6

-----------------------------------------------------------------------------
(* What a transfer takes, tells and keeps.                                 *)

\* An Adapter takes no more than it is asked to, and what arrives of that is
\* what it tells the other chain of, free of dust, and the fee.
THEOREM AdapterTakes ==
    ASSUME NEW mint_fee \in TransferFee, NEW a \in Nat,
           NEW default_bps \in Bps, NEW bps \in Bps \cup {None}
    PROVE  LET amount == adapter_amounts(a, mint_fee, default_bps, bps) IN
             /\ amount.sent \in Nat /\ amount.sent <= a
             /\ amount.received \in Nat /\ amount.received <= a
             /\ amount.fee \in Nat
             /\ get_post_fee_amount_ld(mint_fee, amount.sent)
                  = amount.received + amount.fee
             /\ sd2ld(ld2sd(amount.received)) = amount.received
<1>. DEFINE post == get_post_fee_amount_ld(mint_fee, a)
            arriving == remove_dust(post)
            charged == calculate_fee(arriving, default_bps, bps)
            oft_fee == remove_dust(charged)
            pre == calculate_pre_fee_amount(mint_fee, arriving)
<1>1. post \in Nat /\ post <= a
  BY WithheldBound
<1>. HIDE DEF post
<1>2. /\ post \div ld2sd_rate \in Nat
      /\ arriving = ld2sd_rate * (post \div ld2sd_rate)
      /\ arriving \in Nat /\ arriving <= post
  BY <1>1, Dusted
<1>. HIDE DEF arriving
<1>3. charged \in Nat /\ charged <= arriving
  BY <1>2, FeeBound
<1>. HIDE DEF charged
<1>4. /\ charged \div ld2sd_rate \in Nat
      /\ oft_fee = ld2sd_rate * (charged \div ld2sd_rate)
      /\ oft_fee \in Nat /\ oft_fee <= charged
  BY <1>3, Dusted
<1>. HIDE DEF oft_fee
<1>5. pre \in Nat /\ get_post_fee_amount_ld(mint_fee, pre) = arriving
  BY <1>2, PreFeeInverts
<1>6. pre <= a
  BY <1>1, <1>2, PreFeeIsLeast DEF post
<1>. HIDE DEF pre
<1>7. sd2ld(ld2sd(arriving - oft_fee)) = arriving - oft_fee
  <2>1. oft_fee <= arriving
    BY <1>2, <1>3, <1>4, SMT
  <2>. QED BY <1>2, <1>4, <2>1, DustFree
<1>8. adapter_amounts(a, mint_fee, default_bps, bps) =
        [sent |-> pre, received |-> arriving - oft_fee, fee |-> oft_fee]
  BY DEF adapter_amounts, pre, oft_fee, charged, arriving, post
<1>. QED BY <1>1, <1>2, <1>3, <1>4, <1>5, <1>6, <1>7, <1>8, SMT

\* The same of a Native OFT.
THEOREM NativeTakes ==
    ASSUME NEW a \in Nat, NEW default_bps \in Bps, NEW bps \in Bps \cup {None}
    PROVE  LET amount == native_amounts(a, default_bps, bps) IN
             /\ amount.sent \in Nat /\ amount.sent <= a
             /\ amount.received \in Nat /\ amount.received <= a
             /\ amount.fee \in Nat
             /\ amount.sent = amount.received + amount.fee
             /\ sd2ld(ld2sd(amount.received)) = amount.received
<1>. DEFINE sent == remove_dust(a)
            charged == calculate_fee(sent, default_bps, bps)
            oft_fee == remove_dust(charged)
<1>1. /\ a \div ld2sd_rate \in Nat
      /\ sent = ld2sd_rate * (a \div ld2sd_rate)
      /\ sent \in Nat /\ sent <= a
  BY Dusted
<1>. HIDE DEF sent
<1>2. charged \in Nat /\ charged <= sent
  BY <1>1, FeeBound
<1>. HIDE DEF charged
<1>3. /\ charged \div ld2sd_rate \in Nat
      /\ oft_fee = ld2sd_rate * (charged \div ld2sd_rate)
      /\ oft_fee \in Nat /\ oft_fee <= charged
  BY <1>2, Dusted
<1>. HIDE DEF oft_fee
<1>4. oft_fee <= sent
  BY <1>1, <1>2, <1>3, SMT
<1>5. sd2ld(ld2sd(sent - oft_fee)) = sent - oft_fee
  BY <1>1, <1>3, <1>4, DustFree
<1>6. native_amounts(a, default_bps, bps) =
        [sent |-> sent, received |-> sent - oft_fee, fee |-> oft_fee]
  BY DEF native_amounts, oft_fee, charged, sent
<1>. QED BY <1>1, <1>3, <1>4, <1>5, <1>6, SMT

\* An amount of 64 bits survives the wire.
THEOREM WireKeeps ==
    ASSUME NEW a \in u64
    PROVE  /\ u64_to_bytes32(a) \in Nat
           /\ bytes32_to_u64(u64_to_bytes32(a)) = a
<1>1. /\ DUST \in Nat \ {0} /\ U64 \in Nat \ {0} /\ U128 \in Nat
      /\ U64 * DUST <= U128 /\ a \in Nat /\ a < U64
  BY AmountsAssumption, WidthAssumption, SMT DEF u64
<1>. DEFINE w == a * DUST
<1>2. w \in Nat /\ w < U64 * DUST
  <2>1. (a + 1) * DUST <= U64 * DUST
    BY <1>1, SMT
  <2>. QED BY <1>1, <2>1, SMT
<1>3. w < U128 /\ U128 \in Nat \ {0}
  BY <1>1, <1>2, SMT
<1>4. DUST * a <= w /\ w < DUST * a + DUST
  BY <1>1, SMT
<1>. HIDE DEF w
<1>5. w % U128 = w
  <2>1. w \div U128 = 0
    BY <1>2, <1>3, FloorIsUnique, SMT
  <2>2. w = U128 * (w \div U128) + (w % U128) /\ w % U128 \in Nat
    BY <1>2, <1>3, Division
  <2>. QED BY <1>2, <1>3, <2>1, <2>2, SMT
<1>6. w \div DUST = a
  BY <1>1, <1>2, <1>4, FloorIsUnique
<1>7. a % U64 = a
  <2>1. a \div U64 = 0
    BY <1>1, FloorIsUnique, SMT
  <2>2. a = U64 * (a \div U64) + (a % U64) /\ a % U64 \in Nat
    BY <1>1, Division
  <2>. QED BY <1>1, <2>1, <2>2, SMT
<1>. QED BY <1>2, <1>5, <1>6, <1>7 DEF u64_to_bytes32, bytes32_to_u64, w

\* Shared decimals are no more than local ones.
LEMMA SharedBound ==
    ASSUME NEW a \in Nat
    PROVE  ld2sd(a) \in Nat /\ ld2sd(a) <= a
<1>. DEFINE q == a \div ld2sd_rate
<1>1. ld2sd_rate \in Nat \ {0}
  BY AmountsAssumption
<1>2. q \in Nat /\ ld2sd_rate * q <= a
  BY <1>1, Division, SMT
<1>. HIDE DEF q
<1>3. 1 * q <= ld2sd_rate * q
  BY <1>1, <1>2, SMT
<1>4. ld2sd_rate * q \in Nat
  BY <1>1, <1>2, SMT
<1>. QED BY <1>2, <1>3, <1>4, SMT DEF ld2sd, q

\* What another chain was told in good order is what it is worth here.
THEOREM ToldIsWorth ==
    ASSUME NEW a \in u64, sd2ld(ld2sd(a)) = a
    PROVE  /\ u64_to_bytes32(ld2sd(a)) \in Nat
           /\ sd2ld(bytes32_to_u64(u64_to_bytes32(ld2sd(a)))) = a
<1>1. a \in Nat /\ a < U64
  BY WidthAssumption, SMT DEF u64
<1>2. ld2sd(a) \in u64
  <2>1. ld2sd(a) \in Nat /\ ld2sd(a) <= a
    BY <1>1, SharedBound
  <2>. QED BY <1>1, <2>1, WidthAssumption, SMT DEF u64
<1>. QED BY <1>2, WireKeeps

\* A mint without a transfer fee withholds nothing.
LEMMA NoFeeWithholdsNothing ==
    ASSUME NEW fee \in TransferFee, fee.bps = 0, NEW a \in Nat
    PROVE  /\ withheld_of(fee, a) = 0
           /\ get_post_fee_amount_ld(fee, a) = a
<1>. DEFINE c == ceil_div(a * fee.bps, ONE_IN_BASIS_POINTS)
<1>1. a * fee.bps = 0
  BY SMT
<1>2. ceil_div(0, ONE_IN_BASIS_POINTS) \in Nat /\ ceil_div(0, ONE_IN_BASIS_POINTS) <= 0
  <2>1. /\ 0 \in Nat /\ ONE_IN_BASIS_POINTS \in Nat \ {0}
        /\ 0 <= ONE_IN_BASIS_POINTS * 0
    BY AmountsAssumption, SMT
  <2>2. ceil_div(0, ONE_IN_BASIS_POINTS) \in Nat
    BY <2>1, CeilBounds, Zenon
  <2>3. ceil_div(0, ONE_IN_BASIS_POINTS) <= 0
    BY <2>1, CeilIsLeast, Zenon
  <2>. QED BY <2>2, <2>3
<1>3. fee.maximum_fee \in Nat
  BY WidthAssumption, SMT DEF TransferFee, u64
<1>4. withheld_of(fee, a) = Lesser(c, fee.maximum_fee)
  BY DEF withheld_of
<1>5. c = ceil_div(0, ONE_IN_BASIS_POINTS)
  BY <1>1
<1>. HIDE DEF c
<1>6. withheld_of(fee, a) = 0
  BY <1>2, <1>3, <1>4, <1>5, SMT DEF Lesser
<1>. QED BY <1>6, SMT DEF get_post_fee_amount_ld


\* What quote_oft lists as the transfer fee is what will be withheld.
LEMMA Quoted ==
    ASSUME NEW a \in Nat, NEW f \in TransferFee, NEW default_bps \in Bps,
           NEW bps \in Bps \cup {None}
    PROVE  quoted_transfer_fee(adapter_amounts(a, f, default_bps, bps))
             = withheld_of(f, adapter_amounts(a, f, default_bps, bps).sent)
<1>. DEFINE amount == adapter_amounts(a, f, default_bps, bps)
            s == amount.sent
            r == amount.received
            k == amount.fee
            w == withheld_of(f, s)
<1>1. /\ s \in Nat /\ r \in Nat /\ k \in Nat
      /\ get_post_fee_amount_ld(f, s) = r + k
  BY AdapterTakes
<1>2. quoted_transfer_fee(amount) = IF r + k < s THEN s - k - r ELSE 0
  BY DEF quoted_transfer_fee
<1>. HIDE DEF amount, s, r, k
<1>3. w \in Nat /\ s = (r + k) + w
  BY <1>1, WithheldBound
<1>. HIDE DEF w
<1>4. quoted_transfer_fee(amount) = w
  BY <1>1, <1>2, <1>3, SMT
<1>. QED BY <1>4 DEF amount, s, w

-----------------------------------------------------------------------------
(* Buckets.                                                                *)

\* Filled and refilled, a bucket stays a bucket, and gains no more than what
\* was put into it beyond what was available.
LEMMA Refilled ==
    ASSUME NEW limiter \in RateLimiter, NEW extra \in u64, NEW t \in u64
    PROVE  LET new == refill(limiter, extra, t) IN
             /\ new \in RateLimiter
             /\ new.capacity = limiter.capacity
             /\ new.refill_per_second = limiter.refill_per_second
             /\ new.tokens <= new.capacity
             /\ new.tokens <= available(limiter, t) + extra
             /\ available(new, t) = new.tokens
<1>. DEFINE cap == limiter.capacity
            rate == limiter.refill_per_second
            last == limiter.last_refill_time
            T == limiter.tokens
            max == U64 - 1
<1>1. /\ cap \in u64 /\ rate \in u64 /\ last \in u64 /\ T \in u64
  BY DEF RateLimiter
<1>2. /\ cap \in Nat /\ rate \in Nat /\ last \in Nat /\ T \in Nat /\ t \in Nat
      /\ extra \in Nat /\ max \in Nat /\ cap <= max /\ T <= max /\ extra <= max
  BY <1>1, WidthAssumption, SMT DEF u64
<1>3. \A n \in Nat : n <= max => n \in u64
  BY WidthAssumption, SMT DEF u64
<1>. DEFINE earned == IF t > last THEN Lesser((t - last) * rate, max) ELSE 0
<1>4. earned \in Nat /\ earned <= max
  <2>1. CASE t > last
    <3>1. (t - last) * rate \in Nat
      BY <1>2, <2>1, SMT
    <3>. HIDE DEF rate, last, max
    <3>. QED BY <1>2, <2>1, <3>1, SMT DEF Lesser
  <2>2. CASE ~(t > last)
    BY <1>2, <2>2, SMT
  <2>. QED BY <2>1, <2>2
<1>5. \A e \in Nat : e <= max => new_tokens(limiter, e, t) = Lesser(e + earned, max)
  <2>. TAKE e \in Nat
  <2>. HAVE e <= max
  <2>1. CASE t > last
    BY <2>1 DEF new_tokens, saturating_add, saturating_mul
  <2>2. CASE ~(t > last)
    <3>1. new_tokens(limiter, e, t) = e /\ earned = 0
      BY <2>2 DEF new_tokens
    <3>. QED BY <1>2, <3>1, SMT DEF Lesser
  <2>. QED BY <2>1, <2>2
<1>. HIDE DEF earned
<1>. DEFINE tokens(e) == Lesser(cap, Lesser(T + Lesser(e + earned, max), max))
<1>6. \A e \in Nat : e <= max =>
        refill(limiter, e, t) = [capacity |-> cap, tokens |-> tokens(e),
                                 refill_per_second |-> rate,
                                 last_refill_time |-> t]
  BY <1>5 DEF refill, saturating_add
<1>. HIDE DEF cap, rate, T, max
<1>7. \A e \in Nat : tokens(e) \in Nat /\ tokens(e) <= cap
  BY <1>2, <1>4, SMT DEF Lesser
<1>8. tokens(extra) <= tokens(0) + extra
  BY <1>2, <1>4, SMT DEF Lesser
<1>. HIDE DEF tokens, last
<1>. DEFINE new == refill(limiter, extra, t)
<1>9. new = [capacity |-> cap, tokens |-> tokens(extra),
             refill_per_second |-> rate, last_refill_time |-> t]
  BY <1>2, <1>6
<1>10. tokens(extra) \in Nat /\ tokens(extra) <= max /\ tokens(extra) <= cap
  BY <1>2, <1>7, SMT
<1>11. new \in RateLimiter
  BY <1>1, <1>3, <1>9, <1>10 DEF RateLimiter
<1>12. available(limiter, t) = tokens(0)
  <2>1. 0 \in Nat /\ 0 <= max
    BY <1>2, SMT
  <2>. QED BY <1>6, <2>1 DEF available
<1>13. available(new, t) = tokens(extra)
  <2>. HIDE DEF new
  <2>1. new_tokens(new, 0, t) = 0
    <3>1. ~(t > t)
      BY <1>2, SMT
    <3>. QED BY <1>9, <3>1 DEF new_tokens
  <2>2. available(new, t) = Lesser(cap, Lesser(tokens(extra) + 0, max))
    BY <1>9, <2>1 DEF available, refill, saturating_add, max
  <2>. QED BY <1>2, <1>10, <2>2, SMT DEF Lesser
<1>. SUFFICES /\ new \in RateLimiter
              /\ new.capacity = cap
              /\ new.refill_per_second = rate
              /\ new.tokens <= cap
              /\ new.tokens <= available(limiter, t) + extra
              /\ available(new, t) = new.tokens
  BY <1>9 DEF cap, rate
<1>. QED BY <1>8, <1>9, <1>10, <1>11, <1>12, <1>13

\* What a bucket holds is a u64, within its capacity.
LEMMA AvailableBound ==
    ASSUME NEW limiter \in RateLimiter, NEW t \in u64
    PROVE  /\ available(limiter, t) \in u64
           /\ available(limiter, t) <= limiter.capacity
<1>1. 0 \in u64
  BY WidthAssumption, SMT DEF u64
<1>2. /\ refill(limiter, 0, t) \in RateLimiter
      /\ refill(limiter, 0, t).capacity = limiter.capacity
      /\ refill(limiter, 0, t).tokens <= refill(limiter, 0, t).capacity
  BY <1>1, Refilled
<1>. QED BY <1>2 DEF available, RateLimiter

\* A second adds no more than the rate.
LEMMA SecondAdds ==
    ASSUME NEW limiter \in RateLimiter, NEW t \in u64, t + 1 \in u64
    PROVE  available(limiter, t + 1)
             <= available(limiter, t) + limiter.refill_per_second
<1>. DEFINE last == limiter.last_refill_time
            rate == limiter.refill_per_second
<1>1. /\ limiter.capacity \in Nat /\ limiter.tokens \in Nat
      /\ rate \in Nat /\ last \in Nat /\ t \in Nat
      /\ U64 \in Nat \ {0} /\ limiter.tokens < U64 /\ rate < U64
      /\ limiter.capacity < U64
  BY WidthAssumption, SMT DEF RateLimiter, u64
<1>2. \A s \in Nat : available(limiter, s) =
        Lesser(limiter.capacity,
               Lesser(limiter.tokens + new_tokens(limiter, 0, s), U64 - 1))
  BY DEF available, refill, saturating_add, RateLimiter
<1>3. \A s \in Nat : new_tokens(limiter, 0, s) =
        IF s > last THEN Lesser(0 + Lesser((s - last) * rate, U64 - 1), U64 - 1)
                    ELSE 0
  BY DEF new_tokens, saturating_add, saturating_mul
<1>. HIDE DEF last, rate
<1>4. /\ new_tokens(limiter, 0, t) \in Nat
      /\ new_tokens(limiter, 0, t + 1) \in Nat
      /\ new_tokens(limiter, 0, t + 1) <= new_tokens(limiter, 0, t) + rate
  <2>1. CASE t > last
    <3>. DEFINE p == (t - last) * rate
    <3>1. t - last \in Nat /\ p \in Nat /\ (t + 1 - last) * rate = p + rate
      BY <1>1, <2>1, SMT
    <3>2. /\ new_tokens(limiter, 0, t) = Lesser(0 + Lesser(p, U64 - 1), U64 - 1)
          /\ new_tokens(limiter, 0, t + 1)
               = Lesser(0 + Lesser(p + rate, U64 - 1), U64 - 1)
      BY <1>1, <1>3, <2>1, <3>1, SMT
    <3>. HIDE DEF p
    <3>. QED BY <1>1, <3>1, <3>2, SMT DEF Lesser
  <2>2. CASE t = last
    <3>1. (t + 1 - last) * rate = rate
      BY <1>1, <2>2, SMT
    <3>. QED BY <1>1, <1>3, <2>2, <3>1, SMT DEF Lesser
  <2>3. CASE t < last
    BY <1>1, <1>3, <2>3, SMT
  <2>. QED BY <1>1, <2>1, <2>2, <2>3, SMT
<1>. HIDE DEF last
<1>5. t + 1 \in Nat
  BY <1>1, SMT
<1>6. available(limiter, t + 1) <= available(limiter, t) + rate
  BY <1>1, <1>2, <1>4, <1>5, SMT DEF Lesser
<1>. QED BY <1>6 DEF rate

\* Spent, a bucket holds so much less.
LEMMA Consumed ==
    ASSUME NEW limiter \in RateLimiter, NEW amount \in Nat, NEW t \in u64,
           can_consume(limiter, amount, t)
    PROVE  LET new == consume(limiter, amount, t) IN
             /\ new \in RateLimiter
             /\ new.capacity = limiter.capacity
             /\ available(new, t) <= available(limiter, t) - amount
<1>. DEFINE full == refill(limiter, 0, t)
            new == consume(limiter, amount, t)
<1>1. 0 \in u64 /\ \A n \in Nat, k \in u64 : n <= k => n \in u64 /\ k \in Nat /\ k - n \in u64
  BY WidthAssumption, SMT DEF u64
<1>2. /\ full \in RateLimiter /\ full.capacity = limiter.capacity
      /\ full.tokens = available(limiter, t) /\ full.last_refill_time = t
  BY <1>1, Refilled DEF available, refill, RateLimiter
<1>3. amount <= full.tokens /\ full.tokens \in u64
  BY <1>2 DEF can_consume, RateLimiter
<1>4. new = [full EXCEPT !.tokens = @ - amount]
  BY DEF consume
<1>. HIDE DEF full
<1>5. /\ new.capacity = full.capacity /\ new.tokens = full.tokens - amount
      /\ new.last_refill_time = t
  BY <1>2, <1>4 DEF RateLimiter
<1>6. new \in RateLimiter
  BY <1>1, <1>2, <1>3, <1>4 DEF RateLimiter
<1>. HIDE DEF new
<1>7. new.capacity \in u64 /\ new.tokens \in u64
  BY <1>6 DEF RateLimiter
<1>8. new_tokens(new, 0, t) = 0
  <2>1. ~(t > t)
    BY WidthAssumption, SMT DEF u64
  <2>. QED BY <1>5, <2>1 DEF new_tokens
<1>9. available(new, t) = Lesser(new.capacity, Lesser(new.tokens + 0, U64 - 1))
  BY <1>6, <1>8 DEF available, refill, saturating_add, RateLimiter
<1>10. available(new, t) <= new.tokens
  BY <1>7, <1>9, WidthAssumption, SMT DEF Lesser, u64
<1>. QED BY <1>2, <1>5, <1>6, <1>10 DEF new

\* A new rate changes neither the capacity nor what the bucket holds now.
LEMMA Rerated ==
    ASSUME NEW limiter \in RateLimiter, NEW rate \in u64, NEW t \in u64
    PROVE  LET new == set_rate(limiter, rate, t) IN
             /\ new \in RateLimiter
             /\ new.capacity = limiter.capacity
             /\ available(new, t) <= available(limiter, t)
<1>. DEFINE full == refill(limiter, 0, t)
            new == set_rate(limiter, rate, t)
<1>1. 0 \in u64
  BY WidthAssumption, SMT DEF u64
<1>2. /\ full \in RateLimiter /\ full.capacity = limiter.capacity
      /\ full.tokens = available(limiter, t) /\ full.last_refill_time = t
  BY <1>1, Refilled DEF available, refill, RateLimiter
<1>3. new = [full EXCEPT !.refill_per_second = rate]
  BY DEF set_rate
<1>. HIDE DEF full
<1>4. /\ new \in RateLimiter
      /\ new.capacity = full.capacity /\ new.tokens = full.tokens
      /\ new.last_refill_time = t
  BY <1>2, <1>3 DEF RateLimiter
<1>. HIDE DEF new
<1>5. new.capacity \in u64 /\ new.tokens \in u64
  BY <1>4 DEF RateLimiter
<1>6. new_tokens(new, 0, t) = 0
  <2>1. ~(t > t)
    BY WidthAssumption, SMT DEF u64
  <2>. QED BY <1>4, <2>1 DEF new_tokens
<1>7. available(new, t) = Lesser(new.capacity, Lesser(new.tokens + 0, U64 - 1))
  BY <1>4, <1>6 DEF available, refill, saturating_add, RateLimiter
<1>8. available(new, t) <= new.tokens
  BY <1>5, <1>7, WidthAssumption, SMT DEF Lesser, u64
<1>. QED BY <1>2, <1>4, <1>8 DEF new

-----------------------------------------------------------------------------
(* Types of the pieces.                                                    *)

LEMMA StoreFields ==
    ASSUME TypeOK, oft_store # None
    PROVE  /\ oft_store \in OFTStore
           /\ oft_store.tvl_ld \in Nat /\ oft_store.admin \in Keys
           /\ oft_store.default_fee_bps \in Bps /\ oft_store.paused \in BOOLEAN
           /\ oft_store.pauser \in Option(Keys)
           /\ oft_store.unpauser \in Option(Keys)
<1>1. oft_store \in OFTStore
  BY DEF TypeOK, Option
<1>. QED BY <1>1 DEF OFTStore

LEMMA PeerFields ==
    ASSUME TypeOK, NEW eid \in Eids, peer[eid] # None
    PROVE  /\ peer[eid] \in PeerConfig
           /\ peer[eid].peer_address \in Addresses \cup {ZeroAddress}
           /\ peer[eid].limiter \in [Ways -> Option(RateLimiter)]
           /\ peer[eid].fee_bps \in Option(Bps)
<1>1. peer[eid] \in PeerConfig
  BY DEF TypeOK, Option
<1>. QED BY <1>1 DEF PeerConfig

LEMMA FeeAndClock ==
    ASSUME TypeOK
    PROVE  transfer_fee \in TransferFee /\ now \in u64 /\ 0 \in u64
  BY OFTAssumption, WidthAssumption, SMT DEF TypeOK, u64

LEMMA NewPeer ==
    ASSUME TypeOK, NEW eid \in Eids
    PROVE  /\ PeerOrNew(eid) \in PeerConfig
           /\ PeerOrNew(eid).limiter \in [Ways -> Option(RateLimiter)]
           /\ \A way \in Ways : PeerOrNew(eid).limiter[way] # None =>
                peer[eid] # None /\ PeerOrNew(eid).limiter[way] = peer[eid].limiter[way]
<1>1. CASE peer[eid] # None
  BY <1>1, PeerFields DEF PeerOrNew
<1>2. CASE peer[eid] = None
  <2>1. PeerOrNew(eid) = [peer_address |-> ZeroAddress,
                          limiter |-> [way \in Ways |-> None],
                          fee_bps |-> None]
    BY <1>2 DEF PeerOrNew
  <2>. QED BY <2>1 DEF PeerConfig, Option
<1>. QED BY <1>1, <1>2

-----------------------------------------------------------------------------
(* Token transfers and amounts.                                            *)

LEMMA Transferred ==
    ASSUME TypeOK, NEW from \in Accounts, NEW to \in Accounts,
           NEW amount \in Nat, TokenTransfer(from, to, amount)
    PROVE  /\ balance' \in [Accounts -> Nat]
           /\ withheld' \in Nat
           /\ balance[from] >= amount
           /\ get_post_fee_amount_ld(transfer_fee, amount) \in Nat
           /\ get_post_fee_amount_ld(transfer_fee, amount) <= amount
           /\ from = to => balance' = balance
           /\ from # to => /\ balance'[from] = balance[from] - amount
                           /\ balance'[to] = balance[to]
                                + get_post_fee_amount_ld(transfer_fee, amount)
           /\ \A a \in Accounts \ {from, to} : balance'[a] = balance[a]
<1>. DEFINE post == get_post_fee_amount_ld(transfer_fee, amount)
            kept == withheld_of(transfer_fee, amount)
<1>1. post \in Nat /\ post <= amount /\ kept \in Nat
  BY FeeAndClock, WithheldBound
<1>2. balance \in [Accounts -> Nat] /\ withheld \in Nat
  BY DEF TypeOK
<1>3. balance[from] >= amount
  BY DEF TokenTransfer
<1>4. CASE from = to
  <2>1. balance' = balance /\ withheld' = withheld
    BY <1>4 DEF TokenTransfer
  <2>. QED BY <1>1, <1>2, <1>3, <1>4, <2>1
<1>5. CASE from # to
  <2>1. /\ balance' = [balance EXCEPT ![from] = balance[from] - amount,
                                      ![to] = balance[to] + post]
        /\ withheld' = withheld + kept
    BY <1>2, <1>5 DEF TokenTransfer
  <2>2. balance[from] - amount \in Nat /\ balance[to] + post \in Nat
        /\ withheld + kept \in Nat
    BY <1>1, <1>2, <1>3, SMT
  <2>. HIDE DEF post, kept
  <2>3. balance' \in [Accounts -> Nat]
    BY <1>2, <2>1, <2>2
  <2>4. /\ balance'[from] = balance[from] - amount
        /\ balance'[to] = balance[to] + post
        /\ \A a \in Accounts \ {from, to} : balance'[a] = balance[a]
    BY <1>2, <1>5, <2>1, <2>2
  <2>. QED BY <1>1, <1>3, <1>5, <2>1, <2>2, <2>3, <2>4 DEF post
<1>. QED BY <1>4, <1>5

\* What a send takes, in either kind of OFT.
LEMMA Amounts ==
    ASSUME TypeOK, oft_store # None, NEW eid \in Eids, peer[eid] # None,
           NEW amount_ld \in u64
    PROVE  LET amount == amounts(amount_ld, eid) IN
             /\ amount.sent \in Nat /\ amount.sent <= amount_ld
             /\ amount.received \in u64 /\ amount.fee \in Nat
             /\ OftType = Adapter =>
                  get_post_fee_amount_ld(transfer_fee, amount.sent)
                    = amount.received + amount.fee
             /\ OftType # Adapter => amount.sent = amount.received + amount.fee
             /\ sd2ld(ld2sd(amount.received)) = amount.received
<1>1. /\ transfer_fee \in TransferFee /\ amount_ld \in Nat
      /\ oft_store.default_fee_bps \in Bps
      /\ peer[eid].fee_bps \in Bps \cup {None}
      /\ \A n \in Nat : n <= amount_ld => n \in u64
  <2>1. amount_ld \in Nat /\ \A n \in Nat : n <= amount_ld => n \in u64
    BY WidthAssumption, SMT DEF u64
  <2>. QED BY <2>1, FeeAndClock, StoreFields, PeerFields DEF Option
<1>2. CASE OftType = Adapter
  <2>. DEFINE amount == adapter_amounts(amount_ld, transfer_fee,
                          oft_store.default_fee_bps, peer[eid].fee_bps)
  <2>1. /\ amount.sent \in Nat /\ amount.sent <= amount_ld
        /\ amount.received \in Nat /\ amount.received <= amount_ld
        /\ amount.fee \in Nat
        /\ get_post_fee_amount_ld(transfer_fee, amount.sent)
             = amount.received + amount.fee
        /\ sd2ld(ld2sd(amount.received)) = amount.received
    BY <1>1, AdapterTakes
  <2>2. amounts(amount_ld, eid) = amount
    BY <1>2 DEF amounts
  <2>. QED BY <1>1, <1>2, <2>1, <2>2
<1>3. CASE OftType # Adapter
  <2>. DEFINE amount == native_amounts(amount_ld, oft_store.default_fee_bps,
                                       peer[eid].fee_bps)
  <2>1. /\ amount.sent \in Nat /\ amount.sent <= amount_ld
        /\ amount.received \in Nat /\ amount.received <= amount_ld
        /\ amount.fee \in Nat
        /\ amount.sent = amount.received + amount.fee
        /\ sd2ld(ld2sd(amount.received)) = amount.received
    BY <1>1, NativeTakes
  <2>2. amounts(amount_ld, eid) = amount
    BY <1>3 DEF amounts
  <2>. QED BY <1>1, <1>3, <2>1, <2>2
<1>. QED BY <1>2, <1>3

\* What another chain sends is worth a number of tokens.
LEMMA Worth ==
    ASSUME NEW wire \in Nat
    PROVE  amount_of(wire) \in Nat
<1>. DEFINE low == wire % U128
            sd == (low \div DUST) % U64
<1>1. /\ U64 \in Nat \ {0} /\ DUST \in Nat \ {0} /\ ld2sd_rate \in Nat \ {0}
      /\ U128 \in Nat /\ U64 * DUST <= U128
  BY AmountsAssumption, WidthAssumption
<1>2. U128 \in Nat \ {0}
  <2>1. 1 * 1 <= U64 * DUST
    BY <1>1, SMT
  <2>. QED BY <1>1, <2>1, SMT
<1>3. low \in Nat
  BY <1>2, Division
<1>. HIDE DEF low
<1>4. low \div DUST \in Nat
  BY <1>1, <1>3, Division
<1>5. sd \in Nat
  BY <1>1, <1>4, Division
<1>. HIDE DEF sd
<1>6. sd * ld2sd_rate \in Nat
  BY <1>1, <1>5, SMT
<1>. QED BY <1>6 DEF amount_of, sd2ld, bytes32_to_u64, sd, low

-----------------------------------------------------------------------------
(* Limits and their windows.                                               *)

\* What has passed a bucket and what it holds are within what it may pass.
Within(limiter, counted, t) ==
    counted.used + available(limiter, t) <= limiter.capacity + counted.refilled

LEMMA WindowTypes ==
    ASSUME TypeOK, NEW eid \in Eids, NEW way \in Ways
    PROVE  /\ window[eid] \in [Ways -> Window]
           /\ window[eid][way] \in Window
           /\ window[eid][way].used \in Nat
           /\ window[eid][way].refilled \in Nat
  BY DEF TypeOK, Window

\* A bucket that starts a window is within it.
LEMMA NewWithin ==
    ASSUME NEW limiter \in RateLimiter, NEW t \in u64
    PROVE  NewWindow \in Window /\ Within(limiter, NewWindow, t)
<1>1. /\ available(limiter, t) \in u64 /\ available(limiter, t) <= limiter.capacity
      /\ limiter.capacity \in u64
  BY AvailableBound DEF RateLimiter
<1>2. NewWindow.used = 0 /\ NewWindow.refilled = 0 /\ NewWindow \in Window
  BY DEF NewWindow, Window
<1>. QED BY <1>1, <1>2, WidthAssumption, SMT DEF Within, u64

\* An amount that passes is spent by its own bucket ...
LEMMA SpentWithin ==
    ASSUME NEW limiter \in RateLimiter, NEW counted \in Window, NEW t \in u64,
           NEW amount \in u64, can_consume(limiter, amount, t),
           Within(limiter, counted, t)
    PROVE  Within(consume(limiter, amount, t),
                  [counted EXCEPT !.used = @ + amount], t)
<1>. DEFINE new == consume(limiter, amount, t)
            more == [counted EXCEPT !.used = @ + amount]
<1>1. amount \in Nat
  BY WidthAssumption, SMT DEF u64
<1>2. /\ new \in RateLimiter /\ new.capacity = limiter.capacity
      /\ available(new, t) <= available(limiter, t) - amount
  BY <1>1, Consumed
<1>3. /\ counted.used \in Nat /\ counted.refilled \in Nat
      /\ more.used = counted.used + amount /\ more.refilled = counted.refilled
  BY DEF Window
<1>4. /\ available(new, t) \in u64 /\ available(limiter, t) \in u64
      /\ limiter.capacity \in u64
  BY <1>2, AvailableBound DEF RateLimiter
<1>5. \A n \in u64 : n \in Nat
  BY WidthAssumption, SMT DEF u64
<1>. HIDE DEF new, more
<1>6. /\ available(new, t) \in Nat /\ available(limiter, t) \in Nat
      /\ limiter.capacity \in Nat
  BY <1>4, <1>5
<1>7. counted.used + available(limiter, t) <= limiter.capacity + counted.refilled
  BY DEF Within
<1>8. (counted.used + amount) + available(new, t)
        <= limiter.capacity + counted.refilled
  BY <1>1, <1>2, <1>3, <1>6, <1>7, SMT
<1>9. Within(new, more, t)
  BY <1>2, <1>3, <1>8 DEF Within
<1>. QED BY <1>9 DEF new, more

\* ... and refills the other.
LEMMA RefilledWithin ==
    ASSUME NEW limiter \in RateLimiter, NEW counted \in Window, NEW t \in u64,
           NEW amount \in u64, Within(limiter, counted, t)
    PROVE  Within(refill(limiter, amount, t),
                  [counted EXCEPT !.refilled = @ + amount], t)
<1>. DEFINE new == refill(limiter, amount, t)
            more == [counted EXCEPT !.refilled = @ + amount]
<1>1. \A n \in u64 : n \in Nat
  BY WidthAssumption, SMT DEF u64
<1>2. /\ new \in RateLimiter /\ new.capacity = limiter.capacity
      /\ available(new, t) <= available(limiter, t) + amount
  BY Refilled
<1>3. /\ counted.used \in Nat /\ counted.refilled \in Nat
      /\ more.used = counted.used /\ more.refilled = counted.refilled + amount
  BY DEF Window
<1>4. /\ available(new, t) \in u64 /\ available(limiter, t) \in u64
      /\ limiter.capacity \in u64
  BY <1>2, AvailableBound DEF RateLimiter
<1>. HIDE DEF new, more
<1>5. Within(new, more, t)
  BY <1>1, <1>2, <1>3, <1>4, SMT DEF Within
<1>. QED BY <1>5 DEF new, more

\* What passing the limits of a peer makes of its buckets and windows.
LEMMA LimitsPassed ==
    ASSUME TypeOK, NEW eid \in Eids, peer[eid] # None, NEW way \in Ways,
           NEW amount \in u64, PassLimits(eid, way, amount)
    PROVE  /\ peer' \in [Eids -> Option(PeerConfig)]
           /\ window' \in [Eids -> [Ways -> Window]]
           /\ \A e \in Eids \ {eid} : peer'[e] = peer[e] /\ window'[e] = window[e]
           /\ peer'[eid].limiter = NewLimiters(eid, way, amount)
           /\ window'[eid] = NewWindows(eid, way, amount)
<1>. DEFINE limiter == peer[eid].limiter
            limiters == NewLimiters(eid, way, amount)
            windows == NewWindows(eid, way, amount)
<1>1. /\ peer \in [Eids -> Option(PeerConfig)] /\ peer[eid] \in PeerConfig
      /\ window \in [Eids -> [Ways -> Window]]
      /\ limiter \in [Ways -> Option(RateLimiter)]
      /\ now \in u64 /\ amount \in Nat /\ 0 \in u64
  <2>1. amount \in Nat
    BY WidthAssumption, SMT DEF u64
  <2>. QED BY <2>1, PeerFields, FeeAndClock DEF TypeOK
<1>2. ASSUME NEW w \in Ways, limiter[w] # None
      PROVE  /\ limiter[w] \in RateLimiter
             /\ refill(limiter[w], amount, now) \in RateLimiter
             /\ w = way => consume(limiter[w], amount, now) \in RateLimiter
  <2>1. limiter[w] \in RateLimiter
    BY <1>1, <1>2 DEF Option
  <2>2. refill(limiter[w], amount, now) \in RateLimiter
    BY <1>1, <2>1, Refilled
  <2>3. w = way => can_consume(limiter[w], amount, now)
    BY <1>2 DEF PassLimits
  <2>. QED BY <1>1, <2>1, <2>2, <2>3, Consumed
<1>3. limiters \in [Ways -> Option(RateLimiter)]
  BY <1>2 DEF NewLimiters, Option
<1>4. windows \in [Ways -> Window]
  <2>1. ASSUME NEW w \in Ways
        PROVE  /\ window[eid][w] \in Window
               /\ [window[eid][w] EXCEPT !.used = @ + amount] \in Window
               /\ [window[eid][w] EXCEPT !.refilled = @ + amount] \in Window
    <3>1. /\ window[eid][w] \in Window
          /\ window[eid][w].used + amount \in Nat
          /\ window[eid][w].refilled + amount \in Nat
      BY <1>1, WindowTypes, SMT
    <3>. QED BY <3>1 DEF Window
  <2>. QED BY <2>1 DEF NewWindows
<1>. HIDE DEF limiters, windows
<1>. DEFINE config == [peer[eid] EXCEPT !.limiter = limiters]
<1>5. config \in PeerConfig /\ config.limiter = limiters
  BY <1>1, <1>3 DEF PeerConfig
<1>6. /\ peer' = [peer EXCEPT ![eid] = config]
      /\ window' = [window EXCEPT ![eid] = windows]
  BY DEF PassLimits, limiters, windows
<1>. HIDE DEF config
<1>. QED BY <1>1, <1>3, <1>4, <1>5, <1>6 DEF Option, limiters, windows

LEMMA PassedWithin ==
    ASSUME TypeOK, WindowInv, NEW eid \in Eids, peer[eid] # None, NEW way \in Ways,
           NEW amount \in u64, PassLimits(eid, way, amount), now' = now
    PROVE  WindowInv'
<1>1. SUFFICES ASSUME NEW e \in Eids, NEW w \in Ways,
                      peer'[e] # None, peer'[e].limiter[w] # None
               PROVE  Within(peer'[e].limiter[w], window'[e][w], now)
  BY DEF WindowInv, Within
<1>2. \A f \in Eids, v \in Ways : peer[f] # None =>
        (peer[f].limiter[v] # None => Within(peer[f].limiter[v], window[f][v], now))
  BY DEF WindowInv, Within
<1>3. CASE e # eid
  BY <1>1, <1>2, <1>3, LimitsPassed
<1>4. CASE e = eid
  <2>. DEFINE limiter == peer[eid].limiter[w]
              counted == window[eid][w]
  <2>1. /\ peer'[e].limiter[w] = NewLimiters(eid, way, amount)[w]
        /\ window'[e][w] = NewWindows(eid, way, amount)[w]
    BY <1>4, LimitsPassed
  <2>2. limiter # None
    BY <1>1, <2>1 DEF NewLimiters
  <2>3. /\ limiter \in RateLimiter /\ counted \in Window /\ now \in u64
        /\ Within(limiter, counted, now)
    BY <1>2, <2>2, PeerFields, WindowTypes, FeeAndClock DEF Option
  <2>4. CASE w = way
    <3>1. can_consume(limiter, amount, now)
      BY <2>2, <2>4 DEF PassLimits
    <3>2. Within(consume(limiter, amount, now),
                 [counted EXCEPT !.used = @ + amount], now)
      BY <2>3, <3>1, SpentWithin
    <3>. QED BY <2>1, <2>2, <2>4, <3>2 DEF NewLimiters, NewWindows
  <2>5. CASE w # way
    <3>1. Within(refill(limiter, amount, now),
                 [counted EXCEPT !.refilled = @ + amount], now)
      BY <2>3, RefilledWithin
    <3>. QED BY <2>1, <2>2, <2>5, <3>1 DEF NewLimiters, NewWindows
  <2>. QED BY <2>4, <2>5
<1>. QED BY <1>3, <1>4

-----------------------------------------------------------------------------
(* What sends and receipts do to tokens.                                   *)

LEMMA AccountsAre == Users \subseteq Accounts /\ Escrow \in Accounts /\ Escrow \notin Users
  BY OFTAssumption DEF Accounts

\* Writing the value locked writes nothing else.
LEMMA LockedWrite ==
    ASSUME TypeOK, oft_store # None, NEW tvl \in Nat
    PROVE  /\ [oft_store EXCEPT !.tvl_ld = tvl] \in OFTStore
           /\ [oft_store EXCEPT !.tvl_ld = tvl].tvl_ld = tvl
  BY StoreFields DEF OFTStore

\* A send takes what it computes, and locks what it tells of.
LEMMA SendEffects ==
    ASSUME TypeOK, NEW u \in Users, NEW eid \in Eids, NEW amount_ld \in SendAmounts,
           NEW min_amount_ld \in Minimums, NEW compose \in Composing,
           Send(u, eid, amount_ld, min_amount_ld, compose)
    PROVE  LET amount == amounts(amount_ld, eid) IN
             /\ oft_store # None /\ oft_store' \in OFTStore
             /\ balance' \in [Accounts -> Nat] /\ withheld' \in Nat
             /\ balance[u] >= amount.sent
             /\ balance'[u] = balance[u] - amount.sent
             /\ OftType = Adapter =>
                  /\ oft_store'.tvl_ld = oft_store.tvl_ld + amount.received
                  /\ balance'[Escrow]
                       = balance[Escrow] + (amount.received + amount.fee)
             /\ OftType # Adapter =>
                  /\ oft_store' = oft_store
                  /\ balance'[Escrow] = balance[Escrow] + amount.fee
             /\ \A a \in Accounts \ {u, Escrow} : balance'[a] = balance[a]
<1>. DEFINE amount == amounts(amount_ld, eid)
<1>1. /\ oft_store # None /\ peer[eid] # None /\ amount_ld \in u64
  BY OFTAssumption DEF Send, Running
<1>2. /\ amount.sent \in Nat /\ amount.received \in u64 /\ amount.fee \in Nat
      /\ OftType = Adapter => get_post_fee_amount_ld(transfer_fee, amount.sent)
                                = amount.received + amount.fee
      /\ OftType # Adapter => amount.sent = amount.received + amount.fee
  BY <1>1, Amounts
<1>3. u \in Accounts /\ Escrow \in Accounts /\ u # Escrow
  BY AccountsAre
<1>4. /\ OftType = Adapter => Lock(u, amount)
      /\ OftType # Adapter => Burn(u, amount)
  BY DEF Send
<1>. HIDE DEF amount
<1>5. CASE OftType = Adapter
  <2>1. /\ TokenTransfer(u, Escrow, amount.sent)
        /\ oft_store' = [oft_store EXCEPT !.tvl_ld = oft_store.tvl_ld + amount.received]
    BY <1>4, <1>5 DEF Lock
  <2>2. /\ balance' \in [Accounts -> Nat] /\ withheld' \in Nat
        /\ balance[u] >= amount.sent
        /\ balance'[u] = balance[u] - amount.sent
        /\ balance'[Escrow] = balance[Escrow] + (amount.received + amount.fee)
        /\ \A a \in Accounts \ {u, Escrow} : balance'[a] = balance[a]
    BY <1>2, <1>3, <1>5, <2>1, Transferred
  <2>3. oft_store.tvl_ld + amount.received \in Nat
    BY <1>1, <1>2, StoreFields, WidthAssumption, SMT DEF u64
  <2>4. /\ oft_store' \in OFTStore
        /\ oft_store'.tvl_ld = oft_store.tvl_ld + amount.received
    BY <1>1, <2>1, <2>3, LockedWrite
  <2>. QED BY <1>1, <1>5, <2>2, <2>4 DEF amount
<1>6. CASE OftType # Adapter
  <2>1. /\ balance[u] >= amount.sent
        /\ balance' = [balance EXCEPT ![u] = @ - amount.sent,
                                      ![Escrow] = @ + amount.fee]
        /\ oft_store' = oft_store /\ withheld' = withheld
    BY <1>4, <1>6 DEF Burn
  <2>2. balance \in [Accounts -> Nat] /\ withheld \in Nat
    BY DEF TypeOK
  <2>3. /\ balance[u] - amount.sent \in Nat /\ balance[Escrow] + amount.fee \in Nat
    BY <1>2, <1>3, <2>1, <2>2, SMT
  <2>4. /\ balance' \in [Accounts -> Nat]
        /\ balance'[u] = balance[u] - amount.sent
        /\ balance'[Escrow] = balance[Escrow] + amount.fee
        /\ \A a \in Accounts \ {u, Escrow} : balance'[a] = balance[a]
    BY <1>3, <2>1, <2>2, <2>3
  <2>5. oft_store \in OFTStore
    BY <1>1, StoreFields
  <2>. QED BY <1>1, <1>6, <2>1, <2>2, <2>4, <2>5 DEF amount
<1>. QED BY <1>5, <1>6

\* The message of a send.
LEMMA SendMessage ==
    ASSUME TypeOK, NEW u \in Users, NEW eid \in Eids, NEW amount_ld \in SendAmounts,
           NEW min_amount_ld \in Minimums, NEW compose \in Composing,
           Send(u, eid, amount_ld, min_amount_ld, compose)
    PROVE  \E m \in Message :
             /\ outbox' = outbox \cup {m}
             /\ m.from = u /\ m.amount_ld = amount_ld
             /\ m.nonce = nonce + 1 /\ m.min_amount_ld = min_amount_ld
             /\ amount_of(m.wire) = amounts(amount_ld, eid).received
             /\ DUST * amount_of(m.wire) = ld2sd_rate * m.wire
             /\ nonce' = nonce + 1 /\ nonce' \in 0..MaxSends
<1>. DEFINE received == amounts(amount_ld, eid).received
            w == u64_to_bytes32(ld2sd(received))
            m == [nonce |-> nonce + 1, dst_eid |-> eid, wire |-> w,
                  compose |-> compose, from |-> u, amount_ld |-> amount_ld,
                  min_amount_ld |-> min_amount_ld]
<1>1. /\ oft_store # None /\ peer[eid] # None /\ amount_ld \in u64
      /\ min_amount_ld \in u64 /\ compose \in BOOLEAN /\ MaxSends \in Nat
  BY OFTAssumption DEF Send, Running
<1>2. received \in u64 /\ sd2ld(ld2sd(received)) = received
  BY <1>1, Amounts
<1>. HIDE DEF received
<1>3. w \in Nat /\ amount_of(w) = received
  BY <1>2, ToldIsWorth DEF amount_of
<1>4. DUST * received = ld2sd_rate * w
  <2>. DEFINE k == ld2sd(received)
  <2>1. k \in Nat /\ received = k * ld2sd_rate
    BY <1>2, SharedBound, WidthAssumption, SMT DEF u64, sd2ld
  <2>2. w = k * DUST
    BY DEF u64_to_bytes32
  <2>. HIDE DEF k, w
  <2>. QED BY <2>1, <2>2, AmountsAssumption, SMT
<1>. HIDE DEF w
<1>5. /\ nonce + 1 \in 1..MaxSends
      /\ nonce' = nonce + 1 /\ nonce' \in 0..MaxSends
  BY <1>1, SMT DEF Send, TypeOK
<1>6. m \in Message
  BY <1>1, <1>3, <1>5 DEF Message
<1>7. outbox' = outbox \cup {m}
  BY DEF Send, w, received
<1>8. /\ m.from = u /\ m.amount_ld = amount_ld /\ m.wire = w
      /\ m.nonce = nonce + 1 /\ m.min_amount_ld = min_amount_ld
  OBVIOUS
<1>. HIDE DEF m
<1>. QED BY <1>3, <1>4, <1>5, <1>6, <1>7, <1>8 DEF received

\* A receipt gives what the message is worth here, less the transfer fee.
LEMMA ReceiptEffects ==
    ASSUME TypeOK, NEW packet \in Packets, NEW planned, LzReceive(packet, planned)
    PROVE  LET amount_ld == amount_of(packet.wire) IN
             /\ oft_store # None /\ oft_store' \in OFTStore
             /\ packet.to \in Users /\ amount_ld \in Nat
             /\ composed_amount(amount_ld) \in Nat
             /\ balance' \in [Accounts -> Nat] /\ withheld' \in Nat
             /\ balance'[packet.to]
                  = balance[packet.to] + composed_amount(amount_ld)
             /\ OftType = Adapter =>
                  /\ oft_store.tvl_ld >= amount_ld
                  /\ oft_store'.tvl_ld = oft_store.tvl_ld - amount_ld
                  /\ balance'[Escrow] = balance[Escrow] - amount_ld
             /\ OftType # Adapter =>
                  /\ oft_store' = oft_store
                  /\ balance'[Escrow] = balance[Escrow]
             /\ \A a \in Accounts \ {packet.to, Escrow} : balance'[a] = balance[a]
<1>. DEFINE amount_ld == amount_of(packet.wire)
            to == packet.to
<1>1. /\ to \in Users /\ packet.wire \in Nat /\ oft_store # None
  BY OFTAssumption DEF Packet, LzReceive, Running
<1>2. amount_ld \in Nat
  BY <1>1, Worth
<1>3. to \in Accounts /\ Escrow \in Accounts /\ to # Escrow
  BY <1>1, AccountsAre
<1>4. /\ OftType = Adapter => Release(to, amount_ld)
      /\ OftType # Adapter => Mint(to, amount_ld)
  BY DEF LzReceive
<1>5. balance \in [Accounts -> Nat] /\ withheld \in Nat
  BY DEF TypeOK
<1>. HIDE DEF amount_ld, to
<1>6. CASE OftType = Adapter
  <2>1. /\ oft_store.tvl_ld >= amount_ld
        /\ TokenTransfer(Escrow, to, amount_ld)
        /\ oft_store' = [oft_store EXCEPT !.tvl_ld = oft_store.tvl_ld - amount_ld]
    BY <1>4, <1>6 DEF Release
  <2>2. composed_amount(amount_ld) = get_post_fee_amount_ld(transfer_fee, amount_ld)
    BY <1>6 DEF composed_amount
  <2>3. /\ balance' \in [Accounts -> Nat] /\ withheld' \in Nat
        /\ composed_amount(amount_ld) \in Nat
        /\ balance'[to] = balance[to] + composed_amount(amount_ld)
        /\ balance'[Escrow] = balance[Escrow] - amount_ld
        /\ \A a \in Accounts \ {to, Escrow} : balance'[a] = balance[a]
    BY <1>2, <1>3, <2>1, <2>2, Transferred
  <2>4. oft_store.tvl_ld - amount_ld \in Nat
    BY <1>1, <1>2, <2>1, StoreFields, SMT
  <2>5. /\ oft_store' \in OFTStore
        /\ oft_store'.tvl_ld = oft_store.tvl_ld - amount_ld
    BY <1>1, <2>1, <2>4, LockedWrite
  <2>. QED BY <1>1, <1>2, <1>6, <2>1, <2>3, <2>5 DEF amount_ld, to
<1>7. CASE OftType # Adapter
  <2>1. /\ balance' = [balance EXCEPT ![to] = @ + amount_ld]
        /\ oft_store' = oft_store /\ withheld' = withheld
    BY <1>4, <1>7 DEF Mint
  <2>2. composed_amount(amount_ld) = amount_ld
    BY <1>7 DEF composed_amount
  <2>3. balance[to] + amount_ld \in Nat
    BY <1>2, <1>3, <1>5, SMT
  <2>4. /\ balance' \in [Accounts -> Nat]
        /\ balance'[to] = balance[to] + amount_ld
        /\ balance'[Escrow] = balance[Escrow]
        /\ \A a \in Accounts \ {to, Escrow} : balance'[a] = balance[a]
    BY <1>3, <1>5, <2>1, <2>3
  <2>5. oft_store \in OFTStore
    BY <1>1, StoreFields
  <2>. QED BY <1>1, <1>2, <1>5, <1>7, <2>1, <2>2, <2>4, <2>5 DEF amount_ld, to
<1>. QED BY <1>6, <1>7

-----------------------------------------------------------------------------
(* Type correctness.                                                       *)

LEMMA LimiterUpdated ==
    ASSUME now \in u64, NEW limiter \in Option(RateLimiter), NEW params \in RateLimits
    PROVE  update_rate_limiter(limiter, params) \in RateLimiter
<1>. DEFINE old == IF limiter = None THEN EmptyLimiter ELSE limiter
            capacity == params.capacity
            rate == params.refill_per_second
            filled == IF capacity = None THEN old ELSE set_capacity(old, capacity, now)
<1>1. 0 \in u64
  BY WidthAssumption, SMT DEF u64
<1>2. capacity \in Option(u64) /\ rate \in Option(u64)
  BY OFTAssumption DEF RateLimitParams
<1>3. old \in RateLimiter
  BY <1>1 DEF Option, EmptyLimiter, RateLimiter
<1>. HIDE DEF old
<1>4. filled \in RateLimiter
  <2>1. ASSUME capacity \in u64 PROVE set_capacity(old, capacity, now) \in RateLimiter
    BY <1>3, <2>1, Zenon DEF set_capacity, RateLimiter
  <2>. QED BY <1>2, <1>3, <2>1 DEF Option
<1>. HIDE DEF filled
<1>5. ASSUME rate \in u64 PROVE set_rate(filled, rate, now) \in RateLimiter
  <2>1. refill(filled, 0, now) \in RateLimiter
    BY <1>1, <1>4, Refilled
  <2>. QED BY <1>5, <2>1, Zenon DEF set_rate, RateLimiter
<1>6. update_rate_limiter(limiter, params)
        = IF rate = None THEN filled ELSE set_rate(filled, rate, now)
  BY DEF update_rate_limiter, filled, old
<1>. QED BY <1>2, <1>4, <1>5, <1>6 DEF Option

LEMMA WindowReset ==
    ASSUME TypeOK, NEW eid \in Eids, NEW way \in Ways
    PROVE  LET new == [window EXCEPT ![eid][way] = NewWindow] IN
             /\ new \in [Eids -> [Ways -> Window]]
             /\ new[eid][way] = NewWindow
             /\ \A e \in Eids, w \in Ways :
                  ~(e = eid /\ w = way) => new[e][w] = window[e][w]
  BY DEF TypeOK, NewWindow, Window

\* Whatever set_peer_config is given, peers and windows stay well typed.
LEMMA PeerTyped ==
    ASSUME TypeOK, PeerNext
    PROVE  /\ peer' \in [Eids -> Option(PeerConfig)]
           /\ window' \in [Eids -> [Ways -> Window]]
           /\ UNCHANGED <<oft_store, delegate, tokenVars, now, outboundVars,
                          inboundVars, marks>>
<1>1. PICK s \in Keys, eid \in Eids :
        \/ \E address \in Addresses \cup {ZeroAddress} : SetPeerAddress(s, eid, address)
        \/ \E bps \in Option(FeeRates) : SetPeerFee(s, eid, bps)
        \/ SetPeerOptions(s, eid)
        \/ \E way \in Ways :
             \/ \E params \in RateLimits : SetRateLimit(s, eid, way, params)
             \/ RemoveRateLimit(s, eid, way)
  BY DEF PeerNext
<1>2. /\ peer \in [Eids -> Option(PeerConfig)]
      /\ window \in [Eids -> [Ways -> Window]]
      /\ PeerOrNew(eid) \in PeerConfig
      /\ PeerOrNew(eid).limiter \in [Ways -> Option(RateLimiter)]
      /\ now \in u64
  BY NewPeer, FeeAndClock DEF TypeOK
<1>3. ASSUME NEW new \in PeerConfig, PeerConfigured(s, eid, new)
      PROVE  /\ peer' \in [Eids -> Option(PeerConfig)]
             /\ UNCHANGED <<oft_store, delegate, tokenVars, now, outboundVars,
                            inboundVars, marks>>
  BY <1>2, <1>3 DEF PeerConfigured, Option
<1>4. ASSUME NEW address \in Addresses \cup {ZeroAddress}, SetPeerAddress(s, eid, address)
      PROVE  \E new \in PeerConfig : PeerConfigured(s, eid, new) /\ window' = window
  <2>1. [PeerOrNew(eid) EXCEPT !.peer_address = address] \in PeerConfig
    BY <1>2 DEF PeerConfig
  <2>. QED BY <1>4, <2>1 DEF SetPeerAddress
<1>5. ASSUME NEW bps \in Option(FeeRates), SetPeerFee(s, eid, bps)
      PROVE  \E new \in PeerConfig : PeerConfigured(s, eid, new) /\ window' = window
  <2>1. bps \in Option(Bps)
    <3>1. bps # None => bps \in Nat /\ bps < ONE_IN_BASIS_POINTS
      BY <1>5, OFTAssumption DEF SetPeerFee, Option
    <3>2. bps # None => bps \in Bps
      BY <3>1, AmountsAssumption, SMT DEF Bps
    <3>. QED BY <3>2 DEF Option
  <2>2. [PeerOrNew(eid) EXCEPT !.fee_bps = bps] \in PeerConfig
    BY <1>2, <2>1 DEF PeerConfig
  <2>. QED BY <1>5, <2>2 DEF SetPeerFee
<1>6. ASSUME SetPeerOptions(s, eid)
      PROVE  \E new \in PeerConfig : PeerConfigured(s, eid, new) /\ window' = window
  BY <1>2, <1>6 DEF SetPeerOptions
<1>7. ASSUME NEW way \in Ways, NEW params \in RateLimits, SetRateLimit(s, eid, way, params)
      PROVE  /\ \E new \in PeerConfig : PeerConfigured(s, eid, new)
             /\ window' \in [Eids -> [Ways -> Window]]
  <2>. DEFINE old == PeerOrNew(eid).limiter[way]
              new == update_rate_limiter(old, params)
  <2>1. old \in Option(RateLimiter)
    BY <1>2
  <2>2. new \in RateLimiter
    BY <1>2, <2>1, LimiterUpdated
  <2>. HIDE DEF old, new
  <2>3. new \in Option(RateLimiter)
    BY <2>2 DEF Option
  <2>4. [PeerOrNew(eid) EXCEPT !.limiter[way] = new] \in PeerConfig
    <3>1. [PeerOrNew(eid).limiter EXCEPT ![way] = new] \in [Ways -> Option(RateLimiter)]
      BY <1>2, <2>3
    <3>2. [PeerOrNew(eid) EXCEPT !.limiter = [PeerOrNew(eid).limiter EXCEPT ![way] = new]]
            \in PeerConfig
      BY <1>2, <3>1 DEF PeerConfig
    <3>. QED BY <3>2
  <2>5. PeerConfigured(s, eid, [PeerOrNew(eid) EXCEPT !.limiter[way] = new])
    BY <1>7 DEF SetRateLimit, new, old
  <2>6. window' = window \/ window' = [window EXCEPT ![eid][way] = NewWindow]
    BY <1>7 DEF SetRateLimit
  <2>7. window' \in [Eids -> [Ways -> Window]]
    <3>1. [window EXCEPT ![eid][way] = NewWindow] \in [Eids -> [Ways -> Window]]
      BY WindowReset
    <3>. QED BY <1>2, <2>6, <3>1
  <2>. QED BY <2>4, <2>5, <2>7
<1>8. ASSUME NEW way \in Ways, RemoveRateLimit(s, eid, way)
      PROVE  /\ \E new \in PeerConfig : PeerConfigured(s, eid, new)
             /\ window' \in [Eids -> [Ways -> Window]]
  <2>1. [PeerOrNew(eid) EXCEPT !.limiter[way] = None] \in PeerConfig
    <3>1. [PeerOrNew(eid).limiter EXCEPT ![way] = None] \in [Ways -> Option(RateLimiter)]
      BY <1>2 DEF Option
    <3>2. [PeerOrNew(eid) EXCEPT !.limiter = [PeerOrNew(eid).limiter EXCEPT ![way] = None]]
            \in PeerConfig
      BY <1>2, <3>1 DEF PeerConfig
    <3>. QED BY <3>2
  <2>2. /\ PeerConfigured(s, eid, [PeerOrNew(eid) EXCEPT !.limiter[way] = None])
        /\ window' = [window EXCEPT ![eid][way] = NewWindow]
    BY <1>8 DEF RemoveRateLimit
  <2>. QED BY <2>1, <2>2, WindowReset
<1>. QED BY <1>1, <1>2, <1>3, <1>4, <1>5, <1>6, <1>7, <1>8

\* What an administrator does to the store keeps it a store.
LEMMA StoreTyped ==
    ASSUME TypeOK, NEW s \in Keys,
           \/ \E key \in Keys : SetAdmin(s, key)
           \/ \E key \in Option(PausingKeys) : SetPauser(s, key) \/ SetUnpauser(s, key)
           \/ \E paused \in BOOLEAN : SetPaused(s, paused) \/ SetPause(s, paused)
           \/ \E bps \in FeeRates : SetDefaultFee(s, bps)
    PROVE  /\ oft_store # None /\ oft_store' \in OFTStore
           /\ oft_store'.tvl_ld = oft_store.tvl_ld
           /\ UNCHANGED <<peer, delegate, tokenVars, now, outboundVars, inboundVars,
                          windowVars>>
<1>. DEFINE Stored(new) ==
       /\ oft_store # None /\ new \in OFTStore /\ new.tvl_ld = oft_store.tvl_ld
       /\ oft_store' = new
       /\ UNCHANGED <<peer, delegate, tokenVars, now, outboundVars, inboundVars,
                      windowVars>>
<1>1. ASSUME NEW key \in Keys, SetAdmin(s, key)
      PROVE  Stored([oft_store EXCEPT !.admin = key])
  BY <1>1, StoreFields DEF SetAdmin, Configured, IsAdmin, OFTStore
<1>2. ASSUME NEW key \in Option(PausingKeys), SetPauser(s, key)
      PROVE  Stored([oft_store EXCEPT !.pauser = key])
  <2>1. key \in Option(Keys)
    BY OFTAssumption DEF Option
  <2>. QED BY <1>2, <2>1, StoreFields DEF SetPauser, Configured, IsAdmin, OFTStore
<1>3. ASSUME NEW key \in Option(PausingKeys), SetUnpauser(s, key)
      PROVE  Stored([oft_store EXCEPT !.unpauser = key])
  <2>1. key \in Option(Keys)
    BY OFTAssumption DEF Option
  <2>. QED BY <1>3, <2>1, StoreFields DEF SetUnpauser, Configured, IsAdmin, OFTStore
<1>4. ASSUME NEW paused \in BOOLEAN, SetPaused(s, paused) \/ SetPause(s, paused)
      PROVE  Stored([oft_store EXCEPT !.paused = paused])
  BY <1>4, StoreFields DEF SetPaused, SetPause, Configured, IsAdmin, OFTStore
<1>5. ASSUME NEW bps \in FeeRates, SetDefaultFee(s, bps)
      PROVE  Stored([oft_store EXCEPT !.default_fee_bps = bps])
  <2>1. bps \in Nat /\ bps < ONE_IN_BASIS_POINTS
    BY <1>5, OFTAssumption DEF SetDefaultFee
  <2>2. bps \in Bps
    BY <2>1, AmountsAssumption, SMT DEF Bps
  <2>. QED BY <1>5, <2>2, StoreFields DEF SetDefaultFee, Configured, IsAdmin, OFTStore
<1>6. \A new : Stored(new) =>
        /\ oft_store # None /\ oft_store' \in OFTStore
        /\ oft_store'.tvl_ld = oft_store.tvl_ld
        /\ UNCHANGED <<peer, delegate, tokenVars, now, outboundVars, inboundVars,
                       windowVars>>
  OBVIOUS
<1>. HIDE DEF Stored
<1>. QED BY <1>1, <1>2, <1>3, <1>4, <1>5, <1>6

\* The disjuncts of AdminNext, the ones on the store together.
LEMMA AdminCases ==
    ASSUME AdminNext
    PROVE  \/ \E admin \in Keys : InitOFT(admin)
           \/ \E s \in Keys :
                \/ \E key \in Keys : SetAdmin(s, key)
                \/ \E key \in Option(PausingKeys) : SetPauser(s, key) \/ SetUnpauser(s, key)
                \/ \E paused \in BOOLEAN : SetPaused(s, paused) \/ SetPause(s, paused)
                \/ \E bps \in FeeRates : SetDefaultFee(s, bps)
           \/ \E s \in Keys, key \in Keys : SetDelegate(s, key)
           \/ \E s \in Keys, dest \in Accounts, fee_ld \in Withdrawals :
                WithdrawFee(s, dest, fee_ld)
  BY DEF AdminNext

LEMMA InitStored ==
    ASSUME NEW admin \in Keys, InitOFT(admin)
    PROVE  /\ oft_store' \in OFTStore /\ oft_store'.tvl_ld = 0
           /\ delegate' = admin
           /\ oft_store = None
           /\ UNCHANGED <<peer, tokenVars, now, outboundVars, inboundVars, windowVars>>
<1>1. 0 \in Bps /\ 0 \in Nat
  BY AmountsAssumption, SMT DEF Bps
<1>. DEFINE new == [tvl_ld |-> 0, admin |-> admin, default_fee_bps |-> 0,
                    paused |-> FALSE, pauser |-> None, unpauser |-> None]
<1>2. new \in OFTStore
  BY <1>1 DEF OFTStore, Option
<1>3. oft_store' = new /\ delegate' = admin /\ oft_store = None
      /\ UNCHANGED <<peer, tokenVars, now, outboundVars, inboundVars, windowVars>>
  BY Zenon DEF InitOFT
<1>4. new.tvl_ld = 0
  OBVIOUS
<1>. HIDE DEF new
<1>. QED BY <1>2, <1>3, <1>4

LEMMA AdminTyped ==
    ASSUME TypeOK, AdminNext
    PROVE  TypeOK'
<1>1. CASE \E admin \in Keys : InitOFT(admin)
  <2>1. PICK admin \in Keys : InitOFT(admin)
    BY <1>1
  <2>2. /\ oft_store' \in OFTStore /\ delegate' = admin
        /\ UNCHANGED <<peer, tokenVars, now, outboundVars, inboundVars, windowVars>>
    BY <2>1, InitStored
  <2>3. oft_store' \in Option(OFTStore) /\ delegate' \in Option(Keys)
    BY <2>2 DEF Option
  <2>. QED BY <2>2, <2>3 DEF TypeOK, tokenVars, outboundVars, inboundVars, windowVars
<1>2. ASSUME NEW s \in Keys,
             \/ \E key \in Keys : SetAdmin(s, key)
             \/ \E key \in Option(PausingKeys) : SetPauser(s, key) \/ SetUnpauser(s, key)
             \/ \E paused \in BOOLEAN : SetPaused(s, paused) \/ SetPause(s, paused)
             \/ \E bps \in FeeRates : SetDefaultFee(s, bps)
      PROVE  TypeOK'
  <2>1. /\ oft_store' \in OFTStore
        /\ UNCHANGED <<peer, delegate, tokenVars, now, outboundVars, inboundVars,
                       windowVars>>
    BY <1>2, StoreTyped
  <2>2. oft_store' \in Option(OFTStore)
    BY <2>1 DEF Option
  <2>. QED BY <2>1, <2>2 DEF TypeOK, tokenVars, outboundVars, inboundVars, windowVars
<1>3. ASSUME NEW s \in Keys, NEW key \in Keys, SetDelegate(s, key)
      PROVE  TypeOK'
  BY <1>3 DEF SetDelegate, Option, TypeOK, tokenVars, outboundVars, inboundVars, windowVars
<1>4. ASSUME NEW s \in Keys, NEW dest \in Accounts, NEW fee_ld \in Withdrawals,
             WithdrawFee(s, dest, fee_ld)
      PROVE  TypeOK'
  <2>1. TokenTransfer(Escrow, dest, fee_ld) /\ fee_ld \in Nat /\ Escrow \in Accounts
    BY <1>4, OFTAssumption, AccountsAre DEF WithdrawFee
  <2>2. balance' \in [Accounts -> Nat] /\ withheld' \in Nat
    BY <2>1, Transferred
  <2>. QED BY <1>4, <2>2 DEF WithdrawFee, TypeOK, configVars, outboundVars, inboundVars,
                             windowVars
<1>. QED BY <1>1, <1>2, <1>3, <1>4, AdminCases

\* A send or a receipt passes the limits of a peer that exists, in a u64.
LEMMA SendLimits ==
    ASSUME TypeOK, NEW u \in Users, NEW eid \in Eids, NEW amount_ld \in SendAmounts,
           NEW min_amount_ld \in Minimums, NEW compose \in Composing,
           Send(u, eid, amount_ld, min_amount_ld, compose)
    PROVE  /\ peer[eid] # None
           /\ amounts(amount_ld, eid).received \in u64
           /\ "outbound" \in Ways
           /\ PassLimits(eid, "outbound", amounts(amount_ld, eid).received)
<1>1. /\ oft_store # None /\ peer[eid] # None /\ amount_ld \in u64
      /\ PassLimits(eid, "outbound", amounts(amount_ld, eid).received)
  BY OFTAssumption DEF Send, Running
<1>2. amounts(amount_ld, eid).received \in u64
  BY <1>1, Amounts
<1>. QED BY <1>1, <1>2 DEF Ways

LEMMA ReceiptLimits ==
    ASSUME NEW packet \in Packets, NEW planned, LzReceive(packet, planned)
    PROVE  /\ packet.src_eid \in Eids /\ peer[packet.src_eid] # None
           /\ amount_of(packet.wire) \in u64
           /\ "inbound" \in Ways
           /\ PassLimits(packet.src_eid, "inbound", amount_of(packet.wire))
  BY OFTAssumption DEF LzReceive, Packet, Ways

LEMMA SendTyped ==
    ASSUME TypeOK, NEW u \in Users, NEW eid \in Eids, NEW amount_ld \in SendAmounts,
           NEW min_amount_ld \in Minimums, NEW compose \in Composing,
           Send(u, eid, amount_ld, min_amount_ld, compose)
    PROVE  TypeOK'
<1>1. /\ peer' \in [Eids -> Option(PeerConfig)]
      /\ window' \in [Eids -> [Ways -> Window]]
  BY SendLimits, LimitsPassed
<1>2. /\ oft_store' \in OFTStore
      /\ balance' \in [Accounts -> Nat] /\ withheld' \in Nat
  BY SendEffects
<1>3. \E m \in Message : outbox' = outbox \cup {m} /\ nonce' \in 0..MaxSends
  BY SendMessage
<1>4. /\ UNCHANGED <<delegate, transfer_fee, now, inboundVars, marks>>
  BY DEF Send
<1>5. oft_store' \in Option(OFTStore)
  BY <1>2 DEF Option
<1>. QED BY <1>1, <1>2, <1>3, <1>4, <1>5 DEF TypeOK, inboundVars

LEMMA ReceiptTyped ==
    ASSUME TypeOK, NEW packet \in Packets, NEW planned, LzReceive(packet, planned)
    PROVE  TypeOK'
<1>1. /\ peer' \in [Eids -> Option(PeerConfig)]
      /\ window' \in [Eids -> [Ways -> Window]]
  BY ReceiptLimits, LimitsPassed
<1>2. /\ oft_store' \in OFTStore
      /\ balance' \in [Accounts -> Nat] /\ withheld' \in Nat
      /\ composed_amount(amount_of(packet.wire)) \in Nat
  BY ReceiptEffects
<1>3. /\ verified' = verified \ {packet} /\ cleared' = cleared \cup {packet}
      /\ UNCHANGED <<delegate, transfer_fee, now, outboundVars, marks>>
  BY DEF LzReceive, Clear
<1>4. composed' \subseteq [packet : Packets, amount : Nat]
  BY <1>2 DEF LzReceive, TypeOK
<1>5. oft_store' \in Option(OFTStore)
  BY <1>2 DEF Option
<1>. QED BY <1>1, <1>2, <1>3, <1>4, <1>5 DEF TypeOK, outboundVars

\* Time counts up what the windows had coming.
LEMMA TickWindow ==
    ASSUME TypeOK, Tick
    PROVE  /\ now' \in 0..MaxTime /\ now' = now + 1 /\ now + 1 \in u64
           /\ window' \in [Eids -> [Ways -> Window]]
           /\ \A eid \in Eids, way \in Ways :
                peer[eid] # None => (peer[eid].limiter[way] # None =>
                  /\ window'[eid][way].used = window[eid][way].used
                  /\ window'[eid][way].refilled = window[eid][way].refilled
                       + peer[eid].limiter[way].refill_per_second)
<1>1. now' = now + 1 /\ now' \in 0..MaxTime /\ now + 1 \in u64
  BY OFTAssumption, WidthAssumption, SMT DEF Tick, TypeOK, u64
<1>. DEFINE Later(eid, way) ==
       [window[eid][way] EXCEPT
          !.refilled = @ + peer[eid].limiter[way].refill_per_second]
<1>2. ASSUME NEW eid \in Eids, NEW way \in Ways, peer[eid] # None,
             peer[eid].limiter[way] # None
      PROVE  /\ Later(eid, way) \in Window
             /\ Later(eid, way).used = window[eid][way].used
             /\ Later(eid, way).refilled = window[eid][way].refilled
                  + peer[eid].limiter[way].refill_per_second
  <2>1. peer[eid].limiter[way].refill_per_second \in u64
    BY <1>2, PeerFields DEF Option, RateLimiter
  <2>2. window[eid][way].refilled + peer[eid].limiter[way].refill_per_second \in Nat
    BY <2>1, WindowTypes, WidthAssumption, SMT DEF u64
  <2>3. window[eid][way] \in Window
    BY WindowTypes
  <2>. QED BY <2>2, <2>3, Zenon DEF Window
<1>3. \A eid \in Eids, way \in Ways : window[eid][way] \in Window
  BY WindowTypes
<1>4. window' = [eid \in Eids |-> [way \in Ways |->
                   IF peer[eid] = None THEN window[eid][way]
                   ELSE IF peer[eid].limiter[way] = None THEN window[eid][way]
                   ELSE Later(eid, way)]]
  BY DEF Tick
<1>. HIDE DEF Later
<1>5. window' \in [Eids -> [Ways -> Window]]
  BY <1>2, <1>3, <1>4
<1>6. \A eid \in Eids, way \in Ways :
        peer[eid] # None => (peer[eid].limiter[way] # None =>
          window'[eid][way] = Later(eid, way))
  BY <1>4
<1>. QED BY <1>1, <1>2, <1>5, <1>6

\* Nothing the program, its users or its surroundings do breaks the types: no
\* balance and no value locked becomes negative, and every bucket stays one.
THEOREM OFTTypeCorrect == Spec => []TypeOK
<1>1. Init => TypeOK
  <2>. SUFFICES ASSUME Init PROVE TypeOK
    OBVIOUS
  <2>1. /\ balance \in [Accounts -> Nat] /\ withheld \in Nat
        /\ transfer_fee \in TransferFees
        /\ now \in 0..MaxTime /\ nonce \in 0..MaxSends /\ marks \in 0..MaxMarks
    BY OFTAssumption, WidthAssumption, SMT DEF Init, u64
  <2>2. window \in [Eids -> [Ways -> Window]]
    BY DEF Init, NewWindow, Window
  <2>3. oft_store \in Option(OFTStore) /\ peer \in [Eids -> Option(PeerConfig)]
        /\ delegate \in Option(Keys)
    BY DEF Init, Option
  <2>. QED BY <2>1, <2>2, <2>3 DEF Init, TypeOK
<1>2. TypeOK /\ [Next]_vars => TypeOK'
  <2>. SUFFICES ASSUME TypeOK, [Next]_vars PROVE TypeOK'
    OBVIOUS
  <2>1. CASE AdminNext
    BY <2>1, AdminTyped
  <2>2. CASE PeerNext
    BY <2>2, PeerTyped DEF TypeOK, tokenVars, outboundVars, inboundVars
  <2>3. CASE TokenNext
    <3>1. ASSUME NEW u \in Users, NEW to \in Accounts, NEW amount \in SendAmounts,
                 UserTransfer(u, to, amount)
          PROVE  TypeOK'
      <4>1. amount \in Nat /\ u \in Accounts /\ TokenTransfer(u, to, amount)
        BY <3>1, OFTAssumption, AccountsAre, WidthAssumption, SMT DEF UserTransfer, u64
      <4>2. balance' \in [Accounts -> Nat] /\ withheld' \in Nat
        BY <4>1, Transferred
      <4>. QED BY <3>1, <4>2 DEF UserTransfer, TypeOK, configVars, outboundVars,
                                 inboundVars, windowVars
    <3>. QED BY <2>3, <3>1, SendTyped, ReceiptTyped DEF TokenNext
  <2>4. CASE EnvironmentNext
    <3>1. CASE Tick
      BY <3>1, TickWindow DEF Tick, TypeOK, configVars, tokenVars, outboundVars,
                              inboundVars
    <3>2. ASSUME NEW eid \in Eids, NEW way \in Ways, Mark(eid, way) PROVE TypeOK'
      <4>1. window' \in [Eids -> [Ways -> Window]]
        <5>1. [window EXCEPT ![eid][way] = NewWindow] \in [Eids -> [Ways -> Window]]
          BY WindowReset
        <5>. QED BY <3>2, <5>1 DEF Mark
      <4>2. marks' \in 0..MaxMarks
        BY <3>2, OFTAssumption, SMT DEF Mark, TypeOK
      <4>. QED BY <3>2, <4>1, <4>2 DEF Mark, TypeOK, configVars, tokenVars,
                                       outboundVars, inboundVars
    <3>3. ASSUME NEW packet \in Packets, Verify(packet) PROVE TypeOK'
      BY <3>3 DEF Verify, TypeOK, configVars, tokenVars, outboundVars, windowVars
    <3>4. ASSUME NEW fee \in TransferFees, TransferFeeChange(fee) PROVE TypeOK'
      BY <3>4 DEF TransferFeeChange, TypeOK, configVars, outboundVars, inboundVars,
                  windowVars
    <3>. QED BY <2>4, <3>1, <3>2, <3>3, <3>4 DEF EnvironmentNext
  <2>5. CASE UNCHANGED vars
    BY <2>5 DEF vars, TypeOK, configVars, tokenVars, outboundVars, inboundVars,
                windowVars
  <2>. QED BY <2>1, <2>2, <2>3, <2>4, <2>5 DEF Next
<1>. QED BY <1>1, <1>2, PTL DEF Spec

-----------------------------------------------------------------------------
(* No rounding is off.                                                     *)

\* Whatever a user sends or has quoted, under any transfer fee and fee rates an
\* admin set: inverting the transfer fee loses nothing, a sender is taken no
\* more than was given, shared decimals express what is told, and the transfer
\* fee quoted is the one withheld.
THEOREM AmountsAreAlwaysExact == Spec => []AmountsAreExact
<1>1. ASSUME TypeOK, oft_store # None, NEW eid \in Eids, peer[eid] # None,
             NEW amount_ld \in u64
      PROVE  LET amount == amounts(amount_ld, eid) IN
             /\ PreFeeIsExact(amount_ld)
             /\ TakesNoMore(amount_ld, amount)
             /\ ToldExactly(amount)
             /\ quoted_transfer_fee(amount) = withheld_of(transfer_fee, amount.sent)
  <2>. DEFINE amount == amounts(amount_ld, eid)
  <2>1. /\ amount.sent \in Nat /\ amount.sent <= amount_ld
        /\ amount.received \in u64 /\ amount.fee \in Nat
        /\ OftType = Adapter =>
             get_post_fee_amount_ld(transfer_fee, amount.sent)
               = amount.received + amount.fee
        /\ OftType # Adapter => amount.sent = amount.received + amount.fee
        /\ sd2ld(ld2sd(amount.received)) = amount.received
    BY <1>1, Amounts
  <2>2. /\ transfer_fee \in TransferFee /\ amount_ld \in Nat
        /\ OftType # Adapter => transfer_fee.bps = 0
        /\ amount.received \in Nat
    <3>1. amount_ld \in Nat /\ amount.received \in Nat
      BY <1>1, <2>1, WidthAssumption, SMT DEF u64
    <3>. QED BY <1>1, <3>1, OFTAssumption, FeeAndClock DEF TypeOK
  <2>3. PreFeeIsExact(amount_ld)
    BY <2>2, PreFeeInverts DEF PreFeeIsExact
  <2>4. OftType # Adapter => /\ withheld_of(transfer_fee, amount.sent) = 0
                             /\ get_post_fee_amount_ld(transfer_fee, amount.sent)
                                  = amount.sent
    BY <2>1, <2>2, NoFeeWithholdsNothing
  <2>5. quoted_transfer_fee(amount) = withheld_of(transfer_fee, amount.sent)
    <3>1. CASE OftType = Adapter
      <4>1. amount = adapter_amounts(amount_ld, transfer_fee,
                       oft_store.default_fee_bps, peer[eid].fee_bps)
        BY <3>1 DEF amounts
      <4>2. /\ oft_store.default_fee_bps \in Bps
            /\ peer[eid].fee_bps \in Bps \cup {None}
        BY <1>1, StoreFields, PeerFields DEF Option
      <4>. QED BY <2>2, <4>1, <4>2, Quoted
    <3>2. CASE OftType # Adapter
      <4>. HIDE DEF amount
      <4>. QED BY <2>1, <2>2, <2>4, <3>2, SMT DEF quoted_transfer_fee
    <3>. QED BY <3>1, <3>2
  <2>. HIDE DEF amount
  <2>6. TakesNoMore(amount_ld, amount)
    BY <2>1, <2>4 DEF TakesNoMore
  <2>7. ToldExactly(amount)
    BY <2>1, <2>2, SMT DEF ToldExactly
  <2>. QED BY <2>3, <2>5, <2>6, <2>7 DEF amount
<1>2. TypeOK => AmountsAreExact
  BY <1>1 DEF AmountsAreExact
<1>. QED BY <1>2, OFTTypeCorrect, PTL

-----------------------------------------------------------------------------
(* The escrow.                                                             *)

LEMMA EscrowSent ==
    ASSUME TypeOK, EscrowCovers, NEW u \in Users, NEW eid \in Eids,
           NEW amount_ld \in SendAmounts, NEW min_amount_ld \in Minimums,
           NEW compose \in Composing,
           Send(u, eid, amount_ld, min_amount_ld, compose)
    PROVE  EscrowCovers'
<1>. DEFINE amount == amounts(amount_ld, eid)
<1>1. /\ oft_store # None /\ peer[eid] # None /\ amount_ld \in u64
  BY OFTAssumption DEF Send, Running
<1>2. /\ amount.received \in Nat /\ amount.fee \in Nat
  BY <1>1, Amounts, WidthAssumption, SMT DEF u64
<1>3. /\ OftType = Adapter =>
           /\ oft_store'.tvl_ld = oft_store.tvl_ld + amount.received
           /\ balance'[Escrow] = balance[Escrow] + (amount.received + amount.fee)
      /\ OftType # Adapter =>
           /\ oft_store' = oft_store
           /\ balance'[Escrow] = balance[Escrow] + amount.fee
  BY SendEffects
<1>. HIDE DEF amount
<1>4. /\ balance[Escrow] \in Nat /\ oft_store.tvl_ld \in Nat
      /\ balance[Escrow] >= oft_store.tvl_ld
  BY <1>1, StoreFields, AccountsAre DEF EscrowCovers, TypeOK
<1>5. balance'[Escrow] >= oft_store'.tvl_ld
  BY <1>2, <1>3, <1>4, SMT
<1>. QED BY <1>5 DEF EscrowCovers

LEMMA EscrowReceived ==
    ASSUME TypeOK, EscrowCovers, NEW packet \in Packets, NEW planned,
           LzReceive(packet, planned)
    PROVE  EscrowCovers'
<1>. DEFINE amount_ld == amount_of(packet.wire)
<1>1. /\ oft_store # None /\ amount_ld \in Nat
      /\ OftType = Adapter =>
           /\ oft_store'.tvl_ld = oft_store.tvl_ld - amount_ld
           /\ balance'[Escrow] = balance[Escrow] - amount_ld
      /\ OftType # Adapter =>
           /\ oft_store' = oft_store
           /\ balance'[Escrow] = balance[Escrow]
  BY ReceiptEffects
<1>. HIDE DEF amount_ld
<1>2. /\ balance[Escrow] \in Nat /\ oft_store.tvl_ld \in Nat
      /\ balance[Escrow] >= oft_store.tvl_ld
  BY <1>1, StoreFields, AccountsAre DEF EscrowCovers, TypeOK
<1>3. balance'[Escrow] >= oft_store'.tvl_ld
  BY <1>1, <1>2, SMT
<1>. QED BY <1>3 DEF EscrowCovers

LEMMA EscrowWithdrawn ==
    ASSUME TypeOK, EscrowCovers, NEW s \in Keys, NEW dest \in Accounts,
           NEW fee_ld \in Withdrawals, WithdrawFee(s, dest, fee_ld)
    PROVE  EscrowCovers'
<1>1. /\ fee_ld \in Nat /\ oft_store # None /\ oft_store' = oft_store
      /\ balance[Escrow] - oft_store.tvl_ld >= fee_ld
      /\ TokenTransfer(Escrow, dest, fee_ld)
  BY OFTAssumption DEF WithdrawFee, IsAdmin, withdrawable_fee, configVars
<1>2. balance'[Escrow] = balance[Escrow] \/ balance'[Escrow] = balance[Escrow] - fee_ld
  BY <1>1, Transferred, AccountsAre
<1>3. /\ balance[Escrow] \in Nat /\ oft_store.tvl_ld \in Nat
      /\ balance[Escrow] >= oft_store.tvl_ld
  BY <1>1, StoreFields, AccountsAre DEF EscrowCovers, TypeOK
<1>4. balance'[Escrow] >= oft_store'.tvl_ld
  BY <1>1, <1>2, <1>3, SMT
<1>. QED BY <1>4 DEF EscrowCovers

LEMMA EscrowDonated ==
    ASSUME TypeOK, EscrowCovers, NEW u \in Users, NEW to \in Accounts,
           NEW amount \in SendAmounts, UserTransfer(u, to, amount)
    PROVE  EscrowCovers'
<1>1. amount \in Nat /\ u \in Accounts /\ TokenTransfer(u, to, amount)
  BY OFTAssumption, AccountsAre, WidthAssumption, SMT DEF UserTransfer, u64
<1>2. oft_store' = oft_store
  BY DEF UserTransfer, configVars
<1>3. u # Escrow /\ Escrow \in Accounts
  BY AccountsAre
<1>. DEFINE post == get_post_fee_amount_ld(transfer_fee, amount)
<1>4. /\ post \in Nat
      /\ balance'[Escrow] = balance[Escrow] \/ balance'[Escrow] = balance[Escrow] + post
  BY <1>1, <1>3, Transferred
<1>. HIDE DEF post
<1>5. balance[Escrow] \in Nat
  BY <1>3 DEF TypeOK
<1>6. CASE oft_store # None
  <2>1. oft_store.tvl_ld \in Nat /\ balance[Escrow] >= oft_store.tvl_ld
    BY <1>6, StoreFields DEF EscrowCovers
  <2>2. balance'[Escrow] >= oft_store'.tvl_ld
    BY <1>2, <1>4, <1>5, <2>1, SMT
  <2>. QED BY <2>2 DEF EscrowCovers
<1>. QED BY <1>2, <1>6 DEF EscrowCovers

\* Whatever is sent, received, donated or withdrawn, under any transfer fee,
\* the escrow can pay out all that is locked.
THEOREM EscrowAlwaysCovers == Spec => []EscrowCovers
<1>1. Init => EscrowCovers
  BY DEF Init, EscrowCovers
<1>2. TypeOK /\ EscrowCovers /\ [Next]_vars => EscrowCovers'
  <2>. SUFFICES ASSUME TypeOK, EscrowCovers, [Next]_vars PROVE EscrowCovers'
    OBVIOUS
  <2>1. ASSUME oft_store' = oft_store, balance' = balance PROVE EscrowCovers'
    BY <2>1 DEF EscrowCovers
  <2>2. CASE AdminNext
    <3>1. ASSUME NEW admin \in Keys, InitOFT(admin) PROVE EscrowCovers'
      <4>1. oft_store'.tvl_ld = 0 /\ balance' = balance
        BY <3>1, InitStored DEF tokenVars
      <4>2. balance[Escrow] \in Nat
        BY AccountsAre DEF TypeOK
      <4>. QED BY <4>1, <4>2, SMT DEF EscrowCovers
    <3>2. ASSUME NEW s \in Keys,
             \/ \E key \in Keys : SetAdmin(s, key)
             \/ \E key \in Option(PausingKeys) : SetPauser(s, key) \/ SetUnpauser(s, key)
             \/ \E paused \in BOOLEAN : SetPaused(s, paused) \/ SetPause(s, paused)
             \/ \E bps \in FeeRates : SetDefaultFee(s, bps)
          PROVE  EscrowCovers'
      <4>1. /\ oft_store # None /\ oft_store'.tvl_ld = oft_store.tvl_ld
            /\ balance' = balance
        BY <3>2, StoreTyped DEF tokenVars
      <4>. QED BY <4>1 DEF EscrowCovers
    <3>3. ASSUME NEW s \in Keys, NEW key \in Keys, SetDelegate(s, key) PROVE EscrowCovers'
      BY <2>1, <3>3 DEF SetDelegate, tokenVars
    <3>. QED BY <2>2, <3>1, <3>2, <3>3, AdminCases, EscrowWithdrawn
  <2>3. CASE PeerNext
    BY <2>1, <2>3, PeerTyped DEF tokenVars
  <2>4. CASE TokenNext
    BY <2>4, EscrowSent, EscrowReceived, EscrowDonated DEF TokenNext
  <2>5. CASE EnvironmentNext
    BY <2>1, <2>5 DEF EnvironmentNext, Verify, Tick, TransferFeeChange, Mark,
                      configVars, tokenVars
  <2>6. CASE UNCHANGED vars
    BY <2>1, <2>6 DEF vars, configVars, tokenVars
  <2>. QED BY <2>2, <2>3, <2>4, <2>5, <2>6 DEF Next
<1>. QED BY <1>1, <1>2, OFTTypeCorrect, PTL DEF Spec

-----------------------------------------------------------------------------
(* Rate limits.                                                            *)

\* A peer that is written stays within its limits if its new buckets do.
LEMMA PeerWritten ==
    ASSUME TypeOK, WindowInv, NEW eid \in Eids, NEW new,
           peer' = [peer EXCEPT ![eid] = new], now' = now,
           \A e \in Eids, w \in Ways : e # eid => window'[e][w] = window[e][w],
           \A w \in Ways : new.limiter[w] # None =>
             Within(new.limiter[w], window'[eid][w], now)
    PROVE  WindowInv'
<1>1. SUFFICES ASSUME NEW e \in Eids, NEW w \in Ways,
                      peer'[e] # None, peer'[e].limiter[w] # None
               PROVE  Within(peer'[e].limiter[w], window'[e][w], now)
  BY DEF WindowInv, Within
<1>2. peer' \in [Eids -> {peer[e2] : e2 \in Eids} \cup {new}] /\ peer'[eid] = new
      /\ (e # eid => peer'[e] = peer[e])
  BY DEF TypeOK
<1>3. CASE e = eid
  BY <1>1, <1>2, <1>3
<1>4. CASE e # eid
  BY <1>1, <1>2, <1>4 DEF WindowInv, Within
<1>. QED BY <1>3, <1>4

\* The buckets a peer has, if it is there, are within their windows.
LEMMA OldWithin ==
    ASSUME TypeOK, WindowInv, NEW eid \in Eids, NEW w \in Ways,
           PeerOrNew(eid).limiter[w] # None
    PROVE  /\ PeerOrNew(eid).limiter[w] \in RateLimiter
           /\ Within(PeerOrNew(eid).limiter[w], window[eid][w], now)
<1>1. /\ peer[eid] # None
      /\ PeerOrNew(eid).limiter[w] = peer[eid].limiter[w]
      /\ PeerOrNew(eid).limiter \in [Ways -> Option(RateLimiter)]
  BY NewPeer
<1>. QED BY <1>1 DEF WindowInv, Within, Option

\* A limit that is made, filled or given a new rate is within its window.
LEMMA LimitWithin ==
    ASSUME TypeOK, WindowInv, NEW s \in Keys, NEW eid \in Eids, NEW way \in Ways,
           NEW params \in RateLimits, SetRateLimit(s, eid, way, params)
    PROVE  LET old == PeerOrNew(eid).limiter[way] IN
           Within(update_rate_limiter(old, params), window'[eid][way], now)
<1>. DEFINE old == PeerOrNew(eid).limiter[way]
            new == update_rate_limiter(old, params)
<1>1. now \in u64 /\ old \in Option(RateLimiter)
  BY FeeAndClock, NewPeer
<1>2. CASE old = None \/ params.capacity # None
  <2>1. window' = [window EXCEPT ![eid][way] = NewWindow]
    BY <1>2 DEF SetRateLimit
  <2>2. window'[eid][way] = NewWindow
    BY <2>1, WindowReset
  <2>3. new \in RateLimiter
    BY <1>1, LimiterUpdated
  <2>. HIDE DEF new
  <2>. QED BY <1>1, <2>2, <2>3, NewWithin DEF new
<1>3. CASE ~(old = None \/ params.capacity # None)
  <2>1. window' = window
    BY <1>3 DEF SetRateLimit
  <2>2. old \in RateLimiter /\ Within(old, window[eid][way], now)
    BY <1>3, OldWithin
  <2>3. new = IF params.refill_per_second = None THEN old
              ELSE set_rate(old, params.refill_per_second, now)
    BY <1>3 DEF update_rate_limiter
  <2>4. params.refill_per_second \in Option(u64)
    BY OFTAssumption DEF RateLimitParams
  <2>. HIDE DEF old, new
  <2>5. CASE params.refill_per_second = None
    <3>1. Within(new, window'[eid][way], now)
      BY <2>1, <2>2, <2>3, <2>5
    <3>. QED BY <3>1 DEF new, old
  <2>6. CASE params.refill_per_second # None
    <3>1. params.refill_per_second \in u64
      BY <2>4, <2>6 DEF Option
    <3>2. /\ new \in RateLimiter /\ new.capacity = old.capacity
          /\ available(new, now) <= available(old, now)
      BY <1>1, <2>2, <2>3, <2>6, <3>1, Rerated
    <3>3. /\ available(new, now) \in u64 /\ available(old, now) \in u64
          /\ old.capacity \in u64
      BY <1>1, <2>2, <3>2, AvailableBound DEF RateLimiter
    <3>4. window[eid][way].used \in Nat /\ window[eid][way].refilled \in Nat
      BY WindowTypes
    <3>5. Within(new, window'[eid][way], now)
      BY <2>1, <2>2, <3>2, <3>3, <3>4, WidthAssumption, SMT DEF Within, u64
    <3>. QED BY <3>5 DEF new, old
  <2>. QED BY <2>5, <2>6
<1>. QED BY <1>2, <1>3

LEMMA PeerWithin ==
    ASSUME TypeOK, WindowInv, PeerNext
    PROVE  WindowInv'
<1>1. PICK s \in Keys, eid \in Eids :
        \/ \E address \in Addresses \cup {ZeroAddress} : SetPeerAddress(s, eid, address)
        \/ \E bps \in Option(FeeRates) : SetPeerFee(s, eid, bps)
        \/ SetPeerOptions(s, eid)
        \/ \E way \in Ways :
             \/ \E params \in RateLimits : SetRateLimit(s, eid, way, params)
             \/ RemoveRateLimit(s, eid, way)
  BY DEF PeerNext
<1>. DEFINE config == PeerOrNew(eid)
<1>2. config \in PeerConfig /\ config.limiter \in [Ways -> Option(RateLimiter)]
  BY NewPeer
<1>3. \A w \in Ways : config.limiter[w] # None =>
        Within(config.limiter[w], window[eid][w], now)
  BY OldWithin
<1>4. ASSUME NEW new, new.limiter = config.limiter,
             PeerConfigured(s, eid, new), window' = window
      PROVE  WindowInv'
  <2>1. /\ peer' = [peer EXCEPT ![eid] = new] /\ now' = now
        /\ \A e \in Eids, w \in Ways : e # eid => window'[e][w] = window[e][w]
    BY <1>4 DEF PeerConfigured
  <2>2. \A w \in Ways : new.limiter[w] # None =>
          Within(new.limiter[w], window'[eid][w], now)
    BY <1>3, <1>4
  <2>. QED BY <2>1, <2>2, PeerWritten
<1>5. ASSUME NEW way \in Ways, NEW limiter,
             PeerConfigured(s, eid, [config EXCEPT !.limiter[way] = limiter]),
             window' = window \/ window' = [window EXCEPT ![eid][way] = NewWindow],
             limiter # None => Within(limiter, window'[eid][way], now)
      PROVE  WindowInv'
  <2>. DEFINE new == [config EXCEPT !.limiter[way] = limiter]
  <2>1. new.limiter = [config.limiter EXCEPT ![way] = limiter]
    BY <1>2 DEF PeerConfig
  <2>2. /\ new.limiter[way] = limiter
        /\ \A w \in Ways : w # way => new.limiter[w] = config.limiter[w]
    BY <1>2, <2>1
  <2>3. peer' = [peer EXCEPT ![eid] = new] /\ now' = now
    BY <1>5 DEF PeerConfigured
  <2>4. \A e \in Eids, w \in Ways :
          ~(e = eid /\ w = way) => window'[e][w] = window[e][w]
    BY <1>5, WindowReset
  <2>. HIDE DEF new
  <2>5. \A w \in Ways : new.limiter[w] # None =>
          Within(new.limiter[w], window'[eid][w], now)
    BY <1>3, <1>5, <2>2, <2>4
  <2>6. \A e \in Eids, w \in Ways : e # eid => window'[e][w] = window[e][w]
    BY <2>4
  <2>. QED BY <2>3, <2>5, <2>6, PeerWritten
<1>6. ASSUME NEW address \in Addresses \cup {ZeroAddress}, SetPeerAddress(s, eid, address)
      PROVE  WindowInv'
  <2>1. [config EXCEPT !.peer_address = address].limiter = config.limiter
    BY <1>2 DEF PeerConfig
  <2>. QED BY <1>4, <1>6, <2>1 DEF SetPeerAddress
<1>7. ASSUME NEW bps \in Option(FeeRates), SetPeerFee(s, eid, bps) PROVE WindowInv'
  <2>1. [config EXCEPT !.fee_bps = bps].limiter = config.limiter
    BY <1>2 DEF PeerConfig
  <2>. QED BY <1>4, <1>7, <2>1 DEF SetPeerFee
<1>8. ASSUME SetPeerOptions(s, eid) PROVE WindowInv'
  BY <1>4, <1>8 DEF SetPeerOptions
<1>9. ASSUME NEW way \in Ways, NEW params \in RateLimits, SetRateLimit(s, eid, way, params)
      PROVE  WindowInv'
  <2>. DEFINE limiter == update_rate_limiter(config.limiter[way], params)
  <2>1. Within(limiter, window'[eid][way], now)
    BY <1>9, LimitWithin
  <2>2. /\ PeerConfigured(s, eid, [config EXCEPT !.limiter[way] = limiter])
        /\ window' = window \/ window' = [window EXCEPT ![eid][way] = NewWindow]
    BY <1>9 DEF SetRateLimit
  <2>. HIDE DEF limiter, config
  <2>. QED BY <1>5, <2>1, <2>2
<1>10. ASSUME NEW way \in Ways, RemoveRateLimit(s, eid, way) PROVE WindowInv'
  <2>1. /\ PeerConfigured(s, eid, [config EXCEPT !.limiter[way] = None])
        /\ window' = [window EXCEPT ![eid][way] = NewWindow]
    BY <1>10 DEF RemoveRateLimit
  <2>. HIDE DEF config
  <2>. QED BY <1>5, <2>1
<1>. QED BY <1>1, <1>6, <1>7, <1>8, <1>9, <1>10

\* As time passes, a bucket gains no more than its window had coming.
LEMMA TickWithin ==
    ASSUME TypeOK, WindowInv, Tick
    PROVE  WindowInv'
<1>1. SUFFICES ASSUME NEW eid \in Eids, NEW way \in Ways,
                      peer[eid] # None, peer[eid].limiter[way] # None
               PROVE  Within(peer[eid].limiter[way], window'[eid][way], now + 1)
  BY DEF WindowInv, Within, Tick, configVars
<1>. DEFINE limiter == peer[eid].limiter[way]
<1>2. limiter \in RateLimiter /\ now \in u64
  BY <1>1, PeerFields, FeeAndClock DEF Option
<1>3. /\ now + 1 \in u64
      /\ window'[eid][way].used = window[eid][way].used
      /\ window'[eid][way].refilled
           = window[eid][way].refilled + limiter.refill_per_second
  BY <1>1, TickWindow
<1>4. Within(limiter, window[eid][way], now)
  BY <1>1 DEF WindowInv, Within
<1>. HIDE DEF limiter
<1>5. available(limiter, now + 1) <= available(limiter, now) + limiter.refill_per_second
  BY <1>2, <1>3, SecondAdds
<1>6. /\ available(limiter, now + 1) \in u64 /\ available(limiter, now) \in u64
      /\ limiter.capacity \in u64 /\ limiter.refill_per_second \in u64
  BY <1>2, <1>3, AvailableBound DEF RateLimiter
<1>7. window[eid][way].used \in Nat /\ window[eid][way].refilled \in Nat
  BY WindowTypes
<1>8. \A n \in u64 : n \in Nat
  BY WidthAssumption, SMT DEF u64
<1>9. Within(limiter, window'[eid][way], now + 1)
  BY <1>3, <1>4, <1>5, <1>6, <1>7, <1>8, SMT DEF Within
<1>. QED BY <1>9 DEF limiter

LEMMA MarkWithin ==
    ASSUME TypeOK, WindowInv, NEW eid \in Eids, NEW way \in Ways, Mark(eid, way)
    PROVE  WindowInv'
<1>1. SUFFICES ASSUME NEW e \in Eids, NEW w \in Ways,
                      peer[e] # None, peer[e].limiter[w] # None
               PROVE  Within(peer[e].limiter[w], window'[e][w], now)
  BY DEF WindowInv, Within, Mark, configVars
<1>2. window' = [window EXCEPT ![eid][way] = NewWindow]
  BY DEF Mark
<1>3. CASE e = eid /\ w = way
  <2>1. window'[e][w] = NewWindow
    BY <1>2, <1>3, WindowReset
  <2>2. peer[e].limiter[w] \in RateLimiter /\ now \in u64
    BY <1>1, PeerFields, FeeAndClock DEF Option
  <2>. QED BY <2>1, <2>2, NewWithin
<1>4. CASE ~(e = eid /\ w = way)
  <2>1. window'[e][w] = window[e][w]
    BY <1>2, <1>4, WindowReset
  <2>. QED BY <1>1, <2>1 DEF WindowInv, Within
<1>. QED BY <1>3, <1>4

\* Whatever the admin changes and however sends and receipts alternate, what a
\* bucket holds and what passed it are within what it may pass.
THEOREM WindowInvariant == Spec => []WindowInv
<1>1. Init => WindowInv
  BY DEF Init, WindowInv
<1>2. TypeOK /\ WindowInv /\ [Next]_vars => WindowInv'
  <2>. SUFFICES ASSUME TypeOK, WindowInv, [Next]_vars PROVE WindowInv'
    OBVIOUS
  <2>1. ASSUME peer' = peer, window' = window, now' = now PROVE WindowInv'
    BY <2>1 DEF WindowInv
  <2>2. CASE AdminNext
    <3>1. ASSUME NEW admin \in Keys, InitOFT(admin) PROVE WindowInv'
      BY <2>1, <3>1, InitStored DEF windowVars
    <3>2. ASSUME NEW s \in Keys,
             \/ \E key \in Keys : SetAdmin(s, key)
             \/ \E key \in Option(PausingKeys) : SetPauser(s, key) \/ SetUnpauser(s, key)
             \/ \E paused \in BOOLEAN : SetPaused(s, paused) \/ SetPause(s, paused)
             \/ \E bps \in FeeRates : SetDefaultFee(s, bps)
          PROVE  WindowInv'
      BY <2>1, <3>2, StoreTyped DEF windowVars
    <3>3. ASSUME NEW s \in Keys, NEW key \in Keys, SetDelegate(s, key) PROVE WindowInv'
      BY <2>1, <3>3 DEF SetDelegate, windowVars
    <3>4. ASSUME NEW s \in Keys, NEW dest \in Accounts, NEW fee_ld \in Withdrawals,
                 WithdrawFee(s, dest, fee_ld)
          PROVE  WindowInv'
      BY <2>1, <3>4 DEF WithdrawFee, configVars, windowVars
    <3>. QED BY <2>2, <3>1, <3>2, <3>3, <3>4, AdminCases
  <2>3. CASE PeerNext
    BY <2>3, PeerWithin
  <2>4. CASE TokenNext
    <3>1. ASSUME NEW u \in Users, NEW eid \in Eids, NEW amount_ld \in SendAmounts,
                 NEW min_amount_ld \in Minimums, NEW compose \in Composing,
                 Send(u, eid, amount_ld, min_amount_ld, compose)
          PROVE  WindowInv'
      <4>1. now' = now
        BY <3>1 DEF Send
      <4>. QED BY <3>1, <4>1, SendLimits, PassedWithin
    <3>2. ASSUME NEW packet \in Packets, NEW planned, LzReceive(packet, planned)
          PROVE  WindowInv'
      <4>1. now' = now
        BY <3>2 DEF LzReceive
      <4>. QED BY <3>2, <4>1, ReceiptLimits, PassedWithin
    <3>3. ASSUME NEW u \in Users, NEW to \in Accounts, NEW amount \in SendAmounts,
                 UserTransfer(u, to, amount)
          PROVE  WindowInv'
      BY <2>1, <3>3 DEF UserTransfer, configVars, windowVars
    <3>. QED BY <2>4, <3>1, <3>2, <3>3 DEF TokenNext
  <2>5. CASE EnvironmentNext
    <3>1. ASSUME NEW packet \in Packets, Verify(packet) PROVE WindowInv'
      BY <2>1, <3>1 DEF Verify, configVars, windowVars
    <3>2. ASSUME NEW fee \in TransferFees, TransferFeeChange(fee) PROVE WindowInv'
      BY <2>1, <3>2 DEF TransferFeeChange, configVars, windowVars
    <3>. QED BY <2>5, <3>1, <3>2, TickWithin, MarkWithin DEF EnvironmentNext
  <2>6. CASE UNCHANGED vars
    BY <2>1, <2>6 DEF vars, configVars, windowVars
  <2>. QED BY <2>2, <2>3, <2>4, <2>5, <2>6 DEF Next
<1>. QED BY <1>1, <1>2, OFTTypeCorrect, PTL DEF Spec

\* A peer's way never passes more than its capacity and what refilled it, since
\* its bucket was filled or any later moment.
THEOREM RateLimitsHold == Spec => []RateLimitHolds
<1>1. TypeOK /\ WindowInv => RateLimitHolds
  <2>. SUFFICES ASSUME TypeOK, WindowInv, NEW eid \in Eids, NEW way \in Ways,
                       peer[eid] # None, peer[eid].limiter[way] # None
                PROVE  window[eid][way].used
                         <= peer[eid].limiter[way].capacity + window[eid][way].refilled
    BY DEF RateLimitHolds
  <2>. DEFINE limiter == peer[eid].limiter[way]
  <2>1. limiter \in RateLimiter /\ now \in u64
    BY PeerFields, FeeAndClock DEF Option
  <2>2. window[eid][way].used + available(limiter, now)
          <= limiter.capacity + window[eid][way].refilled
    BY DEF WindowInv
  <2>3. /\ available(limiter, now) \in Nat /\ limiter.capacity \in Nat
        /\ window[eid][way].used \in Nat /\ window[eid][way].refilled \in Nat
    <3>1. available(limiter, now) \in u64 /\ limiter.capacity \in u64
      BY <2>1, AvailableBound DEF RateLimiter
    <3>. HIDE DEF limiter
    <3>. QED BY <3>1, WindowTypes, WidthAssumption, SMT DEF u64
  <2>. HIDE DEF limiter
  <2>4. window[eid][way].used <= limiter.capacity + window[eid][way].refilled
    BY <2>2, <2>3, SMT
  <2>. QED BY <2>4 DEF limiter
<1>. QED BY <1>1, OFTTypeCorrect, WindowInvariant, PTL

-----------------------------------------------------------------------------
(* The supply.                                                             *)

LEMMA AccountsFinite == IsFiniteSet(Accounts) /\ Accounts = Users \cup {Escrow}
  BY OFTAssumption, FS_AddElement DEF Accounts

\* Two accounts change, and the supply by as much.
LEMMA SupplyMoved ==
    ASSUME TypeOK, balance' \in [Accounts -> Nat],
           NEW a \in Accounts, NEW b \in Accounts, a # b,
           \A c \in Accounts \ {a, b} : balance'[c] = balance[c]
    PROVE  /\ Supply \in Int
           /\ Supply' = Supply - balance[a] - balance[b] + balance'[a] + balance'[b]
<1>1. /\ DOMAIN balance = Accounts /\ DOMAIN balance' = Accounts
      /\ \A c \in Accounts : balance[c] \in Int /\ balance'[c] \in Int
      /\ \A c \in Accounts \ {a, b} : balance[c] = balance'[c]
  BY DEF TypeOK
<1>2. /\ Supply = SumFunctionOnSet(balance, Accounts)
      /\ Supply' = SumFunctionOnSet(balance', Accounts)
  BY <1>1 DEF Supply, SumFunction
<1>3. SumFunctionOnSet(balance, Accounts) \in Int
  BY <1>1, AccountsFinite, SumType
<1>4. SumFunctionOnSet(balance', Accounts)
        = SumFunctionOnSet(balance, Accounts)
            - balance[a] - balance[b] + balance'[a] + balance'[b]
  BY <1>1, AccountsFinite, SumMoved
<1>. QED BY <1>2, <1>3, <1>4

\* A mint that withholds nothing keeps its supply in a transfer.
LEMMA TransferKeepsSupply ==
    ASSUME TypeOK, OftType # Adapter, NEW from \in Accounts, NEW to \in Accounts,
           NEW amount \in Nat, TokenTransfer(from, to, amount)
    PROVE  Supply' = Supply
<1>1. CASE from = to
  BY <1>1, Transferred DEF Supply
<1>2. CASE from # to
  <2>1. transfer_fee \in TransferFee /\ transfer_fee.bps = 0
    BY OFTAssumption DEF TypeOK
  <2>2. get_post_fee_amount_ld(transfer_fee, amount) = amount
    BY <2>1, NoFeeWithholdsNothing
  <2>3. /\ balance' \in [Accounts -> Nat]
        /\ balance'[from] = balance[from] - amount
        /\ balance'[to] = balance[to] + amount
        /\ \A c \in Accounts \ {from, to} : balance'[c] = balance[c]
    BY <1>2, <2>2, Transferred
  <2>4. /\ Supply \in Int
        /\ Supply' = Supply - balance[from] - balance[to]
                       + balance'[from] + balance'[to]
    BY <1>2, <2>3, SupplyMoved
  <2>5. balance[from] \in Nat /\ balance[to] \in Nat
    BY DEF TypeOK
  <2>. QED BY <2>3, <2>4, <2>5, SMT
<1>. QED BY <1>1, <1>2

-----------------------------------------------------------------------------
(* What single steps do.                                                   *)

\* What every step keeps that is neither a send nor a receipt.
OthersKept ==
    /\ UNCHANGED <<outboundVars, cleared, composed>>
    /\ verified \subseteq verified'
    /\ \A p \in verified' : p \in verified \/ p \notin cleared
    /\ IF oft_store = None THEN oft_store' = None \/ oft_store'.tvl_ld = 0
       ELSE oft_store' # None /\ oft_store'.tvl_ld = oft_store.tvl_ld
    /\ OftType # Adapter => Supply' = Supply

\* But for sends and receipts, nothing leaves, arrives or is locked, and a Native
\* OFT's supply stays.
LEMMA OthersKeep ==
    ASSUME TypeOK, [Next]_vars
    PROVE  \/ \E u \in Users, eid \in Eids, amount_ld \in SendAmounts,
                min_amount_ld \in Minimums, compose \in Composing :
               Send(u, eid, amount_ld, min_amount_ld, compose)
           \/ \E packet \in Packets, fee \in TransferFees :
               LzReceive(packet,
                         get_post_fee_amount_ld(fee, amount_of(packet.wire)))
           \/ OthersKept
<1>1. CASE AdminNext
  <2>1. ASSUME NEW admin \in Keys, InitOFT(admin) PROVE OthersKept
    BY <2>1, InitStored DEF OthersKept, inboundVars, tokenVars, Supply
  <2>2. ASSUME NEW s \in Keys,
           \/ \E key \in Keys : SetAdmin(s, key)
           \/ \E key \in Option(PausingKeys) : SetPauser(s, key) \/ SetUnpauser(s, key)
           \/ \E paused \in BOOLEAN : SetPaused(s, paused) \/ SetPause(s, paused)
           \/ \E bps \in FeeRates : SetDefaultFee(s, bps)
        PROVE  OthersKept
    <3>1. /\ oft_store # None /\ oft_store' # None
          /\ oft_store'.tvl_ld = oft_store.tvl_ld
          /\ UNCHANGED <<tokenVars, outboundVars, inboundVars>>
      BY <2>2, StoreTyped, OFTAssumption
    <3>. QED BY <3>1 DEF OthersKept, inboundVars, tokenVars, Supply
  <2>3. ASSUME NEW s \in Keys, NEW key \in Keys, SetDelegate(s, key) PROVE OthersKept
    BY <2>3 DEF SetDelegate, OthersKept, inboundVars, tokenVars, Supply
  <2>4. ASSUME NEW s \in Keys, NEW dest \in Accounts, NEW fee_ld \in Withdrawals,
               WithdrawFee(s, dest, fee_ld)
        PROVE  OthersKept
    <3>1. /\ TokenTransfer(Escrow, dest, fee_ld)
          /\ UNCHANGED <<configVars, outboundVars, inboundVars>>
      BY <2>4 DEF WithdrawFee
    <3>2. fee_ld \in Nat /\ Escrow \in Accounts
      BY OFTAssumption, AccountsAre
    <3>3. OftType # Adapter => Supply' = Supply
      BY <3>1, <3>2, TransferKeepsSupply
    <3>. QED BY <3>1, <3>3 DEF OthersKept, configVars, inboundVars
  <2>. QED BY <1>1, <2>1, <2>2, <2>3, <2>4, AdminCases
<1>2. CASE PeerNext
  BY <1>2, PeerTyped DEF OthersKept, inboundVars, tokenVars, Supply
<1>3. ASSUME NEW u \in Users, NEW to \in Accounts, NEW amount \in SendAmounts,
             UserTransfer(u, to, amount)
      PROVE  OthersKept
  <2>1. /\ TokenTransfer(u, to, amount)
        /\ UNCHANGED <<configVars, outboundVars, inboundVars>>
    BY <1>3 DEF UserTransfer
  <2>2. amount \in Nat /\ u \in Accounts
    BY OFTAssumption, AccountsAre, WidthAssumption, SMT DEF u64
  <2>3. OftType # Adapter => Supply' = Supply
    BY <2>1, <2>2, TransferKeepsSupply
  <2>. QED BY <2>1, <2>3 DEF OthersKept, configVars, inboundVars
<1>4. CASE EnvironmentNext
  BY <1>4 DEF EnvironmentNext, Verify, Tick, TransferFeeChange, Mark, OthersKept,
              configVars, inboundVars, tokenVars, Supply
<1>5. CASE UNCHANGED vars
  BY <1>5 DEF vars, OthersKept, configVars, inboundVars, tokenVars, Supply
<1>6. CASE TokenNext
  BY <1>3, <1>6 DEF TokenNext
<1>. QED BY <1>1, <1>2, <1>4, <1>5, <1>6 DEF Next

\* Whatever fees are set and withheld, a sender gives at most amount_ld, and the
\* other chain is told of no more than was given and no less than the minimum.
THEOREM SendsKeepTheirTerms == Spec => SendKeepsItsTerms
<1>. DEFINE Kept(m) == LET paid == balance[m.from] - balance'[m.from] IN
                         /\ m.min_amount_ld <= amount_of(m.wire)
                         /\ amount_of(m.wire) <= paid
                         /\ paid <= m.amount_ld
<1>1. TypeOK /\ [Next]_vars => \A m \in outbox' \ outbox : Kept(m)
  <2>. SUFFICES ASSUME TypeOK, [Next]_vars, NEW m \in outbox' \ outbox PROVE Kept(m)
    OBVIOUS
  <2>1. ASSUME NEW u \in Users, NEW eid \in Eids, NEW amount_ld \in SendAmounts,
               NEW min_amount_ld \in Minimums, NEW compose \in Composing,
               Send(u, eid, amount_ld, min_amount_ld, compose)
        PROVE  Kept(m)
    <3>. DEFINE amount == amounts(amount_ld, eid)
    <3>1. /\ m.from = u /\ m.amount_ld = amount_ld
          /\ m.min_amount_ld = min_amount_ld
          /\ amount_of(m.wire) = amount.received
      BY <2>1, SendMessage
    <3>2. /\ balance[u] \in Nat /\ balance'[u] = balance[u] - amount.sent
          /\ amount.received >= min_amount_ld
      BY <2>1, SendEffects, AccountsAre DEF TypeOK, Send
    <3>3. /\ oft_store # None /\ peer[eid] # None
          /\ amount_ld \in u64 /\ min_amount_ld \in u64
      BY <2>1, OFTAssumption DEF Send, Running
    <3>. DEFINE post == get_post_fee_amount_ld(transfer_fee, amount.sent)
    <3>4. /\ amount.sent \in Nat /\ amount.sent <= amount_ld
          /\ amount.received \in u64 /\ amount.fee \in Nat
          /\ OftType = Adapter => post = amount.received + amount.fee
          /\ OftType # Adapter => amount.sent = amount.received + amount.fee
      BY <3>3, Amounts
    <3>5. post <= amount.sent
      BY <3>4, FeeAndClock, WithheldBound
    <3>. HIDE DEF amount, post
    <3>6. amount.received <= amount.sent
      BY <3>4, <3>5, WidthAssumption, SMT DEF u64
    <3>7. /\ min_amount_ld <= amount.received
          /\ amount.received <= balance[u] - balance'[u]
          /\ balance[u] - balance'[u] <= amount_ld
      BY <3>2, <3>3, <3>4, <3>6, WidthAssumption, SMT DEF u64
    <3>. QED BY <3>1, <3>7
  <2>2. ASSUME NEW packet \in Packets, NEW planned, LzReceive(packet, planned)
        PROVE  outbox' = outbox
    BY <2>2 DEF LzReceive, outboundVars
  <2>3. outbox' # outbox
    OBVIOUS
  <2>. HIDE DEF Kept
  <2>. QED BY <2>1, <2>2, <2>3, OthersKeep DEF OthersKept, outboundVars
<1>. QED BY <1>1, OFTTypeCorrect, PTL DEF Spec, SendKeepsItsTerms

\* A compose message names exactly what its receiver's account gained.
THEOREM ComposedIsWhatArrived == Spec => ComposeSaysWhatArrived
<1>1. TypeOK /\ [Next]_vars =>
        \A c \in composed' \ composed :
          balance'[c.packet.to] = balance[c.packet.to] + c.amount
  <2>. SUFFICES ASSUME TypeOK, [Next]_vars, NEW c \in composed' \ composed
                PROVE  balance'[c.packet.to] = balance[c.packet.to] + c.amount
    OBVIOUS
  <2>1. ASSUME NEW packet \in Packets, NEW planned, LzReceive(packet, planned)
        PROVE  balance'[c.packet.to] = balance[c.packet.to] + c.amount
    <3>1. c = [packet |-> packet, amount |-> composed_amount(amount_of(packet.wire))]
      BY <2>1 DEF LzReceive
    <3>2. balance'[packet.to]
            = balance[packet.to] + composed_amount(amount_of(packet.wire))
      BY <2>1, ReceiptEffects
    <3>3. c.packet = packet /\ c.amount = composed_amount(amount_of(packet.wire))
      BY <3>1
    <3>. QED BY <3>2, <3>3
  <2>2. ASSUME NEW u \in Users, NEW eid \in Eids, NEW amount_ld \in SendAmounts,
               NEW min_amount_ld \in Minimums, NEW compose \in Composing,
               Send(u, eid, amount_ld, min_amount_ld, compose)
        PROVE  composed' = composed
    BY <2>2 DEF Send, inboundVars
  <2>3. composed' # composed
    OBVIOUS
  <2>. QED BY <2>1, <2>2, <2>3, OthersKeep DEF OthersKept
<1>. QED BY <1>1, OFTTypeCorrect, PTL DEF Spec, ComposeSaysWhatArrived

\* While paused the program lets nothing in or out and loses no waiting packet.
THEOREM OFTPauseIsTotal == Spec => OFTPauseFreezes
<1>1. TypeOK /\ [Next]_vars =>
        (oft_store # None /\ oft_store.paused =>
           /\ UNCHANGED <<outboundVars, cleared, composed>>
           /\ oft_store'.tvl_ld = oft_store.tvl_ld
           /\ verified \subseteq verified')
  <2>. SUFFICES ASSUME TypeOK, [Next]_vars, oft_store # None, oft_store.paused
                PROVE  /\ UNCHANGED <<outboundVars, cleared, composed>>
                       /\ oft_store'.tvl_ld = oft_store.tvl_ld
                       /\ verified \subseteq verified'
    OBVIOUS
  <2>1. ~Running
    BY DEF Running
  <2>. QED BY <2>1, OthersKeep DEF OthersKept, Send, LzReceive
<1>. QED BY <1>1, OFTTypeCorrect, PTL DEF Spec, OFTPauseFreezes

-----------------------------------------------------------------------------
(* What is in transit.                                                     *)

\* One more message or packet, and the sum of their worth grows by its worth.
LEMMA WiresGrow ==
    ASSUME NEW S, IsFiniteSet(S), NEW y, y \notin S,
           \A x \in S \cup {y} : x.wire \in Nat
    PROVE  /\ SumOfWires(S) \in Int
           /\ SumOfWires(S \cup {y}) = SumOfWires(S) + amount_of(y.wire)
<1>. DEFINE f == [x \in S |-> amount_of(x.wire)]
            g == [x \in S \cup {y} |-> amount_of(x.wire)]
<1>1. \A x \in S \cup {y} : amount_of(x.wire) \in Int
  BY Worth
<1>2. /\ DOMAIN f = S /\ DOMAIN g = S \cup {y} /\ g[y] = amount_of(y.wire)
      /\ \A x \in S : f[x] \in Int
      /\ \A x \in S : f[x] = g[x]
      /\ \A x \in S \cup {y} : g[x] \in Int
  BY <1>1
<1>3. SumOfWires(S) = SumFunction(f) /\ SumOfWires(S \cup {y}) = SumFunction(g)
  BY DEF SumOfWires
<1>. HIDE DEF f, g
<1>4. SumFunction(f) \in Int
  BY <1>2, SumType DEF SumFunction
<1>5. SumFunction(g) = SumFunction(f) + g[y]
  BY <1>2, SumGrows
<1>. QED BY <1>2, <1>3, <1>4, <1>5

LEMMA WiresEmpty == SumOfWires({}) = 0
<1>. DEFINE f == [x \in {} |-> amount_of(x.wire)]
<1>1. DOMAIN f = {}
  OBVIOUS
<1>2. SumOfWires({}) = SumFunction(f)
  BY DEF SumOfWires
<1>. HIDE DEF f
<1>. QED BY <1>1, <1>2, SumEmpty DEF SumFunction

\* The sums of what was sent and of what was cleared are numbers.
LEMMA WiresTyped ==
    ASSUME TypeOK, TransitInv
    PROVE  SumOfWires(outbox) \in Int /\ SumOfWires(cleared) \in Int
<1>1. /\ \A m \in outbox : m.wire \in Nat
      /\ \A p \in cleared : p.wire \in Nat
  BY OFTAssumption DEF TypeOK, Message, Packet
<1>2. ASSUME NEW S, IsFiniteSet(S), \A x \in S : x.wire \in Nat
      PROVE  SumOfWires(S) \in Int
  <2>. DEFINE f == [x \in S |-> amount_of(x.wire)]
  <2>1. DOMAIN f = S /\ \A x \in S : f[x] \in Int
    BY <1>2, Worth
  <2>2. SumOfWires(S) = SumFunction(f)
    BY DEF SumOfWires
  <2>. HIDE DEF f
  <2>. QED BY <1>2, <2>1, <2>2, SumType DEF SumFunction
<1>. QED BY <1>1, <1>2 DEF TransitInv

LEMMA TransitInit == Init => TransitInv
<1>. SUFFICES ASSUME Init PROVE TransitInv
  OBVIOUS
<1>1. /\ IsFiniteSet(outbox) /\ IsFiniteSet(cleared)
      /\ outbox = {} /\ cleared = {} /\ verified = {} /\ oft_store = None
  BY FS_EmptySet DEF Init
<1>2. SumOfWires(outbox) - SumOfWires(cleared) = 0
  BY <1>1, WiresEmpty
<1>3. Supply = Cardinality(Users) * InitialTokens
  <2>1. /\ balance = [a \in Accounts |-> IF a = Escrow THEN 0 ELSE InitialTokens]
        /\ IsFiniteSet(Users) /\ Escrow \notin Users
        /\ InitialTokens \in Int
    BY OFTAssumption DEF Init
  <2>2. /\ DOMAIN balance = Users \cup {Escrow}
        /\ \A a \in Users : balance[a] = InitialTokens
        /\ balance[Escrow] = 0
        /\ \A a \in Users \cup {Escrow} : balance[a] \in Int
    BY <2>1, AccountsFinite
  <2>3. SumFunctionOnSet(balance, Users) = Cardinality(Users) * InitialTokens
    BY <2>1, <2>2, SumConstant
  <2>4. SumFunctionOnSet(balance, Users \cup {Escrow})
          = SumFunctionOnSet(balance, Users) + balance[Escrow]
    BY <2>1, <2>2, SumWith
  <2>5. SumFunctionOnSet(balance, Users) \in Int
    BY <2>1, <2>2, SumType
  <2>6. Supply = SumFunctionOnSet(balance, Users \cup {Escrow})
    BY <2>2 DEF Supply, SumFunction
  <2>. QED BY <2>2, <2>3, <2>4, <2>5, <2>6
<1>4. Cardinality(Users) * InitialTokens \in Int
  BY OFTAssumption, FS_CardinalityType
<1>5. NothingIsLost
  BY <1>1, <1>2, <1>3, <1>4 DEF NothingIsLost
<1>. QED BY <1>1, <1>5 DEF TransitInv

\* A send adds to what is away what it locks or burns.
LEMMA TransitSent ==
    ASSUME TypeOK, TransitInv, NEW u \in Users, NEW eid \in Eids,
           NEW amount_ld \in SendAmounts, NEW min_amount_ld \in Minimums,
           NEW compose \in Composing,
           Send(u, eid, amount_ld, min_amount_ld, compose)
    PROVE  TransitInv'
<1>. DEFINE amount == amounts(amount_ld, eid)
<1>1. /\ oft_store # None /\ peer[eid] # None /\ amount_ld \in u64
      /\ UNCHANGED inboundVars
  BY OFTAssumption DEF Send, Running
<1>2. /\ amount.sent \in Nat /\ amount.received \in Nat /\ amount.fee \in Nat
      /\ OftType # Adapter => amount.sent = amount.received + amount.fee
  BY <1>1, Amounts, WidthAssumption, SMT DEF u64
<1>3. PICK m \in Message :
        /\ outbox' = outbox \cup {m}
        /\ amount_of(m.wire) = amount.received
        /\ m.nonce = nonce + 1 /\ nonce' = nonce + 1
  BY SendMessage
<1>4. /\ oft_store' # None /\ balance' \in [Accounts -> Nat]
      /\ balance'[u] = balance[u] - amount.sent
      /\ OftType = Adapter => oft_store'.tvl_ld = oft_store.tvl_ld + amount.received
      /\ OftType # Adapter => balance'[Escrow] = balance[Escrow] + amount.fee
      /\ \A a \in Accounts \ {u, Escrow} : balance'[a] = balance[a]
  BY SendEffects, OFTAssumption
<1>. HIDE DEF amount
<1>5. m \notin outbox /\ \A o \in outbox' : o.nonce <= nonce'
  <2>1. nonce \in Nat /\ \A o \in outbox : o.nonce \in Nat /\ o.nonce <= nonce
    BY OFTAssumption, SMT DEF TypeOK, TransitInv, Message
  <2>2. \A o \in outbox : o.nonce # nonce + 1 /\ o.nonce <= nonce + 1
    BY <2>1, SMT
  <2>. QED BY <1>3, <2>1, <2>2
<1>6. IsFiniteSet(outbox') /\ IsFiniteSet(outbox)
  BY <1>3, FS_AddElement DEF TransitInv
<1>7. /\ SumOfWires(outbox) \in Int /\ SumOfWires(cleared) \in Int
      /\ SumOfWires(outbox)' = SumOfWires(outbox) + amount.received
      /\ SumOfWires(cleared)' = SumOfWires(cleared)
  <2>1. \A o \in outbox \cup {m} : o.wire \in Nat
    BY DEF TypeOK, Message
  <2>2. SumOfWires(outbox \cup {m}) = SumOfWires(outbox) + amount_of(m.wire)
    BY <1>5, <1>6, <2>1, WiresGrow
  <2>. QED BY <1>1, <1>3, <2>2, WiresTyped DEF inboundVars
<1>8. NothingIsLost'
  <2>1. CASE OftType = Adapter
    <3>1. /\ SumOfWires(outbox) - SumOfWires(cleared) = oft_store.tvl_ld
          /\ oft_store.tvl_ld \in Nat
      BY <1>1, <2>1, StoreFields DEF TransitInv, NothingIsLost
    <3>2. SumOfWires(outbox)' - SumOfWires(cleared)' = oft_store'.tvl_ld
      BY <1>2, <1>4, <1>7, <2>1, <3>1, SMT
    <3>. QED BY <1>4, <2>1, <3>2 DEF NothingIsLost
  <2>2. CASE OftType # Adapter
    <3>1. /\ Supply \in Int
          /\ Supply' = Supply - balance[u] - balance[Escrow]
                         + balance'[u] + balance'[Escrow]
      BY <1>4, AccountsAre, SupplyMoved
    <3>2. balance[u] \in Nat /\ balance[Escrow] \in Nat
      BY AccountsAre DEF TypeOK
    <3>3. Supply' = Supply - amount.received
      BY <1>2, <1>4, <2>2, <3>1, <3>2, SMT
    <3>4. Supply + (SumOfWires(outbox) - SumOfWires(cleared))
            = Cardinality(Users) * InitialTokens
      BY <2>2 DEF TransitInv, NothingIsLost
    <3>5. Supply' + (SumOfWires(outbox)' - SumOfWires(cleared)')
            = Supply + (SumOfWires(outbox) - SumOfWires(cleared))
      BY <1>2, <1>7, <3>1, <3>3, SMT
    <3>. QED BY <2>2, <3>4, <3>5 DEF NothingIsLost
  <2>. QED BY <2>1, <2>2
<1>. QED BY <1>1, <1>4, <1>5, <1>6, <1>8 DEF TransitInv, inboundVars

\* A receipt takes from what is away what it releases or mints.
LEMMA TransitReceived ==
    ASSUME TypeOK, TransitInv, NEW packet \in Packets, NEW planned,
           LzReceive(packet, planned)
    PROVE  TransitInv'
<1>. DEFINE amount_ld == amount_of(packet.wire)
<1>1. /\ packet \in verified /\ verified' = verified \ {packet}
      /\ cleared' = cleared \cup {packet}
      /\ outbox' = outbox /\ nonce' = nonce
  BY DEF LzReceive, Clear, outboundVars
<1>2. /\ oft_store # None /\ oft_store' # None
      /\ packet.to \in Users /\ amount_ld \in Nat
      /\ balance' \in [Accounts -> Nat]
      /\ OftType = Adapter => oft_store'.tvl_ld = oft_store.tvl_ld - amount_ld
      /\ OftType # Adapter =>
           /\ balance'[packet.to] = balance[packet.to] + amount_ld
           /\ balance'[Escrow] = balance[Escrow]
      /\ \A a \in Accounts \ {packet.to, Escrow} : balance'[a] = balance[a]
  BY ReceiptEffects, OFTAssumption DEF composed_amount
<1>3. packet \notin cleared /\ verified' \cap cleared' = {}
  BY <1>1 DEF TransitInv
<1>4. IsFiniteSet(cleared') /\ IsFiniteSet(cleared)
  BY <1>1, FS_AddElement DEF TransitInv
<1>5. /\ SumOfWires(outbox) \in Int /\ SumOfWires(cleared) \in Int
      /\ SumOfWires(outbox)' = SumOfWires(outbox)
      /\ SumOfWires(cleared)' = SumOfWires(cleared) + amount_ld
  <2>1. \A p \in cleared \cup {packet} : p.wire \in Nat
    BY OFTAssumption DEF TypeOK, Packet
  <2>2. SumOfWires(cleared \cup {packet}) = SumOfWires(cleared) + amount_ld
    BY <1>3, <1>4, <2>1, WiresGrow
  <2>. QED BY <1>1, <2>2, WiresTyped
<1>. HIDE DEF amount_ld
<1>6. NothingIsLost'
  <2>1. CASE OftType = Adapter
    <3>1. /\ SumOfWires(outbox) - SumOfWires(cleared) = oft_store.tvl_ld
          /\ oft_store.tvl_ld \in Nat
      BY <1>2, <2>1, StoreFields DEF TransitInv, NothingIsLost
    <3>2. SumOfWires(outbox)' - SumOfWires(cleared)' = oft_store'.tvl_ld
      BY <1>2, <1>5, <2>1, <3>1, SMT
    <3>. QED BY <1>2, <2>1, <3>2 DEF NothingIsLost
  <2>2. CASE OftType # Adapter
    <3>1. /\ Supply \in Int
          /\ Supply' = Supply - balance[packet.to] - balance[Escrow]
                         + balance'[packet.to] + balance'[Escrow]
      BY <1>2, AccountsAre, SupplyMoved
    <3>2. balance[packet.to] \in Nat /\ balance[Escrow] \in Nat
      BY <1>2, AccountsAre DEF TypeOK
    <3>3. Supply' = Supply + amount_ld
      BY <1>2, <2>2, <3>1, <3>2, SMT
    <3>4. Supply + (SumOfWires(outbox) - SumOfWires(cleared))
            = Cardinality(Users) * InitialTokens
      BY <2>2 DEF TransitInv, NothingIsLost
    <3>5. Supply' + (SumOfWires(outbox)' - SumOfWires(cleared)')
            = Supply + (SumOfWires(outbox) - SumOfWires(cleared))
      BY <1>2, <1>5, <3>1, <3>3, SMT
    <3>. QED BY <2>2, <3>4, <3>5 DEF NothingIsLost
  <2>. QED BY <2>1, <2>2
<1>. QED BY <1>1, <1>2, <1>3, <1>4, <1>6 DEF TransitInv

LEMMA TransitStep == TypeOK /\ TransitInv /\ [Next]_vars => TransitInv'
<1>. SUFFICES ASSUME TypeOK, TransitInv, [Next]_vars PROVE TransitInv'
  OBVIOUS
<1>1. ASSUME OthersKept PROVE TransitInv'
  <2>1. /\ outbox' = outbox /\ nonce' = nonce /\ cleared' = cleared
        /\ \A p \in verified' : p \in verified \/ p \notin cleared
        /\ OftType # Adapter => Supply' = Supply
        /\ IF oft_store = None THEN oft_store' = None \/ oft_store'.tvl_ld = 0
           ELSE oft_store' # None /\ oft_store'.tvl_ld = oft_store.tvl_ld
    BY <1>1 DEF OthersKept, outboundVars
  <2>2. verified' \cap cleared' = {}
    BY <2>1 DEF TransitInv
  <2>3. NothingIsLost'
    <3>1. CASE OftType = Adapter /\ oft_store = None
      <4>1. SumOfWires(outbox)' - SumOfWires(cleared)' = 0
        BY <2>1, <3>1 DEF TransitInv, NothingIsLost
      <4>. QED BY <2>1, <3>1, <4>1 DEF NothingIsLost
    <3>2. CASE OftType = Adapter /\ oft_store # None
      BY <2>1, <3>2 DEF TransitInv, NothingIsLost
    <3>3. CASE OftType # Adapter
      BY <2>1, <3>3 DEF TransitInv, NothingIsLost
    <3>. QED BY <3>1, <3>2, <3>3
  <2>. QED BY <2>1, <2>2, <2>3 DEF TransitInv
<1>. QED BY <1>1, TransitSent, TransitReceived, OthersKeep

\* What is in transit is accounted for, and can be told apart.
THEOREM TransitInvariant == Spec => []TransitInv
  BY TransitInit, TransitStep, OFTTypeCorrect, PTL DEF Spec

\* Whatever is sent and received, with whatever fees and limits and in whatever
\* order, what is away is what an Adapter holds locked, or what a Native OFT's
\* supply is short of: no token is lost on the way and none is made.
THEOREM NothingIsEverLost == Spec => []NothingIsLost
<1>1. TransitInv => NothingIsLost
  BY DEF TransitInv
<1>. QED BY <1>1, TransitInvariant, PTL

-----------------------------------------------------------------------------
(* The other chains.                                                       *)

\* The program among other chains behaves as it does alone.
THEOREM MeshIsSpec == MeshSpec => Spec
<1>1. MeshInit => Init
  BY DEF MeshInit
<1>2. [MeshNext]_allVars => [Next]_vars
  BY DEF MeshNext, ProgramSide, Arrive, Return, Carry, Next, EnvironmentNext,
         allVars
<1>. QED BY <1>1, <1>2, PTL DEF MeshSpec, Spec

\* What a message is worth here is at most what it is worth on the wire.
LEMMA WireCut ==
    ASSUME NEW wire \in Nat
    PROVE  /\ amount_of(wire) \in Nat
           /\ DUST * amount_of(wire) <= ld2sd_rate * wire
<1>. DEFINE low == wire % U128
            q   == low \div DUST
            sd  == q % U64
<1>1. /\ U64 \in Nat \ {0} /\ DUST \in Nat \ {0} /\ ld2sd_rate \in Nat \ {0}
      /\ U128 \in Nat \ {0}
  <2>1. /\ U64 \in Nat \ {0} /\ DUST \in Nat \ {0} /\ ld2sd_rate \in Nat \ {0}
        /\ U128 \in Nat /\ U64 * DUST <= U128
    BY AmountsAssumption, WidthAssumption
  <2>2. 1 * 1 <= U64 * DUST
    BY <2>1, SMT
  <2>. QED BY <2>1, <2>2, SMT
<1>2. low \in Nat /\ low <= wire
  <2>1. U128 * (wire \div U128) \in Nat
    BY <1>1, Division, SMT
  <2>. QED BY <1>1, <2>1, Division, SMT
<1>3. q \in Nat /\ DUST * q <= low
  <2>. HIDE DEF low
  <2>. QED BY <1>1, <1>2, Division, SMT
<1>4. sd \in Nat /\ sd <= q
  <2>. HIDE DEF q
  <2>1. U64 * (q \div U64) \in Nat
    BY <1>1, <1>3, Division, SMT
  <2>. QED BY <1>1, <1>3, <2>1, Division, SMT
<1>5. amount_of(wire) = sd * ld2sd_rate
  BY DEF amount_of, sd2ld, bytes32_to_u64
<1>. HIDE DEF sd, q, low
<1>6. DUST * sd <= wire
  <2>1. DUST * sd <= DUST * q /\ DUST * sd \in Nat /\ DUST * q \in Nat
    BY <1>1, <1>3, <1>4, SMT
  <2>. QED BY <1>2, <1>3, <2>1, SMT
<1>7. ld2sd_rate * (DUST * sd) <= ld2sd_rate * wire
  <2>1. DUST * sd \in Nat
    BY <1>1, <1>4, SMT
  <2>. QED BY <1>1, <1>6, <2>1, SMT
<1>8. DUST * (sd * ld2sd_rate) = ld2sd_rate * (DUST * sd)
  BY <1>1, <1>4, SMT
<1>9. sd * ld2sd_rate \in Nat
  BY <1>1, <1>4, SMT
<1>. QED BY <1>5, <1>7, <1>8, <1>9

\* Messages or packets, and a part of them.
LEMMA WiresSplit ==
    ASSUME NEW S, IsFiniteSet(S), NEW T, T \subseteq S,
           \A x \in S : x.wire \in Nat
    PROVE  /\ SumOfWires(S) \in Nat
           /\ SumOfWires(T) \in Nat
           /\ SumOfWires(S \ T) \in Nat
           /\ SumOfWires(S) = SumOfWires(T) + SumOfWires(S \ T)
<1>. DEFINE f == [x \in S |-> amount_of(x.wire)]
<1>1. \A x \in S : amount_of(x.wire) \in Nat
  BY Worth
<1>2. ASSUME NEW U \in SUBSET S
      PROVE  SumOfWires(U) = SumFunctionOnSet(f, U) /\ SumOfWires(U) \in Nat
  <2>. DEFINE g == [x \in U |-> amount_of(x.wire)]
  <2>1. DOMAIN g = U /\ \A x \in U : g[x] = f[x]
    OBVIOUS
  <2>2. \A x \in U : f[x] \in Nat
    BY <1>1
  <2>3. SumOfWires(U) = SumFunctionOnSet(g, U)
    BY <2>1 DEF SumOfWires, SumFunction
  <2>4. IsFiniteSet(U)
    BY FS_Subset
  <2>. HIDE DEF f, g
  <2>5. SumFunctionOnSet(g, U) = SumFunctionOnSet(f, U)
    BY <2>1, <2>4, SumSame
  <2>6. SumFunctionOnSet(f, U) \in Nat
    BY <2>2, <2>4, SumNat
  <2>. QED BY <2>3, <2>5, <2>6
<1>3. \A x \in S : f[x] \in Int
  BY <1>1
<1>. HIDE DEF f
<1>4. SumFunctionOnSet(f, S) = SumFunctionOnSet(f, T) + SumFunctionOnSet(f, S \ T)
  BY <1>3, SumSplit
<1>. QED BY <1>2, <1>4

\* Only the endpoint adds to what is verified or cleared.
LEMMA ProgramKeeps ==
    ASSUME TypeOK, ProgramSide
    PROVE  verified' \cup cleared' = verified \cup cleared
<1>1. CASE AdminNext
  <2>1. ASSUME NEW admin \in Keys, InitOFT(admin) PROVE UNCHANGED inboundVars
    BY <2>1 DEF InitOFT
  <2>2. ASSUME NEW s \in Keys,
           \/ \E key \in Keys : SetAdmin(s, key)
           \/ \E key \in Option(PausingKeys) : SetPauser(s, key) \/ SetUnpauser(s, key)
           \/ \E paused \in BOOLEAN : SetPaused(s, paused) \/ SetPause(s, paused)
           \/ \E bps \in FeeRates : SetDefaultFee(s, bps)
        PROVE  UNCHANGED inboundVars
    BY <2>2, StoreTyped, OFTAssumption
  <2>3. ASSUME NEW s \in Keys, NEW key \in Keys, SetDelegate(s, key)
        PROVE  UNCHANGED inboundVars
    BY <2>3 DEF SetDelegate
  <2>4. ASSUME NEW s \in Keys, NEW dest \in Accounts, NEW fee_ld \in Withdrawals,
               WithdrawFee(s, dest, fee_ld)
        PROVE  UNCHANGED inboundVars
    BY <2>4 DEF WithdrawFee
  <2>5. UNCHANGED inboundVars
    BY <1>1, <2>1, <2>2, <2>3, <2>4, AdminCases
  <2>. QED BY <2>5 DEF inboundVars
<1>2. CASE PeerNext
  BY <1>2, PeerTyped DEF inboundVars
<1>3. CASE TokenNext
  BY <1>3 DEF TokenNext, Send, LzReceive, Clear, UserTransfer, inboundVars
<1>4. CASE \/ Tick
           \/ \E fee \in TransferFees : TransferFeeChange(fee)
           \/ \E eid \in Eids, way \in Ways : Mark(eid, way)
  BY <1>4 DEF Tick, TransferFeeChange, Mark, inboundVars
<1>. QED BY <1>1, <1>2, <1>3, <1>4 DEF ProgramSide

\* What the mesh's books are made of.
LEMMA MeshNumbers ==
    ASSUME TypeOK, TransitInv, MeshInv
    PROVE  /\ DUST \in Nat \ {0} /\ ld2sd_rate \in Nat \ {0}
           /\ abroad \in Nat /\ InitialAbroad \in Nat
           /\ IsFiniteSet(returned) /\ IsFiniteSet(arrived)
           /\ SumOfWires(returned) \in Nat /\ SumOfWires(arrived) \in Nat
           /\ \A x \in outbox \cup arrived \cup returned : x.wire \in Nat
           /\ \A packet \in Packets : packet.wire \in Nat
<1>1. /\ \A m \in outbox : m.wire \in Nat
      /\ \A packet \in Packets : packet.wire \in Nat
  BY OFTAssumption DEF TypeOK, Message, Packet
<1>2. IsFiniteSet(arrived) /\ IsFiniteSet(returned)
  BY FS_Subset DEF MeshInv, TransitInv
<1>3. arrived \subseteq outbox /\ returned \subseteq Packets
  BY DEF MeshInv
<1>4. SumOfWires(arrived) \in Nat /\ SumOfWires(returned) \in Nat
  BY <1>1, <1>2, <1>3, WiresSplit
<1>. QED BY <1>1, <1>2, <1>3, <1>4, AmountsAssumption, MeshAssumption DEF MeshInv

LEMMA MeshInitial == MeshInit => MeshInv
<1>. SUFFICES ASSUME MeshInit PROVE MeshInv
  OBVIOUS
<1>1. /\ outbox = {} /\ verified = {} /\ cleared = {}
      /\ arrived = {} /\ returned = {} /\ abroad = InitialAbroad
  BY DEF MeshInit, Init
<1>2. SumOfWires(arrived) = 0 /\ SumOfWires(returned) = 0
  BY <1>1, WiresEmpty
<1>3. InitialAbroad \in Nat /\ ld2sd_rate * InitialAbroad \in Nat
  BY AmountsAssumption, MeshAssumption, SMT
<1>4. DUST * SumOfWires(returned) + ld2sd_rate * abroad
        <= DUST * SumOfWires(arrived) + ld2sd_rate * InitialAbroad
  <2>1. DUST * 0 = 0
    BY AmountsAssumption, SMT
  <2>. QED BY <1>1, <1>2, <1>3, <2>1, SMT
<1>. QED BY <1>1, <1>3, <1>4, FS_EmptySet DEF MeshInv

\* The other chains hold more by all a message tells them of.
LEMMA MeshArrived ==
    ASSUME TypeOK, TransitInv, MeshInv, NEW m \in outbox, Arrive(m)
    PROVE  MeshInv'
<1>. DEFINE worth == amount_of(m.wire)
            R == SumOfWires(returned)
            A == SumOfWires(arrived)
<1>1. /\ m \notin arrived /\ arrived' = arrived \cup {m}
      /\ abroad' = abroad + m.wire /\ UNCHANGED <<vars, returned>>
  BY DEF Arrive
<1>2. /\ m.wire \in Nat /\ worth \in Nat /\ R \in Nat /\ A \in Nat
      /\ abroad \in Nat /\ InitialAbroad \in Nat
      /\ DUST \in Nat /\ ld2sd_rate \in Nat
  BY MeshNumbers, WireCut
<1>3. SumOfWires(arrived)' = A + worth
  <2>1. IsFiniteSet(arrived) /\ \A x \in arrived \cup {m} : x.wire \in Nat
    BY MeshNumbers
  <2>. QED BY <1>1, <2>1, WiresGrow
<1>4. /\ DUST * worth = ld2sd_rate * m.wire
      /\ DUST * R + ld2sd_rate * abroad <= DUST * A + ld2sd_rate * InitialAbroad
  BY DEF MeshInv
<1>. HIDE DEF worth, R, A
<1>5. /\ DUST * (A + worth) = DUST * A + DUST * worth
      /\ ld2sd_rate * (abroad + m.wire) = ld2sd_rate * abroad + ld2sd_rate * m.wire
  BY <1>2, SMT
<1>6. /\ DUST * R \in Nat /\ DUST * A \in Nat /\ DUST * worth \in Nat
      /\ ld2sd_rate * abroad \in Nat /\ ld2sd_rate * InitialAbroad \in Nat
      /\ ld2sd_rate * m.wire \in Nat
  BY <1>2, SMT
<1>7. DUST * R + ld2sd_rate * (abroad + m.wire)
        <= DUST * (A + worth) + ld2sd_rate * InitialAbroad
  BY <1>4, <1>5, <1>6, SMT
<1>8. (DUST * SumOfWires(returned) + ld2sd_rate * abroad
         <= DUST * SumOfWires(arrived) + ld2sd_rate * InitialAbroad)'
  BY <1>1, <1>3, <1>7 DEF R
<1>9. /\ abroad' \in Nat
      /\ arrived' \subseteq outbox'
      /\ UNCHANGED <<outbox, verified, cleared>>
  BY <1>1, <1>2 DEF MeshInv, vars, outboundVars, inboundVars
<1>. QED BY <1>1, <1>8, <1>9 DEF MeshInv

\* They hold less by what a packet carries, which is here worth no more.
LEMMA MeshReturned ==
    ASSUME TypeOK, TransitInv, MeshInv, NEW packet \in Packets, Return(packet)
    PROVE  MeshInv'
<1>. DEFINE worth == amount_of(packet.wire)
            R == SumOfWires(returned)
            A == SumOfWires(arrived)
<1>1. /\ packet \notin returned /\ returned' = returned \cup {packet}
      /\ packet.wire <= abroad
      /\ abroad' = abroad - packet.wire /\ UNCHANGED <<vars, arrived>>
  BY DEF Return
<1>2. /\ packet.wire \in Nat /\ worth \in Nat /\ R \in Nat /\ A \in Nat
      /\ abroad \in Nat /\ InitialAbroad \in Nat
      /\ DUST \in Nat /\ ld2sd_rate \in Nat
      /\ DUST * worth <= ld2sd_rate * packet.wire
  BY MeshNumbers, WireCut
<1>3. SumOfWires(returned)' = R + worth
  <2>1. IsFiniteSet(returned) /\ \A x \in returned \cup {packet} : x.wire \in Nat
    BY MeshNumbers
  <2>. QED BY <1>1, <2>1, WiresGrow
<1>4. DUST * R + ld2sd_rate * abroad <= DUST * A + ld2sd_rate * InitialAbroad
  BY DEF MeshInv
<1>. HIDE DEF worth, R, A
<1>5. /\ DUST * (R + worth) = DUST * R + DUST * worth
      /\ ld2sd_rate * (abroad - packet.wire)
           = ld2sd_rate * abroad - ld2sd_rate * packet.wire
  BY <1>2, SMT
<1>6. /\ DUST * R \in Nat /\ DUST * A \in Nat /\ DUST * worth \in Nat
      /\ ld2sd_rate * abroad \in Nat /\ ld2sd_rate * InitialAbroad \in Nat
      /\ ld2sd_rate * packet.wire \in Nat
  BY <1>2, SMT
<1>7. DUST * (R + worth) + ld2sd_rate * (abroad - packet.wire)
        <= DUST * A + ld2sd_rate * InitialAbroad
  BY <1>2, <1>4, <1>5, <1>6, SMT
<1>8. (DUST * SumOfWires(returned) + ld2sd_rate * abroad
         <= DUST * SumOfWires(arrived) + ld2sd_rate * InitialAbroad)'
  BY <1>1, <1>3, <1>7 DEF A
<1>9. /\ abroad' \in Nat
      /\ IsFiniteSet(returned') /\ returned \subseteq returned'
      /\ UNCHANGED <<outbox, verified, cleared>>
  BY <1>1, <1>2, FS_AddElement DEF MeshInv, vars, outboundVars, inboundVars
<1>. QED BY <1>1, <1>8, <1>9 DEF MeshInv

\* The program tells of no more than the wire can carry exactly.
LEMMA MeshServed ==
    ASSUME TypeOK, MeshInv, ProgramSide
    PROVE  MeshInv'
<1>1. UNCHANGED <<arrived, returned, abroad>>
  BY DEF ProgramSide, meshVars
<1>2. verified' \cup cleared' = verified \cup cleared
  BY ProgramKeeps
<1>3. /\ outbox \subseteq outbox'
      /\ \A m \in outbox' : DUST * amount_of(m.wire) = ld2sd_rate * m.wire
  <2>1. ASSUME outbox' = outbox
        PROVE  /\ outbox \subseteq outbox'
               /\ \A m \in outbox' : DUST * amount_of(m.wire) = ld2sd_rate * m.wire
    BY <2>1 DEF MeshInv
  <2>2. ASSUME NEW u \in Users, NEW eid \in Eids, NEW amount_ld \in SendAmounts,
               NEW min_amount_ld \in Minimums, NEW compose \in Composing,
               Send(u, eid, amount_ld, min_amount_ld, compose)
        PROVE  /\ outbox \subseteq outbox'
               /\ \A m \in outbox' : DUST * amount_of(m.wire) = ld2sd_rate * m.wire
    <3>1. PICK m \in Message :
            /\ outbox' = outbox \cup {m}
            /\ DUST * amount_of(m.wire) = ld2sd_rate * m.wire
      BY <2>2, SendMessage
    <3>. QED BY <3>1 DEF MeshInv
  <2>3. ASSUME NEW packet \in Packets, NEW planned, LzReceive(packet, planned)
        PROVE  outbox' = outbox
    BY <2>3 DEF LzReceive, outboundVars
  <2>4. ASSUME OthersKept PROVE outbox' = outbox
    BY <2>4 DEF OthersKept, outboundVars
  <2>5. Next
    BY DEF ProgramSide, Next, EnvironmentNext
  <2>. QED BY <2>1, <2>2, <2>3, <2>4, <2>5, OthersKeep
<1>. QED BY <1>1, <1>2, <1>3 DEF MeshInv

LEMMA MeshStep ==
    TypeOK /\ TransitInv /\ MeshInv /\ [MeshNext]_allVars => MeshInv'
<1>. SUFFICES ASSUME TypeOK, TransitInv, MeshInv, [MeshNext]_allVars
              PROVE  MeshInv'
  OBVIOUS
<1>1. ASSUME NEW packet \in Packets, Carry(packet) PROVE MeshInv'
  <2>1. /\ packet \in returned /\ verified' = verified \cup {packet}
        /\ UNCHANGED <<cleared, outbox, arrived, returned, abroad>>
    BY <1>1 DEF Carry, Verify, meshVars, outboundVars
  <2>. QED BY <2>1 DEF MeshInv
<1>2. CASE UNCHANGED allVars
  BY <1>2 DEF allVars, meshVars, vars, outboundVars, inboundVars, MeshInv
<1>. QED BY <1>1, <1>2, MeshArrived, MeshReturned, MeshServed DEF MeshNext

\* What comes back, on its way or due, came from here or was abroad at first.
THEOREM MeshInvariant == MeshSpec => []MeshInv
  BY MeshInitial, MeshStep, MeshIsSpec, OFTTypeCorrect, TransitInvariant,
     PTL DEF MeshSpec

LEMMA MeshBacks == TypeOK /\ TransitInv /\ MeshInv => ReturnsAreBacked
<1>. SUFFICES ASSUME TypeOK, TransitInv, MeshInv PROVE ReturnsAreBacked
  OBVIOUS
<1>. DEFINE R == SumOfWires(returned)
            A == SumOfWires(arrived)
            O == SumOfWires(outbox)
            C == SumOfWires(cleared)
            Home == Cardinality(Users) * InitialTokens
<1>1. /\ DUST \in Nat \ {0} /\ ld2sd_rate \in Nat \ {0} /\ U64 \in Nat
      /\ abroad \in Nat /\ InitialAbroad \in Nat
  BY MeshNumbers, WidthAssumption
<1>2. R \in Nat /\ C \in Nat /\ Due \in Nat /\ R = C + Due
  <2>1. IsFiniteSet(returned) /\ \A x \in returned : x.wire \in Nat
    BY MeshNumbers
  <2>2. cleared \subseteq returned
    BY DEF MeshInv
  <2>. QED BY <2>1, <2>2, WiresSplit DEF Due
<1>3. A \in Nat /\ O \in Nat /\ A <= O
  <2>1. \A x \in outbox : x.wire \in Nat
    BY MeshNumbers
  <2>2. arrived \subseteq outbox /\ IsFiniteSet(outbox)
    BY DEF MeshInv, TransitInv
  <2>. DEFINE rest == SumOfWires(outbox \ arrived)
  <2>3. A \in Nat /\ O \in Nat /\ rest \in Nat /\ O = A + rest
    BY <2>1, <2>2, WiresSplit
  <2>. HIDE DEF rest, A, O
  <2>. QED BY <2>3, SMT
<1>4. DUST * R + ld2sd_rate * abroad <= DUST * A + ld2sd_rate * InitialAbroad
  BY DEF MeshInv
<1>. HIDE DEF R, A, O, C
<1>5. /\ DUST * R \in Nat /\ DUST * A \in Nat /\ DUST * O \in Nat
      /\ ld2sd_rate * abroad \in Nat /\ ld2sd_rate * InitialAbroad \in Nat
      /\ DUST * A <= DUST * O
  BY <1>1, <1>2, <1>3, SMT
<1>6. DUST * R <= DUST * O + ld2sd_rate * InitialAbroad
  BY <1>4, <1>5, SMT
<1>7. CASE OftType = Adapter
  <2>1. InitialAbroad = 0
    BY <1>7, MeshAssumption
  <2>2. DUST * R <= DUST * O
    <3>1. ld2sd_rate * 0 = 0
      BY <1>1, SMT
    <3>. QED BY <1>5, <1>6, <2>1, <3>1, SMT
  <2>3. R <= O
    <3>1. SUFFICES ASSUME O + 1 <= R PROVE FALSE
      BY <1>2, <1>3, SMT
    <3>2. DUST * (O + 1) <= DUST * R
      BY <1>1, <1>2, <1>3, <3>1, SMT
    <3>3. DUST * (O + 1) = DUST * O + DUST
      BY <1>1, <1>3, SMT
    <3>. QED BY <1>1, <1>5, <2>2, <3>2, <3>3, SMT
  <2>4. O - C = IF oft_store = None THEN 0 ELSE oft_store.tvl_ld
    BY <1>7 DEF TransitInv, NothingIsLost, O, C
  <2>5. Due <= O - C
    BY <1>2, <1>3, <2>3, SMT
  <2>. QED BY <1>7, <2>4, <2>5 DEF ReturnsAreBacked
<1>8. CASE OftType # Adapter
  <2>1. OftType = Native
    BY <1>8, OFTAssumption
  <2>2. Supply \in Int
    <3>1. DOMAIN balance = Accounts /\ \A a \in Accounts : balance[a] \in Int
      BY DEF TypeOK
    <3>. QED BY <3>1, AccountsFinite, SumType DEF Supply, SumFunction
  <2>3. Home \in Nat
    BY OFTAssumption, FS_CardinalityType, SMT
  <2>4. Supply + (O - C) = Home
    BY <1>8 DEF TransitInv, NothingIsLost, O, C
  <2>5. DUST * Home + ld2sd_rate * InitialAbroad < DUST * U64
    BY <2>1, MeshAssumption
  <2>. HIDE DEF Home
  <2>6. Supply + Due = Home - O + R
    BY <1>2, <1>3, <2>2, <2>3, <2>4, SMT
  <2>7. DUST * (Home - O + R) = DUST * Home - DUST * O + DUST * R
    BY <1>1, <1>2, <1>3, <2>3, SMT
  <2>8. DUST * Home \in Nat /\ DUST * U64 \in Nat
    BY <1>1, <2>3, SMT
  <2>9. DUST * (Home - O + R) < DUST * U64
    BY <1>5, <1>6, <2>5, <2>7, <2>8, SMT
  <2>10. Home - O + R < U64
    <3>. DEFINE total == Home - O + R
    <3>1. total \in Int
      BY <1>2, <1>3, <2>3, SMT
    <3>2. DUST * total < DUST * U64
      BY <2>9
    <3>. HIDE DEF total
    <3>3. SUFFICES ASSUME U64 <= total PROVE FALSE
      BY <1>1, <3>1, SMT DEF total
    <3>4. DUST * U64 <= DUST * total
      BY <1>1, <3>1, <3>3, SMT
    <3>5. DUST * total \in Int
      BY <1>1, <3>1, SMT
    <3>. QED BY <2>8, <3>2, <3>4, <3>5, SMT
  <2>. QED BY <1>8, <2>6, <2>10 DEF ReturnsAreBacked
<1>. QED BY <1>7, <1>8

\* Whatever was sent, fees withheld and withdrawn, packets received in whatever
\* order, and dust lost in the decimals of the wire: all the other chains have
\* sent back can still be given out, as an Adapter has it locked and a Native
\* OFT can mint it.
THEOREM ReturnsAreAlwaysBacked == MeshSpec => []ReturnsAreBacked
  BY MeshBacks, MeshInvariant, MeshIsSpec, OFTTypeCorrect, TransitInvariant, PTL

\* In particular the tokens for a packet that is verified are there, however many
\* others are: lz_receive never refuses it for want of locked tokens in an
\* Adapter's escrow, nor because a mint would not fit in the supply.
THEOREM VerifiedIsBacked ==
    MeshSpec =>
      [](\A packet \in verified :
           IF OftType = Adapter
           THEN oft_store # None => amount_of(packet.wire) <= oft_store.tvl_ld
           ELSE Supply + amount_of(packet.wire) < U64)
<1>1. ASSUME TypeOK, TransitInv, MeshInv, NEW packet \in verified
      PROVE  IF OftType = Adapter
             THEN oft_store # None => amount_of(packet.wire) <= oft_store.tvl_ld
             ELSE Supply + amount_of(packet.wire) < U64
  <2>. DEFINE worth == amount_of(packet.wire)
              waiting == returned \ cleared
  <2>1. packet \in waiting /\ packet.wire \in Nat
    BY <1>1, MeshNumbers DEF MeshInv, TransitInv, TypeOK
  <2>2. IsFiniteSet(waiting) /\ \A x \in waiting : x.wire \in Nat
    BY <1>1, MeshNumbers, FS_Subset
  <2>3. SumOfWires({packet}) = worth /\ worth \in Nat
    <3>1. SumOfWires({} \cup {packet}) = SumOfWires({}) + worth
      BY <2>1, FS_EmptySet, WiresGrow
    <3>2. {} \cup {packet} = {packet}
      OBVIOUS
    <3>. QED BY <2>1, <3>1, <3>2, WiresEmpty, Worth
  <2>. HIDE DEF waiting, worth
  <2>4. /\ SumOfWires(waiting) \in Nat
        /\ SumOfWires(waiting \ {packet}) \in Nat
        /\ SumOfWires(waiting) = SumOfWires({packet}) + SumOfWires(waiting \ {packet})
    <3>1. {packet} \subseteq waiting
      BY <2>1
    <3>. QED BY <2>2, <3>1, WiresSplit
  <2>5. Due \in Nat /\ worth <= Due
    BY <2>3, <2>4, SMT DEF Due, waiting
  <2>6. ReturnsAreBacked
    BY <1>1, MeshBacks
  <2>7. CASE OftType = Adapter
    <3>1. oft_store # None => oft_store.tvl_ld \in Nat
      BY <1>1, StoreFields
    <3>. QED BY <2>3, <2>5, <2>6, <2>7, <3>1 DEF ReturnsAreBacked, worth
  <2>8. CASE OftType # Adapter
    <3>1. Supply \in Int /\ U64 \in Int
      <4>1. DOMAIN balance = Accounts /\ \A a \in Accounts : balance[a] \in Int
        BY <1>1 DEF TypeOK
      <4>. QED BY <4>1, AccountsFinite, SumType, WidthAssumption DEF Supply, SumFunction
    <3>2. Supply + Due < U64
      BY <2>6, <2>8 DEF ReturnsAreBacked
    <3>3. Supply + worth < U64
      BY <2>3, <2>5, <3>1, <3>2, SMT
    <3>. QED BY <2>8, <3>3 DEF worth
  <2>. QED BY <2>7, <2>8
<1>. DEFINE Backed == \A packet \in verified :
                        IF OftType = Adapter
                        THEN oft_store # None => amount_of(packet.wire) <= oft_store.tvl_ld
                        ELSE Supply + amount_of(packet.wire) < U64
<1>2. TypeOK /\ TransitInv /\ MeshInv => Backed
  BY <1>1
<1>3. MeshSpec => []Backed
  <2>. HIDE DEF Backed
  <2>. QED BY <1>2, MeshInvariant, MeshIsSpec, OFTTypeCorrect, TransitInvariant, PTL
<1>. QED BY <1>3

=============================================================================
