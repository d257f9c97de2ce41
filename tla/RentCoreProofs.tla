--------------------------- MODULE RentCoreProofs ---------------------------
(* Proofs about RentCore, for every limit on money, every number of basis    *)
(* points and every set of requests.                                         *)
EXTENDS RentCore, TLAPS

-----------------------------------------------------------------------------
(* Arithmetic.                                                               *)

LEMMA DivisionFacts ==
  ASSUME NEW a \in Int, NEW d \in Nat \ {0}
  PROVE  /\ a \div d \in Int
         /\ (a \div d) * d <= a
         /\ a < (a \div d) * d + d
BY Z3

LEMMA ProductIsMonotone ==
  ASSUME NEW a \in Int, NEW b \in Int, NEW c \in Nat, a <= b
  PROVE  a * c <= b * c
<1>1. (b - a) * c >= 0
  <2>1. b - a \in Nat
    OBVIOUS
  <2>2. \A x \in Nat : x * c >= 0
    BY Z3
  <2> QED
    BY <2>1, <2>2
<1>2. (b - a) * c = b * c - a * c
  BY Z3
<1> QED
  BY <1>1, <1>2, Z3

\* The rounded share of an amount is at most the amount, and at most half a
\* cent off.
LEMMA FractionFacts ==
  ASSUME NEW v \in Nat, NEW b \in 0..Bps
  PROVE  /\ Fraction(v, b) \in 0..v
         /\ 2 * (Fraction(v, b) * Bps - v * b) <= Bps
         /\ -Bps <= 2 * (Fraction(v, b) * Bps - v * b)
<1> DEFINE h == Bps \div 2
           x == v * b + h
           f == x \div Bps
<1>1. /\ Bps \in Nat \ {0} /\ h \in Nat /\ Bps = 2 * h
  BY RentAssumption, Z3
<1>2. v * b \in Nat /\ v * b <= v * Bps /\ v * Bps \in Nat
  BY <1>1, ProductIsMonotone, Z3
<1>3. x \in Nat
  BY <1>1, <1>2
<1> HIDE DEF h, x
<1>4. f \in Int /\ f * Bps <= x /\ x < f * Bps + Bps
  <2>1. x \in Int /\ Bps \in Nat \ {0}
    BY <1>1, <1>3
  <2> HIDE DEF f
  <2>2. f = x \div Bps
    BY DEF f
  <2> QED
    BY <2>1, <2>2, DivisionFacts, Zenon
<1> HIDE DEF f
<1>5. f >= 0
  <2> SUFFICES ASSUME f + 1 <= 0 PROVE FALSE
    BY <1>4
  <2>1. (f + 1) * Bps <= 0 * Bps
    BY <1>1, <1>4, ProductIsMonotone
  <2>2. (f + 1) * Bps = f * Bps + Bps /\ 0 * Bps = 0 /\ f * Bps \in Int
    BY <1>1, <1>4, Z3
  <2> QED
    BY <1>1, <1>3, <1>4, <2>1, <2>2
<1>6. f <= v
  <2> SUFFICES ASSUME v + 1 <= f PROVE FALSE
    BY <1>4
  <2>1. (v + 1) * Bps <= f * Bps
    BY <1>1, <1>4, ProductIsMonotone
  <2> QED
    BY <1>1, <1>2, <1>4, <2>1, Z3 DEF x
<1>7. Fraction(v, b) = f
  BY DEF Fraction, f, x, h
<1>8. 2 * (f * Bps - v * b) <= Bps /\ -Bps <= 2 * (f * Bps - v * b)
  BY <1>1, <1>2, <1>4, Z3 DEF x
<1> QED
  BY <1>4, <1>5, <1>6, <1>7, <1>8

\* A share of a whole number of cents is one.
LEMMA FractionIsNat ==
  ASSUME NEW v \in Nat, NEW b \in 0..Bps
  PROVE  Fraction(v, b) \in Nat
<1>1. Fraction(v, b) \in 0..v
  BY FractionFacts, Zenon
<1> QED
  BY <1>1

\* The shares of two amounts differ by less than the exact shares and one cent.
LEMMA FractionGrowth ==
  ASSUME NEW x \in Nat, NEW y \in Nat, NEW b \in 0..Bps
  PROVE  (Fraction(y, b) - Fraction(x, b)) * Bps < (y - x) * b + Bps
<1> DEFINE h == Bps \div 2
           f == Fraction(x, b)
           g == Fraction(y, b)
<1>1. Bps \in Nat \ {0} /\ h \in Nat
  BY RentAssumption, Z3
<1>2. x * b + h \in Int /\ y * b + h \in Int /\ x * b \in Int /\ y * b \in Int
  BY <1>1, Z3
<1>3. f \in Int /\ x * b + h < f * Bps + Bps
  BY <1>1, <1>2, DivisionFacts, Zenon DEF Fraction
<1>4. g \in Int /\ g * Bps <= y * b + h
  BY <1>1, <1>2, DivisionFacts, Zenon DEF Fraction
<1> HIDE DEF f, g, h
<1>5. /\ (g - f) * Bps = g * Bps - f * Bps /\ (y - x) * b = y * b - x * b
      /\ g * Bps \in Int /\ f * Bps \in Int
  BY <1>1, <1>3, <1>4, Z3
<1>6. (g - f) * Bps < (y - x) * b + Bps
  BY <1>1, <1>2, <1>3, <1>4, <1>5
<1> QED
  BY <1>6 DEF f, g

\* A product that stays under one of two more factors bounds the factor.
LEMMA FactorBound ==
  ASSUME NEW q \in Int, NEW z \in Int, NEW d \in Nat \ {0}, q * d < z * d
  PROVE  q < z
<1> SUFFICES ASSUME z <= q PROVE FALSE
  OBVIOUS
<1>1. z * d <= q * d
  BY ProductIsMonotone
<1>2. z * d \in Int /\ q * d \in Int
  BY Z3
<1> QED
  BY <1>1, <1>2

\* What remains after one share never falls as the amount grows, and after
\* two shares of no more than the whole it falls by at most a cent.
LEMMA RemainderGrowth ==
  ASSUME NEW x \in Nat, NEW y \in Nat, x <= y, NEW a \in 0..Bps, NEW b \in 0..Bps,
         a + b <= Bps
  PROVE  /\ x - Fraction(x, a) <= y - Fraction(y, a)
         /\ x - Fraction(x, a) - Fraction(x, b) <= y - Fraction(y, a) - Fraction(y, b) + 1
<1> DEFINE f == Fraction(y, a) - Fraction(x, a)
           g == Fraction(y, b) - Fraction(x, b)
           w == y - x
<1>1. /\ Bps \in Nat \ {0} /\ w \in Nat
      /\ Fraction(x, a) \in Nat /\ Fraction(y, a) \in Nat
      /\ Fraction(x, b) \in Nat /\ Fraction(y, b) \in Nat
  BY RentAssumption, FractionIsNat
<1>2. f * Bps < w * a + Bps /\ g * Bps < w * b + Bps
  BY FractionGrowth, Zenon
<1>3. f \in Int /\ g \in Int
  BY <1>1
<1> HIDE DEF f, g, w
<1>4. a * w <= Bps * w /\ (a + b) * w <= Bps * w
  BY <1>1, ProductIsMonotone
<1>5. /\ a * w = w * a /\ (a + b) * w = w * a + w * b /\ Bps * w = w * Bps
      /\ (w + 1) * Bps = w * Bps + Bps /\ (w + 2) * Bps = w * Bps + 2 * Bps
      /\ (f + g) * Bps = f * Bps + g * Bps
      /\ w * a \in Int /\ w * b \in Int /\ w * Bps \in Int /\ f * Bps \in Int /\ g * Bps \in Int
  BY <1>1, <1>3, Z3
<1>6. f * Bps < (w + 1) * Bps /\ (f + g) * Bps < (w + 2) * Bps
  BY <1>1, <1>2, <1>4, <1>5
<1>7. f < w + 1 /\ f + g < w + 2
  BY <1>1, <1>3, <1>6, FactorBound
<1> QED
  BY <1>1, <1>3, <1>7 DEF f, g, w

\* Division towards zero gives no more than the dividend.
LEMMA QuotientFacts ==
  ASSUME NEW a \in Int, NEW d \in Nat \ {0}, NEW m \in Nat, -m <= a, a <= m
  PROVE  Quotient(a, d) \in -m..m
<1>1. ASSUME NEW c \in Nat, c <= m
      PROVE  c \div d \in 0..m
  <2>1. /\ c \div d \in Int /\ (c \div d) * d <= c /\ c < (c \div d) * d + d
    BY DivisionFacts
  <2>2. c \div d >= 0
    BY Z3
  <2>3. (c \div d) * 1 <= (c \div d) * d
    BY <2>1, <2>2, Z3
  <2> QED
    BY <1>1, <2>1, <2>2, <2>3
<1>2. CASE a >= 0
  BY <1>1, <1>2 DEF Quotient
<1>3. CASE a < 0
  <2>1. -a \in Nat /\ -a <= m
    BY <1>3
  <2>2. (-a) \div d \in 0..m
    BY <1>1, <2>1
  <2> QED
    BY <1>3, <2>2 DEF Quotient
<1> QED
  BY <1>2, <1>3

\* The exact arithmetic behind the roundings, with B for Bps, p for the
\* potential rent, e for the effective rent and w for what the fees leave.
LEMMA RoundingAlgebra ==
  ASSUME NEW B \in Nat, NEW p \in Int, NEW v \in Int, NEW m \in Int, NEW k \in Int,
         NEW F \in Int, NEW G \in Int, NEW H \in Int, NEW c \in Int,
         m \in Nat, k \in Nat, m + k <= B,
         -B <= 2 * (F * B - p * v), 2 * (F * B - p * v) <= B,
         -B <= 2 * (G * B - (p - F) * m), 2 * (G * B - (p - F) * m) <= B,
         -B <= 2 * (H * B - (p - F) * k), 2 * (H * B - (p - F) * k) <= B
  PROVE  LET error == (p - F - (c + G + H)) * B * B
                        - (p * (B - v) * (B - m - k) - c * B * B)
         IN  2 * error <= 3 * B * B /\ -2 * error <= 3 * B * B
<1> DEFINE f == F * B - p * v
           g == G * B - (p - F) * m
           h == H * B - (p - F) * k
           w == B - m - k
           error == (p - F - (c + G + H)) * B * B - (p * (B - v) * w - c * B * B)
<1>1. error = -(f * w) - (g + h) * B
  BY Z3
<1>2. /\ f \in Int /\ g \in Int /\ h \in Int /\ w \in Nat /\ w <= B
      /\ -B <= 2 * f /\ 2 * f <= B /\ -B <= 2 * g /\ 2 * g <= B /\ -B <= 2 * h /\ 2 * h <= B
  BY Z3
<1> HIDE DEF f, g, h, w, error
<1>3. (2 * f) * w <= B * w /\ (-B) * w <= (2 * f) * w /\ w * B <= B * B
  BY <1>2, ProductIsMonotone
<1>4. 2 * (g + h) * B <= (2 * B) * B /\ (-(2 * B)) * B <= 2 * (g + h) * B
  BY <1>2, ProductIsMonotone
<1>5. 2 * error <= 3 * B * B /\ -2 * error <= 3 * B * B
  <2>1. /\ (2 * f) * w = 2 * (f * w) /\ (-B) * w = -(w * B) /\ B * w = w * B
        /\ 2 * (g + h) * B = 2 * ((g + h) * B) /\ (2 * B) * B = 2 * (B * B)
        /\ (-(2 * B)) * B = -(2 * (B * B)) /\ 3 * B * B = 3 * (B * B)
        /\ f * w \in Int /\ (g + h) * B \in Int /\ B * B \in Int /\ w * B \in Int
    BY <1>2, Z3
  <2>2. error \in Int
    BY <1>1, <2>1
  <2> QED
    BY <1>1, <1>3, <1>4, <2>1, <2>2
<1> QED
  BY <1>5 DEF error, w

LEMMA SmallRemainder ==
  ASSUME NEW d \in Nat \ {0}, NEW a \in 0..d - 1
  PROVE  a % d = a
BY Z3

\* Inside i64 the cast changes nothing.
LEMMA WrapFacts ==
  ASSUME NEW v \in -MaxInt..MaxInt
  PROVE  Wrap(v) = v
<1>1. MaxInt \in Nat
  BY RentAssumption
<1>2. /\ 2 * (MaxInt + 1) \in Nat \ {0}
      /\ v + MaxInt + 1 \in 0..2 * (MaxInt + 1) - 1
  BY <1>1
<1>3. (v + MaxInt + 1) % (2 * (MaxInt + 1)) = v + MaxInt + 1
  BY <1>2, SmallRemainder
<1> QED
  BY <1>1, <1>3 DEF Wrap

-----------------------------------------------------------------------------
(* One cash flow.                                                            *)

\* Sound assumptions are numbers in their ranges.
LEMMA ValidFacts ==
  ASSUME NEW u \in Underwriting, Valid(u)
  PROVE  /\ u.purchase \in 1..MaxCents /\ u.renovation \in 0..MaxCents
         /\ u.closing \in 0..MaxCents /\ u.loan \in 0..MaxCents
         /\ u.tax \in 0..MaxCents /\ u.insurance \in 0..MaxCents
         /\ u.hoa \in 0..MaxCents /\ u.utilities \in 0..MaxCents
         /\ u.reserve \in 0..MaxCents
         /\ u.vacancy \in 0..Bps /\ u.management \in 0..Bps /\ u.maintenance \in 0..Bps
         /\ u.management + u.maintenance <= Bps
         /\ Cost(u) \in 1..3 * MaxCents /\ u.loan <= Cost(u)
<1>1. \A v \in {u.purchase, u.renovation, u.closing, u.loan, u.tax, u.insurance, u.hoa,
                u.utilities, u.reserve} : v \in 0..MaxCents
  BY DEF Valid, InRange, Money
<1>2. /\ u.purchase \in 0..MaxCents /\ u.renovation \in 0..MaxCents
      /\ u.closing \in 0..MaxCents /\ u.loan \in 0..MaxCents
      /\ u.tax \in 0..MaxCents /\ u.insurance \in 0..MaxCents
      /\ u.hoa \in 0..MaxCents /\ u.utilities \in 0..MaxCents
      /\ u.reserve \in 0..MaxCents
  BY <1>1
<1>3. /\ MaxCents \in Nat /\ Bps \in Nat
      /\ u.vacancy \in Nat /\ u.management \in Nat /\ u.maintenance \in Nat
  BY RentAssumption DEF Underwriting
<1> QED
  BY <1>2, <1>3 DEF Valid, Cost

\* The two fees together take at most one cent more than there is.
LEMMA FeesFacts ==
  ASSUME NEW v \in Nat, NEW a \in 0..Bps, NEW b \in 0..Bps, a + b <= Bps
  PROVE  /\ Fraction(v, a) \in Nat /\ Fraction(v, b) \in Nat
         /\ Fraction(v, a) + Fraction(v, b) <= v + 1
<1> DEFINE f == Fraction(v, a)
           g == Fraction(v, b)
<1>1. Bps \in Nat \ {0}
  BY RentAssumption
<1>2. /\ f \in Nat /\ g \in Nat
      /\ 2 * (f * Bps - v * a) <= Bps /\ 2 * (g * Bps - v * b) <= Bps
  <2>1. Fraction(v, a) \in 0..v /\ 2 * (Fraction(v, a) * Bps - v * a) <= Bps
    BY FractionFacts, Zenon
  <2>2. Fraction(v, b) \in 0..v /\ 2 * (Fraction(v, b) * Bps - v * b) <= Bps
    BY FractionFacts, Zenon
  <2>3. f \in 0..v /\ g \in 0..v
    BY <2>1, <2>2
  <2> QED
    BY <2>1, <2>2, <2>3
<1> HIDE DEF f, g
<1>3. v * a + v * b <= v * Bps /\ v * a \in Int /\ v * b \in Int /\ v * Bps \in Int
  <2>1. (a + b) * v <= Bps * v
    BY <1>1, ProductIsMonotone
  <2> QED
    BY <1>1, <2>1, Z3
<1>4. f + g <= v + 1
  <2> SUFFICES ASSUME v + 2 <= f + g PROVE FALSE
    BY <1>2
  <2>1. (v + 2) * Bps <= (f + g) * Bps
    BY <1>1, <1>2, ProductIsMonotone
  <2>2. (v + 2) * Bps = v * Bps + 2 * Bps /\ (f + g) * Bps = f * Bps + g * Bps
    BY <1>1, <1>2, Z3
  <2>3. f * Bps \in Int /\ g * Bps \in Int
    BY <1>1, <1>2, Z3
  <2> QED
    BY <1>1, <1>2, <1>3, <2>1, <2>2, <2>3
<1> QED
  BY <1>2, <1>4 DEF f, g

\* How far the sums of a cash flow can go.
LEMMA FlowBounds ==
  ASSUME NEW u \in Underwriting, Valid(u), NEW r \in 0..MaxCents, payment \in 0..MaxCents
  PROVE  /\ Effective(r, u) \in 0..12 * MaxCents
         /\ Operating(r, u) \in 0..38 * MaxCents + 1
         /\ Noi(r, u) \in -(26 * MaxCents + 1)..12 * MaxCents
         /\ CashflowOf(r, u) \in -(50 * MaxCents + 1)..12 * MaxCents
<1> DEFINE e == Effective(r, u)
<1>1. MaxCents \in Nat /\ r \in Nat /\ 12 * r \in Nat
  BY RentAssumption
<1>2. Fraction(12 * r, u.vacancy) \in 0..12 * r
  BY <1>1, FractionFacts, ValidFacts
<1>3. e \in 0..12 * MaxCents
  BY <1>1, <1>2 DEF Effective
<1> HIDE DEF e
<1>4. /\ Fraction(e, u.management) \in Nat /\ Fraction(e, u.maintenance) \in Nat
      /\ Fraction(e, u.management) + Fraction(e, u.maintenance) <= e + 1
  BY <1>1, <1>3, FeesFacts, ValidFacts
<1>5. Operating(r, u) = u.tax + u.insurance + 12 * (u.hoa + u.utilities)
                          + Fraction(e, u.management) + Fraction(e, u.maintenance)
  BY DEF Operating, e
<1>6. /\ Operating(r, u) \in Nat
      /\ Operating(r, u) <= 26 * MaxCents + e + 1
  BY <1>1, <1>3, <1>4, <1>5, ValidFacts
<1>7. Noi(r, u) \in -(26 * MaxCents + 1)..12 * MaxCents
  BY <1>1, <1>3, <1>6 DEF Noi, e
<1>8. CashflowOf(r, u) \in -(50 * MaxCents + 1)..12 * MaxCents
  BY <1>1, <1>7, ValidFacts DEF CashflowOf
<1> QED
  BY <1>1, <1>3, <1>6, <1>7, <1>8 DEF e

\* Ratios of such sums are exact.
LEMMA RatioFacts ==
  ASSUME NEW v \in -(50 * MaxCents + 1)..50 * MaxCents + 1, NEW d \in Nat,
         NEW scale \in 0..Bps
  PROVE  /\ Ratio(v, d, scale) \in Seq(Int)
         /\ IsQuotient(Ratio(v, d, scale), v, d, scale)
<1> DEFINE m == 50 * MaxCents + 1
<1>1. /\ MaxCents \in Nat /\ Bps \in Nat /\ m \in Nat /\ MaxInt \in Nat
      /\ m * Bps <= MaxInt
  <2>1. MaxCents \in Nat /\ Bps \in Nat /\ MaxInt \in Nat /\ (50 * MaxCents + 2) * Bps <= MaxInt
    BY RentAssumption
  <2>2. m * Bps <= (50 * MaxCents + 2) * Bps
    BY <2>1, ProductIsMonotone
  <2>3. m * Bps \in Int /\ (50 * MaxCents + 2) * Bps \in Int
    BY <2>1, Z3
  <2> QED
    BY <2>1, <2>2, <2>3
<1>2. v * scale \in -MaxInt..MaxInt
  <2>1. v * scale <= m * scale /\ (-m) * scale <= v * scale
    BY <1>1, ProductIsMonotone
  <2>2. scale * m <= Bps * m
    BY <1>1, ProductIsMonotone
  <2>3. /\ scale * m = m * scale /\ Bps * m = m * Bps /\ (-m) * scale = -(m * scale)
        /\ v * scale \in Int /\ m * scale \in Int /\ m * Bps \in Int
    BY <1>1, Z3
  <2> HIDE DEF m
  <2> QED
    BY <1>1, <2>1, <2>2, <2>3
<1>3. CASE d = 0
  BY <1>3 DEF Ratio, IsQuotient
<1>4. CASE d # 0
  <2>1. Quotient(v * scale, d) \in -MaxInt..MaxInt
    BY <1>1, <1>2, <1>4, QuotientFacts
  <2>2. Wrap(Quotient(v * scale, d)) = Quotient(v * scale, d)
    BY <2>1, WrapFacts
  <2> QED
    BY <1>1, <1>4, <2>1, <2>2 DEF Ratio, IsQuotient
<1> QED
  BY <1>3, <1>4

LEMMA CashflowFacts ==
  ASSUME NEW u \in Underwriting, Valid(u), NEW r \in 0..MaxCents, payment \in 0..MaxCents
  PROVE  /\ Cashflow(r, u) \in Flow
         /\ Cashflow(r, u).equity \in 0..3 * MaxCents
         /\ IsQuotient(Cashflow(r, u).cap_rate, Noi(r, u), u.purchase, Bps)
         /\ IsQuotient(Cashflow(r, u).yield, Noi(r, u), Cost(u), Bps)
         /\ IsQuotient(Cashflow(r, u).cash_on_cash, CashflowOf(r, u), Cost(u) - u.loan, Bps)
         /\ IsQuotient(Cashflow(r, u).dscr, Noi(r, u), 12 * payment, 1000)
<1>1. /\ MaxCents \in Nat /\ Bps \in 0..Bps /\ 1000 \in 0..Bps
  BY RentAssumption
<1>2. /\ Noi(r, u) \in -(50 * MaxCents + 1)..50 * MaxCents + 1
      /\ CashflowOf(r, u) \in -(50 * MaxCents + 1)..50 * MaxCents + 1
  BY <1>1, FlowBounds
<1>3. /\ u.purchase \in Nat /\ Cost(u) \in Nat /\ 12 * payment \in Nat
      /\ Cost(u) - u.loan \in 0..3 * MaxCents /\ Cost(u) - u.loan \in Nat
  BY <1>1, ValidFacts
<1>4. /\ Ratio(Noi(r, u), u.purchase, Bps) \in Seq(Int)
      /\ IsQuotient(Ratio(Noi(r, u), u.purchase, Bps), Noi(r, u), u.purchase, Bps)
  BY <1>1, <1>2, <1>3, RatioFacts
<1>5. /\ Ratio(Noi(r, u), Cost(u), Bps) \in Seq(Int)
      /\ IsQuotient(Ratio(Noi(r, u), Cost(u), Bps), Noi(r, u), Cost(u), Bps)
  BY <1>1, <1>2, <1>3, RatioFacts
<1>6. /\ Ratio(CashflowOf(r, u), Cost(u) - u.loan, Bps) \in Seq(Int)
      /\ IsQuotient(Ratio(CashflowOf(r, u), Cost(u) - u.loan, Bps),
                    CashflowOf(r, u), Cost(u) - u.loan, Bps)
  BY <1>1, <1>2, <1>3, RatioFacts
<1>7. /\ Ratio(Noi(r, u), 12 * payment, 1000) \in Seq(Int)
      /\ IsQuotient(Ratio(Noi(r, u), 12 * payment, 1000), Noi(r, u), 12 * payment, 1000)
  <2> DEFINE d == 12 * payment
             s == 1000
  <2>1. d \in Nat /\ s \in 0..Bps
    BY <1>1, <1>3
  <2> HIDE DEF d, s
  <2>2. Ratio(Noi(r, u), d, s) \in Seq(Int) /\ IsQuotient(Ratio(Noi(r, u), d, s), Noi(r, u), d, s)
    BY <1>2, <2>1, RatioFacts
  <2> QED
    BY <2>2 DEF d, s
<1>8. Noi(r, u) \in Int /\ CashflowOf(r, u) \in Int /\ r \in Int /\ Cost(u) - u.loan \in Int
  BY <1>1, <1>2, <1>3
<1> QED
  BY <1>3, <1>4, <1>5, <1>6, <1>7, <1>8 DEF Cashflow, Flow

-----------------------------------------------------------------------------
(* The invariant: once a request is accepted it stays valid, and every flow  *)
(* in the list was calculated from assumptions that were validated on their  *)
(* own.  Properties of a flow follow from the facts about one cash flow.     *)

RequestSound == outcome \in {"running", "done"} => ValidRequest /\ payment \in Payments(base)

FlowsSound ==
  \A n \in DOMAIN flows :
    /\ n <= Len(scenarios) + 1
    /\ Sound(n) /\ Money(RentOf(n))
    /\ flows[n] = Cashflow(RentOf(n), Assumptions(n))

RentInv == TypeOK /\ RequestSound /\ FlowsSound

LEMMA InputsTyped ==
  ASSUME TypeOK, NEW n \in 1..Len(scenarios) + 1
  PROVE  Assumptions(n) \in Underwriting /\ RentOf(n) \in Int
<1>1. base \in Underwriting /\ rent \in Int /\ scenarios \in Seq(Scenario) /\ Len(scenarios) \in Nat
  BY DEF TypeOK
<1>2. CASE n = 1
  BY <1>1, <1>2 DEF Assumptions, RentOf
<1>3. CASE n # 1
  <2> DEFINE s == scenarios[n - 1]
  <2>1. s \in Scenario
    BY <1>1, <1>3
  <2> HIDE DEF s
  <2>2. /\ s.rent \in Int /\ s.renovation \in Int
        /\ s.vacancy # None => s.vacancy \in Nat
    BY <2>1 DEF Scenario
  <2>3. Assumptions(n) = [base EXCEPT !.vacancy = IF s.vacancy = None THEN @ ELSE s.vacancy,
                                      !.renovation = IF s.renovation = None THEN @ ELSE s.renovation]
    BY <1>3 DEF Assumptions, s
  <2>4. Assumptions(n) \in Underwriting
    BY <1>1, <2>2, <2>3 DEF Underwriting
  <2> QED
    BY <1>1, <1>3, <2>2, <2>4 DEF RentOf, s
<1> QED
  BY <1>2, <1>3

LEMMA RentIsMoney ==
  ASSUME TypeOK, ValidRequest, NEW n \in 1..Len(scenarios) + 1
  PROVE  Money(RentOf(n))
<1>1. scenarios \in Seq(Scenario) /\ Len(scenarios) \in Nat
  BY DEF TypeOK
<1>2. CASE n = 1
  BY <1>2 DEF RentOf, ValidRequest
<1>3. CASE n # 1
  <2>1. n - 1 \in DOMAIN scenarios
    BY <1>1, <1>3
  <2> QED
    BY <1>3, <2>1 DEF RentOf, ValidRequest, ValidScenario
<1> QED
  BY <1>2, <1>3

LEMMA PaymentsAreNumbers ==
  ASSUME NEW u \in Underwriting, Valid(u)
  PROVE  Payments(u) \subseteq Nat
<1>1. u.loan \in Nat /\ u.interest \in Nat /\ u.term \in Nat
  BY RentAssumption, ValidFacts DEF Underwriting
<1>2. CASE u.loan = 0
  BY <1>2 DEF Payments
<1>3. CASE u.loan # 0
  <2>1. u.term \in Nat \ {0}
    BY <1>1, <1>3 DEF Valid
  <2>2. u.loan \div u.term \in Nat /\ (u.loan + u.term \div 2) \div u.term \in Nat
    BY <1>1, <2>1, Z3
  <2> QED
    BY <1>3, <2>2 DEF Payments, Annuity, EvenPayment
<1> QED
  BY <1>2, <1>3

LEMMA InitRentInv == Init => RentInv
<1> SUFFICES ASSUME Init PROVE RentInv
  OBVIOUS
<1>1. base \in Underwriting /\ rent \in Int /\ scenarios \in Seq(Scenarios)
  BY RentAssumption DEF Init
<1>2. scenarios \in Seq(Scenario) /\ Len(scenarios) \in Nat
  BY <1>1, RentAssumption
<1>3. flows = <<>> /\ payment = 0 /\ outcome = "received"
  BY DEF Init
<1> QED
  BY <1>1, <1>2, <1>3 DEF RentInv, TypeOK, RequestSound, FlowsSound

\* The list stays sound as long as it and the request stay the same.
LEMMA SameFlowsSound ==
  ASSUME FlowsSound, UNCHANGED <<base, rent, scenarios, payment, flows>>
  PROVE  FlowsSound'
<1> SUFFICES ASSUME NEW n \in DOMAIN flows
             PROVE  (/\ n <= Len(scenarios) + 1
                     /\ Sound(n) /\ Money(RentOf(n))
                     /\ flows[n] = Cashflow(RentOf(n), Assumptions(n)))'
  BY DEF FlowsSound
<1>1. Assumptions(n)' = Assumptions(n) /\ RentOf(n)' = RentOf(n)
  BY DEF Assumptions, RentOf
<1>2. \A r, u : Cashflow(r, u)' = Cashflow(r, u)
  BY DEF Cashflow, CashflowOf
<1>3. Sound(n)' = Sound(n)
  BY <1>1 DEF Sound
<1> QED
  BY <1>1, <1>2, <1>3 DEF FlowsSound

LEMMA NextRentInv == RentInv /\ [Next]_vars => RentInv'
<1> SUFFICES ASSUME RentInv, [Next]_vars PROVE RentInv'
  OBVIOUS
<1>1. /\ TypeOK /\ RequestSound /\ FlowsSound
      /\ Len(scenarios) \in Nat /\ Len(flows) \in Nat /\ flows \in Seq(Flow)
  BY DEF RentInv, TypeOK
<1>2. ASSUME Reject PROVE RentInv'
  BY <1>1, <1>2 DEF Reject, RentInv, TypeOK, RequestSound, FlowsSound
<1>3. ASSUME Accept PROVE RentInv'
  <2>1. base \in Underwriting /\ Valid(base)
    BY <1>1, <1>3 DEF Accept, ValidRequest, TypeOK
  <2>2. payment' \in Payments(base) /\ payment' \in Nat
    BY <1>3, <2>1, PaymentsAreNumbers DEF Accept
  <2>3. /\ base' = base /\ rent' = rent /\ scenarios' = scenarios /\ flows' = flows
        /\ outcome' = "running" /\ ValidRequest /\ flows = <<>>
    BY <1>1, <1>3 DEF Accept, TypeOK
  <2>4. TypeOK'
    BY <1>1, <2>2, <2>3 DEF TypeOK
  <2>5. RequestSound'
    BY <2>2, <2>3 DEF RequestSound, ValidRequest
  <2> QED
    BY <2>3, <2>4, <2>5 DEF RentInv, FlowsSound
<1>4. ASSUME Calculate PROVE RentInv'
  <2> DEFINE k == Len(flows) + 1
  <2>1. /\ outcome = "running" /\ k \in 1..Len(scenarios) + 1
        /\ base' = base /\ rent' = rent /\ scenarios' = scenarios /\ payment' = payment
        /\ ValidRequest /\ payment \in Payments(base)
    BY <1>1, <1>4 DEF Calculate, RequestSound
  <2>2. CASE Sound(k)
    <3>1. /\ flows' = Append(flows, Cashflow(RentOf(k), Assumptions(k))) /\ outcome' = "running"
      BY <1>4, <2>1, <2>2 DEF Calculate
    <3>2. Money(RentOf(k)) /\ Assumptions(k) \in Underwriting
      BY <1>1, <2>1, RentIsMoney, InputsTyped
    <3>3. Cashflow(RentOf(k), Assumptions(k)) \in Flow
      <4>1. payment \in 0..MaxCents
        BY <1>1, <2>2, RentAssumption DEF TypeOK, Sound
      <4> QED
        BY <2>2, <3>2, <4>1, CashflowFacts DEF Sound, Money
    <3>4. TypeOK'
      BY <1>1, <2>1, <3>1, <3>3 DEF TypeOK
    <3>5. RequestSound'
      BY <2>1, <3>1 DEF RequestSound, ValidRequest
    <3>6. FlowsSound'
      <4> SUFFICES ASSUME NEW n \in DOMAIN flows'
                   PROVE  (/\ n <= Len(scenarios) + 1
                           /\ Sound(n) /\ Money(RentOf(n))
                           /\ flows[n] = Cashflow(RentOf(n), Assumptions(n)))'
        BY DEF FlowsSound
      <4>1. /\ Assumptions(n)' = Assumptions(n) /\ RentOf(n)' = RentOf(n)
        BY <2>1 DEF Assumptions, RentOf
      <4>2. \A r, u : Cashflow(r, u)' = Cashflow(r, u)
        BY <2>1 DEF Cashflow, CashflowOf
      <4>3. Sound(n)' = Sound(n)
        BY <2>1, <4>1 DEF Sound
      <4>4. CASE n = k
        <5>1. flows'[n] = Cashflow(RentOf(k), Assumptions(k))
          BY <1>1, <3>1, <4>4
        <5> QED
          BY <2>1, <2>2, <3>2, <4>1, <4>2, <4>3, <4>4, <5>1
      <4>5. CASE n # k
        <5>1. n \in DOMAIN flows /\ flows'[n] = flows[n]
          BY <1>1, <3>1, <3>3, <4>5
        <5> QED
          BY <1>1, <2>1, <4>1, <4>2, <4>3, <5>1 DEF FlowsSound
      <4> QED
        BY <4>4, <4>5
    <3> QED
      BY <3>4, <3>5, <3>6 DEF RentInv
  <2>3. CASE ~Sound(k)
    <3>1. flows' = <<>> /\ outcome' = "error"
      BY <1>4, <2>1, <2>3 DEF Calculate, Refuse
    <3> QED
      BY <1>1, <2>1, <3>1 DEF RentInv, TypeOK, RequestSound, FlowsSound
  <2> QED
    BY <2>2, <2>3
<1>5. ASSUME Finish PROVE RentInv'
  <2>1. /\ base' = base /\ rent' = rent /\ scenarios' = scenarios /\ payment' = payment
        /\ flows' = flows /\ outcome = "running" /\ outcome' = "done"
        /\ Len(flows) = Len(scenarios) + 1
    BY <1>5 DEF Finish
  <2>2. TypeOK' /\ RequestSound'
    BY <1>1, <2>1 DEF TypeOK, RequestSound, ValidRequest
  <2>3. FlowsSound'
    BY <1>1, <2>1, SameFlowsSound
  <2> QED
    BY <2>2, <2>3 DEF RentInv
<1>6. ASSUME UNCHANGED vars PROVE RentInv'
  <2>1. TypeOK' /\ RequestSound'
    BY <1>1, <1>6 DEF vars, TypeOK, RequestSound, ValidRequest
  <2>2. FlowsSound'
    BY <1>1, <1>6, SameFlowsSound DEF vars
  <2> QED
    BY <2>1, <2>2 DEF RentInv
<1> QED
  BY <1>2, <1>3, <1>4, <1>5, <1>6 DEF Next

LEMMA RentInvHolds == Spec => []RentInv
BY InitRentInv, NextRentInv, PTL DEF Spec

\* What every listed flow is made of.
LEMMA FlowInputs ==
  ASSUME RentInv, NEW n \in DOMAIN flows
  PROVE  /\ Assumptions(n) \in Underwriting /\ Valid(Assumptions(n))
         /\ RentOf(n) \in 0..MaxCents /\ payment \in 0..MaxCents
         /\ flows[n] = Cashflow(RentOf(n), Assumptions(n))
<1>1. n \in 1..Len(scenarios) + 1
  BY DEF RentInv, TypeOK, FlowsSound
<1>2. Assumptions(n) \in Underwriting
  BY <1>1, InputsTyped DEF RentInv
<1> QED
  BY <1>2, RentAssumption DEF RentInv, TypeOK, FlowsSound, Sound, Money

-----------------------------------------------------------------------------

\* Every reachable state has the declared types, and a request that failed
\* shows no cash flow.
THEOREM RentTypeCorrect == Spec => []TypeOK
<1>1. RentInv => TypeOK
  BY DEF RentInv
<1> QED
  BY <1>1, RentInvHolds, PTL

\* A scenario never shows negative equity (lib.rs:122,140,264-271).
THEOREM EquityIsNeverNegativeHolds == Spec => []EquityIsNeverNegative
<1>1. RentInv => EquityIsNeverNegative
  <2> SUFFICES ASSUME RentInv, NEW n \in DOMAIN flows
               PROVE  flows[n].equity >= 0
    BY DEF EquityIsNeverNegative
  <2> QED
    <3>1. flows[n].equity \in 0..3 * MaxCents
      BY FlowInputs, CashflowFacts
    <3> QED
      BY <3>1, RentAssumption
<1> QED
  BY <1>1, RentInvHolds, PTL

\* With integers at least (50 * MaxCents + 2) * Bps wide no sum of lib.rs
\* leaves them and no ratio is cut off; for the code's constants that is
\* about 5 * 10^17, and an i64 reaches 9.2 * 10^18.
THEOREM NothingOverflowsHolds == Spec => []NothingOverflows
<1>1. RentInv => NothingOverflows
  <2> SUFFICES ASSUME RentInv, NEW n \in DOMAIN flows
               PROVE  LET u == Assumptions(n)
                          f == flows[n]
                      IN  /\ \A v \in {Effective(f.rent, u), Operating(f.rent, u), f.noi,
                                        f.cashflow, f.equity} : v \in -MaxInt..MaxInt
                          /\ IsQuotient(f.cap_rate, f.noi, u.purchase, Bps)
                          /\ IsQuotient(f.yield, f.noi, Cost(u), Bps)
                          /\ IsQuotient(f.cash_on_cash, f.cashflow, f.equity, Bps)
                          /\ IsQuotient(f.dscr, f.noi, 12 * payment, 1000)
    BY DEF NothingOverflows
  <2> DEFINE u == Assumptions(n)
             r == RentOf(n)
  <2>1. /\ u \in Underwriting /\ Valid(u) /\ r \in 0..MaxCents /\ payment \in 0..MaxCents
        /\ flows[n] = Cashflow(r, u)
    BY FlowInputs
  <2> HIDE DEF u, r
  <2>2. /\ MaxCents \in Nat /\ MaxInt \in Nat /\ 50 * MaxCents + 2 <= MaxInt
    <3>1. /\ MaxCents \in Nat /\ MaxInt \in Nat /\ Bps \in Nat /\ Bps >= 1
          /\ (50 * MaxCents + 2) * Bps <= MaxInt
      BY RentAssumption
    <3>2. 1 * (50 * MaxCents + 2) <= Bps * (50 * MaxCents + 2)
      BY <3>1, ProductIsMonotone
    <3>3. Bps * (50 * MaxCents + 2) = (50 * MaxCents + 2) * Bps
      BY <3>1, Z3
    <3> QED
      BY <3>1, <3>2, <3>3
  <2>3. /\ Effective(r, u) \in -MaxInt..MaxInt /\ Operating(r, u) \in -MaxInt..MaxInt
        /\ Noi(r, u) \in -MaxInt..MaxInt /\ CashflowOf(r, u) \in -MaxInt..MaxInt
    BY <2>1, <2>2, FlowBounds
  <2>4. /\ flows[n].rent = r /\ flows[n].noi = Noi(r, u)
        /\ flows[n].cashflow = CashflowOf(r, u) /\ flows[n].equity = Cost(u) - u.loan
    BY <2>1 DEF Cashflow
  <2>5. flows[n].equity \in -MaxInt..MaxInt
    BY <2>1, <2>2, CashflowFacts
  <2>6. /\ IsQuotient(flows[n].cap_rate, Noi(r, u), u.purchase, Bps)
        /\ IsQuotient(flows[n].yield, Noi(r, u), Cost(u), Bps)
        /\ IsQuotient(flows[n].cash_on_cash, CashflowOf(r, u), Cost(u) - u.loan, Bps)
        /\ IsQuotient(flows[n].dscr, Noi(r, u), 12 * payment, 1000)
    BY <2>1, CashflowFacts
  <2> QED
    BY <2>3, <2>4, <2>5, <2>6 DEF u
<1> QED
  BY <1>1, RentInvHolds, PTL

\* Whatever the request, rounding moves the operating income by at most one
\* and a half cents (lib.rs:142-148).
THEOREM NoiIsWithinCentsHolds == Spec => []NoiIsWithinCents
<1>1. RentInv => NoiIsWithinCents
  <2> SUFFICES ASSUME RentInv, NEW n \in DOMAIN flows
               PROVE  LET error == flows[n].noi * Bps * Bps - ExactNoi(n)
                      IN  2 * error <= 3 * Bps * Bps /\ -2 * error <= 3 * Bps * Bps
    BY DEF NoiIsWithinCents
  <2> DEFINE u == Assumptions(n)
             p == 12 * RentOf(n)
             F == Fraction(p, u.vacancy)
             G == Fraction(p - F, u.management)
             H == Fraction(p - F, u.maintenance)
             c == u.tax + u.insurance + 12 * (u.hoa + u.utilities)
  <2>1. /\ u \in Underwriting /\ Valid(u) /\ RentOf(n) \in 0..MaxCents
        /\ flows[n].noi = Noi(RentOf(n), u)
    BY FlowInputs DEF Cashflow
  <2> HIDE DEF u
  <2>2. /\ u.vacancy \in 0..Bps /\ u.management \in 0..Bps /\ u.maintenance \in 0..Bps
        /\ u.management + u.maintenance <= Bps /\ Bps \in Nat /\ MaxCents \in Nat
    BY <2>1, ValidFacts, RentAssumption
  <2>3. p \in Nat /\ c \in Int
    BY <2>1, <2>2, ValidFacts
  <2> HIDE DEF p
  <2>4. F \in 0..p /\ 2 * (F * Bps - p * u.vacancy) <= Bps /\ -Bps <= 2 * (F * Bps - p * u.vacancy)
    BY <2>2, <2>3, FractionFacts
  <2> HIDE DEF F
  <2>5. p - F \in Nat
    BY <2>3, <2>4
  <2>6. /\ G \in 0..p - F /\ 2 * (G * Bps - (p - F) * u.management) <= Bps
        /\ -Bps <= 2 * (G * Bps - (p - F) * u.management)
    BY <2>2, <2>5, FractionFacts
  <2>7. /\ H \in 0..p - F /\ 2 * (H * Bps - (p - F) * u.maintenance) <= Bps
        /\ -Bps <= 2 * (H * Bps - (p - F) * u.maintenance)
    BY <2>2, <2>5, FractionFacts
  <2>8. flows[n].noi = p - F - (c + G + H)
    BY <2>1, <2>3, <2>4, <2>5, <2>6, <2>7 DEF Noi, Effective, Operating, p, F
  <2>9. ExactNoi(n) = p * (Bps - u.vacancy) * (Bps - u.management - u.maintenance) - c * Bps * Bps
    BY DEF ExactNoi, u, p
  <2> HIDE DEF G, H, c
  <2>10. /\ p \in Int /\ F \in Int /\ G \in Int /\ H \in Int /\ u.vacancy \in Int
         /\ u.management \in Int /\ u.maintenance \in Int
         /\ u.management \in Nat /\ u.maintenance \in Nat
    BY <2>2, <2>3, <2>4, <2>5, <2>6, <2>7
  <2>11. LET error == (p - F - (c + G + H)) * Bps * Bps
                       - (p * (Bps - u.vacancy) * (Bps - u.management - u.maintenance)
                            - c * Bps * Bps)
         IN  2 * error <= 3 * Bps * Bps /\ -2 * error <= 3 * Bps * Bps
    BY <2>2, <2>3, <2>4, <2>6, <2>7, <2>10, RoundingAlgebra, Zenon
  <2> QED
    BY <2>8, <2>9, <2>11, Zenon
<1> QED
  BY <1>1, RentInvHolds, PTL

\* Between two scenarios with the same costs, more rent never shows less cash
\* by more than a cent (lib.rs:142-148).
THEOREM MoreRentNeverCostsHolds == Spec => []MoreRentNeverCosts
<1>1. RentInv => MoreRentNeverCosts
  <2> SUFFICES ASSUME RentInv, NEW m \in DOMAIN flows, NEW n \in DOMAIN flows,
                      Assumptions(m) = Assumptions(n), RentOf(m) <= RentOf(n)
               PROVE  flows[m].cashflow <= flows[n].cashflow + 1
    BY DEF MoreRentNeverCosts
  <2> DEFINE u == Assumptions(n)
             p == RentOf(m)
             q == RentOf(n)
             d == Effective(p, u)
             e == Effective(q, u)
  <2>1. /\ u \in Underwriting /\ Valid(u) /\ p \in 0..MaxCents /\ q \in 0..MaxCents /\ p <= q
        /\ payment \in 0..MaxCents
        /\ flows[m].cashflow = CashflowOf(p, u) /\ flows[n].cashflow = CashflowOf(q, u)
    BY FlowInputs DEF Cashflow
  <2> HIDE DEF u, p, q
  <2>2. /\ 12 * p \in Nat /\ 12 * q \in Nat /\ 12 * p <= 12 * q /\ MaxCents \in Nat
    BY <2>1, RentAssumption
  <2>3. /\ u.vacancy \in 0..Bps /\ u.management \in 0..Bps /\ u.maintenance \in 0..Bps
        /\ u.management + u.maintenance <= Bps
        /\ u.tax \in Int /\ u.insurance \in Int /\ u.hoa \in Int /\ u.utilities \in Int
        /\ u.reserve \in Int /\ Bps \in Nat
    BY <2>1, ValidFacts, RentAssumption
  <2>4. d <= e /\ d \in Nat /\ e \in Nat
    <3>1. 0 \in 0..Bps /\ u.vacancy + 0 <= Bps
      BY <2>3
    <3>2. 12 * p - Fraction(12 * p, u.vacancy) <= 12 * q - Fraction(12 * q, u.vacancy)
      BY <2>2, <2>3, <3>1, RemainderGrowth
    <3>3. d \in Nat /\ e \in Nat
      BY <2>1, <2>2, FlowBounds
    <3> QED
      BY <3>2, <3>3 DEF Effective
  <2>5. /\ Noi(p, u) = d - (u.tax + u.insurance + 12 * (u.hoa + u.utilities)
                               + Fraction(d, u.management) + Fraction(d, u.maintenance))
        /\ Noi(q, u) = e - (u.tax + u.insurance + 12 * (u.hoa + u.utilities)
                               + Fraction(e, u.management) + Fraction(e, u.maintenance))
    BY DEF Noi, Operating
  <2> HIDE DEF d, e
  <2>6. d - Fraction(d, u.management) - Fraction(d, u.maintenance)
          <= e - Fraction(e, u.management) - Fraction(e, u.maintenance) + 1
    BY <2>3, <2>4, RemainderGrowth
  <2>7. /\ Fraction(d, u.management) \in Int /\ Fraction(d, u.maintenance) \in Int
        /\ Fraction(e, u.management) \in Int /\ Fraction(e, u.maintenance) \in Int
    <3>1. \A v \in Nat, b \in 0..Bps : Fraction(v, b) \in Int
      BY FractionIsNat
    <3> QED
      BY <2>3, <2>4, <3>1
  <2> QED
    BY <2>1, <2>3, <2>4, <2>5, <2>6, <2>7 DEF CashflowOf
<1> QED
  BY <1>1, RentInvHolds, PTL

\* A loan without interest is paid off by its term to within half a cent a
\* month (lib.rs:152-153).
THEOREM LoanIsRepaidHolds == Spec => []LoanIsRepaid
<1>1. RentInv => LoanIsRepaid
  <2> SUFFICES ASSUME RentInv, outcome = "done", base.loan > 0, base.interest = 0
               PROVE  LET error == base.term * payment - base.loan
                      IN  2 * error <= base.term /\ -2 * error <= base.term
    BY DEF LoanIsRepaid
  <2> DEFINE l == base.loan
             t == base.term
             h == t \div 2
  <2>1. base \in Underwriting /\ Valid(base) /\ payment \in Payments(base)
    BY DEF RentInv, TypeOK, RequestSound, ValidRequest
  <2>2. l \in Nat \ {0} /\ t \in Nat \ {0}
    BY <2>1, ValidFacts, RentAssumption DEF Valid
  <2>3. payment = (l + h) \div t
    BY <2>1, <2>2 DEF Payments, EvenPayment
  <2> HIDE DEF l, t
  <2>4. h \in Nat /\ 2 * h <= t /\ t < 2 * h + 2
    BY <2>2, Z3
  <2> HIDE DEF h
  <2>5. payment \in Int /\ payment * t <= l + h /\ l + h < payment * t + t
    <3>1. l + h \in Int
      BY <2>2, <2>4
    <3> QED
      BY <2>2, <2>3, <3>1, DivisionFacts, Zenon
  <2>6. payment * t = t * payment /\ t * payment \in Int
    BY <2>2, <2>5, Z3
  <2>7. 2 * (t * payment - l) <= t /\ -2 * (t * payment - l) <= t
    BY <2>2, <2>4, <2>5, <2>6
  <2> QED
    BY <2>7 DEF l, t
<1> QED
  BY <1>1, RentInvHolds, PTL
=============================================================================
