----------------------------- MODULE Quoters_proofs ---------------------------
(***************************************************************************)
(* What a quote promises for every pool of every venue, every input and     *)
(* every fee, and what the task that chains the quotes promises for every   *)
(* chain. The quoters divide once or twice and round down; the first lemmas *)
(* say what such a division bounds, the theorems on them that no rounding   *)
(* turns a pool into a gain. Then come the lemmas on what is defined step   *)
(* by step (powers, the amounts along a route, the walk, the search), the   *)
(* invariant of the stream of updates, and the counters and records.        *)
(***************************************************************************)
EXTENDS Evaluation, SequenceTheorems, NaturalsInduction, WellFoundedInduction, TLAPS

\* Products stay natural and commute.
LEMMA Products ==
  ASSUME NEW a \in Nat, NEW b \in Nat
  PROVE  a * b \in Nat /\ a * b = b * a /\ (a > 0 /\ b > 0 => a * b > 0)
OBVIOUS

\* A common factor keeps the order,
LEMMA ScaleUp ==
  ASSUME NEW a \in Nat, NEW b \in Nat, NEW c \in Nat, a <= b
  PROVE  a * c <= b * c
<1>1. PICK k \in Nat : b = a + k
  OBVIOUS
<1>2. (a + k) * c = a * c + k * c /\ k * c \in Nat /\ a * c \in Nat
  OBVIOUS
<1> QED  BY <1>1, <1>2

\* and may be cancelled.
LEMMA ScaleDown ==
  ASSUME NEW a \in Nat, NEW b \in Nat, NEW c \in Nat \ {0}, a * c <= b * c
  PROVE  a <= b
<1> SUFFICES ASSUME b < a PROVE FALSE
  OBVIOUS
<1>1. PICK k \in Nat : a = b + 1 + k
  OBVIOUS
<1>2. (b + 1 + k) * c = b * c + c + k * c /\ k * c \in Nat /\ b * c \in Nat
  OBVIOUS
<1> QED  BY <1>1, <1>2

\* What an integer division leaves.
LEMMA Quotient ==
  ASSUME NEW n \in Nat, NEW d \in Nat \ {0}
  PROVE  n \div d \in Nat /\ (n \div d) * d <= n /\ n < (n \div d) * d + d
OBVIOUS

\* A smaller fraction rounds down to no more.
LEMMA QuotientGrows ==
  ASSUME NEW a \in Nat, NEW b \in Nat \ {0}, NEW c \in Nat, NEW d \in Nat \ {0}, a * d <= c * b
  PROVE  a \div b <= c \div d
<1> DEFINE p == a \div b
           q == c \div d
<1>1. p \in Nat /\ p * b <= a /\ q \in Nat /\ c < q * d + d
  BY Quotient
<1> HIDE DEF p, q
<1>2. (p * b) * d <= a * d
  BY <1>1, ScaleUp, Products
<1>3. (p * d) * b <= c * b
  <2>1. (p * b) * d = (p * d) * b
    BY <1>1
  <2>2. p * b \in Nat /\ p * d \in Nat /\ (p * d) * b \in Nat /\ a * d \in Nat /\ c * b \in Nat
    BY <1>1, Products
  <2> QED  BY <1>2, <2>1, <2>2
<1>4. p * d <= c
  <2>1. p * d \in Nat
    BY <1>1, Products
  <2> QED  BY <1>3, <2>1, ScaleDown
<1>5. p * d < (q + 1) * d
  <2>1. (q + 1) * d = q * d + d /\ q * d \in Nat /\ p * d \in Nat
    BY <1>1, Products
  <2> QED  BY <1>1, <1>4, <2>1
<1>6. ~(q + 1 <= p)
  <2> SUFFICES ASSUME q + 1 <= p PROVE FALSE
    OBVIOUS
  <2>1. (q + 1) * d <= p * d
    BY <1>1, ScaleUp
  <2>2. (q + 1) * d \in Nat /\ p * d \in Nat
    BY <1>1, Products
  <2> QED  BY <1>5, <2>1, <2>2
<1> QED  BY <1>1, <1>6 DEF p, q

\* What a quotient is at most.
LEMMA QuotientBelow ==
  ASSUME NEW a \in Nat, NEW b \in Nat \ {0}, NEW m \in Nat, a <= m * b
  PROVE  a \div b <= m
<1>1. a \div b \in Nat /\ (a \div b) * b <= a
  BY Quotient
<1> DEFINE p == a \div b
<1> HIDE DEF p
<1>2. p \in Nat /\ p * b <= a
  BY <1>1 DEF p
<1>3. p * b <= m * b
  BY <1>2, Products
<1>4. p <= m
  BY <1>2, <1>3, ScaleDown
<1> QED  BY <1>4 DEF p

\* One division of the constant product: what is paid for `paid` of `unit` shares.
LEMMA SharePaid ==
  ASSUME NEW p \in Nat, NEW r \in Nat \ {0}, NEW s \in Nat \ {0}
  PROVE  LET out == (p * r) \div (s + p) IN
         /\ out \in Nat /\ out < r
         /\ out * s <= p * r
         /\ (s + p) * (r - out) >= s * r
<1> DEFINE out == (p * r) \div (s + p)
<1>1. p * r \in Nat /\ s + p \in Nat \ {0}
  BY Products
<1>2. out \in Nat /\ out * (s + p) <= p * r
  BY <1>1, Quotient
<1> HIDE DEF out
<1>3. out * (s + p) = out * s + out * p /\ out * s \in Nat /\ out * p \in Nat
  BY <1>2
<1>4. out * s <= p * r
  BY <1>1, <1>2, <1>3
<1>5. (s + p) * r = s * r + p * r /\ s * r \in Nat /\ s * r > 0
  BY Products
<1>6. out < r
  <2> SUFFICES ASSUME r <= out PROVE FALSE
    BY <1>2
  <2>1. r * (s + p) <= out * (s + p)
    BY <1>1, <1>2, ScaleUp
  <2>2. r * (s + p) = s * r + p * r
    OBVIOUS
  <2> QED  BY <1>1, <1>2, <1>3, <1>5, <2>1, <2>2
<1>7. (s + p) * (r - out) = s * r + p * r - out * (s + p)
  BY <1>2
<1>8. (s + p) * (r - out) >= s * r
  BY <1>1, <1>2, <1>3, <1>5, <1>7
<1> QED  BY <1>2, <1>4, <1>6, <1>8 DEF out

\* It grows with what comes in.
LEMMA ShareGrows ==
  ASSUME NEW p \in Nat, NEW q \in Nat, p <= q, NEW r \in Nat, NEW s \in Nat \ {0}
  PROVE  (p * r) \div (s + p) <= (q * r) \div (s + q)
<1>1. PICK k \in Nat : q = p + k
  OBVIOUS
<1>2. p * r \in Nat /\ q * r \in Nat /\ s + p \in Nat \ {0} /\ s + q \in Nat \ {0}
  BY Products
<1>3. (p * r) * (s + q) <= (q * r) * (s + p)
  <2>1. (p * r) * (s + p + k) = (p * r) * s + (p * r) * p + (p * r) * k
    BY <1>2
  <2>2. ((p + k) * r) * (s + p) = (p * r) * s + (p * r) * p + (k * r) * s + (p * r) * k
    OBVIOUS
  <2>3. (k * r) * s \in Nat
    BY Products
  <2>4. (p * r) * s \in Nat /\ (p * r) * p \in Nat /\ (p * r) * k \in Nat
    BY <1>2, Products
  <2> QED  BY <1>1, <2>1, <2>2, <2>3, <2>4
<1> QED  BY <1>2, <1>3, QuotientGrows

---------------------------------------------------------------------------
\* out is at most what x is worth at the price, and 0 for nothing; or an error.
Worth(out, x, price) ==
  \/ out = Err
  \/ /\ out \in Nat
     /\ out * price.d <= x * price.n
     /\ x = 0 => out = 0
     /\ x > 0 => price.n > 0

\* One division of the constant product keeps the product of the reserves.
LEMMA ConstantProductSound ==
  ASSUME NEW x \in Nat, NEW rIn \in Nat, NEW rOut \in Nat, NEW fee \in Nat,
         NEW unit \in Nat \ {0}
  PROVE  LET out == ConstantProduct(x, rIn, rOut, fee, unit) IN
         /\ Worth(out, x, [n |-> rOut, d |-> rIn])
         /\ x > 0 /\ out # Err => out < rOut /\ (rIn + x) * (rOut - out) >= rIn * rOut
<1> DEFINE out  == ConstantProduct(x, rIn, rOut, fee, unit)
           post == x * (unit - fee)
<1>1. CASE x = 0
  BY <1>1 DEF ConstantProduct, Worth
<1>2. CASE x > 0 /\ (rIn = 0 \/ rOut = 0 \/ fee > unit)
  BY <1>2 DEF ConstantProduct, Worth
<1>3. CASE x > 0 /\ rIn > 0 /\ rOut > 0 /\ fee <= unit
  <2>1. out = (post * rOut) \div (rIn * unit + post)
    BY <1>3 DEF ConstantProduct
  <2>2. PICK keep \in Nat : unit - fee = keep /\ keep <= unit
    BY <1>3
  <2>3. post \in Nat /\ rIn * unit \in Nat \ {0} /\ post <= x * unit /\ x * unit \in Nat
    <3>1. keep * x <= unit * x
      BY <2>2, ScaleUp
    <3>2. keep * x = x * keep /\ unit * x = x * unit /\ x * keep \in Nat /\ x * unit \in Nat
      BY <2>2, Products
    <3>3. rIn * unit \in Nat /\ rIn * unit > 0
      BY <1>3, Products
    <3> QED  BY <2>2, <3>1, <3>2, <3>3
  <2> HIDE DEF post
  <2>4. /\ out \in Nat /\ out < rOut
        /\ out * (rIn * unit) <= post * rOut
        /\ (rIn * unit + post) * (rOut - out) >= (rIn * unit) * rOut
    <3> DEFINE s == rIn * unit
    <3>1. s \in Nat \ {0}
      BY <2>3
    <3> HIDE DEF s
    <3>2. LET paid == (post * rOut) \div (s + post) IN
          /\ paid \in Nat /\ paid < rOut
          /\ paid * s <= post * rOut
          /\ (s + post) * (rOut - paid) >= s * rOut
      BY <1>3, <2>3, <3>1, SharePaid
    <3> QED  BY <2>1, <3>2 DEF s
  <2> HIDE DEF out
  <2>5. PICK left \in Nat : rOut - out = left
    BY <2>4
  <2>6. out * rIn <= x * rOut
    <3>1. post * rOut <= (x * unit) * rOut
      BY <2>3, ScaleUp
    <3>2. (x * unit) * rOut = (x * rOut) * unit /\ out * (rIn * unit) = (out * rIn) * unit
      BY <2>4
    <3>3. post * rOut \in Nat /\ x * rOut \in Nat /\ out * rIn \in Nat
      BY <2>3, <2>4, Products
    <3>4. (x * rOut) * unit \in Nat /\ (out * rIn) * unit \in Nat
      BY <3>3, Products
    <3>5. (out * rIn) * unit <= (x * rOut) * unit
      BY <2>4, <3>1, <3>2, <3>3, <3>4
    <3> QED  BY <3>3, <3>5, ScaleDown
  <2>7. (rIn + x) * left >= rIn * rOut
    <3>1. (rIn * unit + post) * left <= (rIn * unit + x * unit) * left
      BY <2>3, ScaleUp
    <3>2. (rIn * unit + x * unit) * left = ((rIn + x) * left) * unit
      OBVIOUS
    <3>3. (rIn * unit) * rOut = (rIn * rOut) * unit
      OBVIOUS
    <3>4. (rIn + x) * left \in Nat /\ rIn * rOut \in Nat
      BY Products
    <3>5. ((rIn + x) * left) * unit \in Nat /\ (rIn * rOut) * unit \in Nat
          /\ (rIn * unit + post) * left \in Nat
      BY <2>3, <3>4, Products
    <3>6. (rIn * rOut) * unit <= ((rIn + x) * left) * unit
      BY <2>4, <2>5, <3>1, <3>2, <3>3, <3>5
    <3>7. rIn * rOut <= (rIn + x) * left
      BY <3>4, <3>6, ScaleDown
    <3> QED  BY <3>4, <3>7
  <2> QED  BY <1>3, <2>4, <2>5, <2>6, <2>7 DEF Worth, out
<1> QED  BY <1>1, <1>2, <1>3

\* So does the CPMM, which rounds the fee before.
LEMMA CpmmSound ==
  ASSUME NEW x \in Nat, NEW rIn \in Nat, NEW rOut \in Nat
  PROVE  LET out == CpmmQuote(x, rIn, rOut) IN
         /\ Worth(out, x, [n |-> rOut, d |-> rIn])
         /\ x > 0 /\ out # Err => out < rOut /\ (rIn + x) * (rOut - out) >= rIn * rOut
<1> DEFINE out  == CpmmQuote(x, rIn, rOut)
           post == (x * (Bps - CpmmFee)) \div Bps
<1>1. CASE x = 0
  BY <1>1 DEF CpmmQuote, Worth
<1>2. CASE x > 0 /\ (rIn = 0 \/ rOut = 0)
  BY <1>2 DEF CpmmQuote, Worth
<1>3. CASE x > 0 /\ rIn > 0 /\ rOut > 0
  <2>1. out = (rOut * post) \div (rIn + post)
    BY <1>3 DEF CpmmQuote
  <2>2. PICK keep \in Nat : Bps - CpmmFee = keep /\ keep <= Bps
    BY QuoterAssumption
  <2>3. Bps \in Nat \ {0}
    BY QuoterAssumption
  <2>4. post \in Nat /\ post <= x
    <3>1. keep * x <= Bps * x
      BY <2>2, <2>3, ScaleUp
    <3>2. keep * x = x * keep /\ Bps * x = x * Bps /\ x * keep \in Nat
      BY <2>2, <2>3, Products
    <3>3. (x * keep) \div Bps <= x
      BY <2>3, <3>1, <3>2, QuotientBelow
    <3>4. (x * keep) \div Bps \in Nat
      BY <2>3, <3>2, Quotient
    <3> QED  BY <2>2, <3>3, <3>4
  <2> HIDE DEF post
  <2>5. rOut * post = post * rOut
    BY <2>4, Products
  <2>6. /\ out \in Nat /\ out < rOut
        /\ out * rIn <= post * rOut
        /\ (rIn + post) * (rOut - out) >= rIn * rOut
    BY <1>3, <2>1, <2>4, <2>5, SharePaid
  <2> HIDE DEF out
  <2>7. PICK left \in Nat : rOut - out = left
    BY <2>6
  <2>8. post * rOut <= x * rOut /\ post * rOut \in Nat /\ x * rOut \in Nat /\ out * rIn \in Nat
    BY <2>4, <2>6, ScaleUp, Products
  <2>9. (rIn + post) * left <= (rIn + x) * left
    BY <2>4, ScaleUp
  <2>10. (rIn + post) * left \in Nat /\ (rIn + x) * left \in Nat /\ rIn * rOut \in Nat
    BY <2>4, Products
  <2> QED  BY <1>3, <2>6, <2>7, <2>8, <2>9, <2>10 DEF Worth, out
<1> QED  BY <1>1, <1>2, <1>3

\* A fixed price never pays more than it says.
LEMMA AtPriceSound ==
  ASSUME NEW x \in Nat, NEW price, price.n \in Nat, price.d \in Nat, NEW fee \in Nat,
         NEW unit \in Nat \ {0}
  PROVE  Worth(AtPrice(x, price, fee, unit), x, price)
<1> DEFINE out == AtPrice(x, price, fee, unit)
           n == price.n
           d == price.d
<1>1. CASE x = 0
  BY <1>1 DEF AtPrice, Worth
<1>2. CASE x > 0 /\ (n = 0 \/ d = 0 \/ fee > unit)
  BY <1>2 DEF AtPrice, Worth
<1>3. CASE x > 0 /\ n > 0 /\ d > 0 /\ fee <= unit
  <2>1. PICK keep \in Nat : unit - fee = keep /\ keep <= unit
    BY <1>3
  <2>2. out = (x * n * keep) \div (d * unit)
    BY <1>3, <2>1 DEF AtPrice
  <2>3. n \in Nat \ {0} /\ d \in Nat \ {0}
    BY <1>3
  <2> HIDE DEF n, d
  <2>4. x * n \in Nat /\ d * unit \in Nat \ {0} /\ x * n * keep \in Nat
    BY <2>1, <2>3, Products
  <2>5. out \in Nat /\ out * (d * unit) <= x * n * keep
    BY <2>2, <2>4, Quotient
  <2> HIDE DEF out
  <2>6. out * d \in Nat /\ (out * d) * unit = out * (d * unit)
    BY <2>3, <2>5, Products
  <2>7. keep * (x * n) <= unit * (x * n)
    BY <2>1, <2>4, ScaleUp
  <2>8. /\ keep * (x * n) = x * n * keep /\ unit * (x * n) = (x * n) * unit
        /\ (x * n) * unit \in Nat /\ (out * d) * unit \in Nat
    BY <2>1, <2>4, <2>6, Products
  <2>9. (out * d) * unit <= (x * n) * unit
    BY <2>4, <2>5, <2>6, <2>7, <2>8
  <2>10. out * d <= x * n
    BY <2>4, <2>6, <2>9, ScaleDown
  <2> QED  BY <1>3, <2>3, <2>5, <2>10 DEF Worth, out, n, d
<1> QED  BY <1>1, <1>2, <1>3

\* A larger input never pays less.
LEMMA ConstantProductGrows ==
  ASSUME NEW x \in Nat, NEW y \in Nat, x <= y, NEW rIn \in Nat, NEW rOut \in Nat,
         NEW fee \in Nat, NEW unit \in Nat \ {0},
         ConstantProduct(y, rIn, rOut, fee, unit) # Err
  PROVE  ConstantProduct(x, rIn, rOut, fee, unit) <= ConstantProduct(y, rIn, rOut, fee, unit)
<1>1. CASE x = 0
  <2>1. ConstantProduct(x, rIn, rOut, fee, unit) = 0
    BY <1>1 DEF ConstantProduct
  <2>2. ConstantProduct(y, rIn, rOut, fee, unit) \in Nat
    BY ConstantProductSound DEF Worth
  <2> QED  BY <2>1, <2>2
<1>2. CASE x > 0
  <2>1. y > 0 /\ rIn > 0 /\ rOut > 0 /\ fee <= unit
    BY <1>2 DEF ConstantProduct
  <2>2. PICK keep \in Nat : unit - fee = keep
    BY <2>1
  <2>3. x * keep <= y * keep /\ x * keep \in Nat /\ y * keep \in Nat
    BY ScaleUp, Products
  <2> DEFINE s == rIn * unit
             p == x * keep
             q == y * keep
  <2>4. s \in Nat \ {0}
    BY <2>1, Products
  <2>5. /\ ConstantProduct(x, rIn, rOut, fee, unit) = (p * rOut) \div (s + p)
        /\ ConstantProduct(y, rIn, rOut, fee, unit) = (q * rOut) \div (s + q)
    BY <1>2, <2>1, <2>2 DEF ConstantProduct
  <2>6. p \in Nat /\ q \in Nat /\ p <= q
    BY <2>3
  <2> HIDE DEF s, p, q
  <2>7. (p * rOut) \div (s + p) <= (q * rOut) \div (s + q)
    BY <2>4, <2>6, ShareGrows
  <2> QED  BY <2>5, <2>7
<1> QED  BY <1>1, <1>2

\* Nor does it from a CPMM pool,
LEMMA CpmmGrows ==
  ASSUME NEW x \in Nat, NEW y \in Nat, x <= y, NEW rIn \in Nat, NEW rOut \in Nat,
         CpmmQuote(y, rIn, rOut) # Err
  PROVE  CpmmQuote(x, rIn, rOut) <= CpmmQuote(y, rIn, rOut)
<1>1. CASE x = 0
  <2>1. CpmmQuote(x, rIn, rOut) = 0
    BY <1>1 DEF CpmmQuote
  <2>2. CpmmQuote(y, rIn, rOut) \in Nat
    BY CpmmSound DEF Worth
  <2> QED  BY <2>1, <2>2
<1>2. CASE x > 0
  <2>1. y > 0 /\ rIn > 0 /\ rOut > 0
    BY <1>2 DEF CpmmQuote
  <2>2. PICK keep \in Nat : Bps - CpmmFee = keep
    BY QuoterAssumption
  <2>3. x * keep <= y * keep /\ x * keep \in Nat /\ y * keep \in Nat /\ Bps \in Nat \ {0}
    BY ScaleUp, Products, QuoterAssumption
  <2>4. (x * keep) * Bps <= (y * keep) * Bps
    BY <2>3, ScaleUp
  <2> DEFINE p == (x * keep) \div Bps
             q == (y * keep) \div Bps
  <2>5. p \in Nat /\ q \in Nat /\ p <= q
    BY <2>3, <2>4, Quotient, QuotientGrows
  <2>6. /\ CpmmQuote(x, rIn, rOut) = (rOut * p) \div (rIn + p)
        /\ CpmmQuote(y, rIn, rOut) = (rOut * q) \div (rIn + q)
    BY <1>2, <2>1, <2>2 DEF CpmmQuote
  <2> HIDE DEF p, q
  <2>7. (p * rOut) \div (rIn + p) <= (q * rOut) \div (rIn + q)
    BY <2>1, <2>5, ShareGrows
  <2>8. p * rOut = rOut * p /\ q * rOut = rOut * q
    BY <2>5, Products
  <2> QED  BY <2>6, <2>7, <2>8
<1> QED  BY <1>1, <1>2

\* or at a fixed price.
LEMMA AtPriceGrows ==
  ASSUME NEW x \in Nat, NEW y \in Nat, x <= y, NEW price, price.n \in Nat, price.d \in Nat,
         NEW fee \in Nat, NEW unit \in Nat \ {0}, AtPrice(y, price, fee, unit) # Err
  PROVE  AtPrice(x, price, fee, unit) <= AtPrice(y, price, fee, unit)
<1>1. CASE x = 0
  <2>1. AtPrice(x, price, fee, unit) = 0
    BY <1>1 DEF AtPrice
  <2>2. AtPrice(y, price, fee, unit) \in Nat
    BY AtPriceSound DEF Worth
  <2> QED  BY <2>1, <2>2
<1>2. CASE x > 0
  <2>1. y > 0 /\ price.n > 0 /\ price.d > 0 /\ fee <= unit
    BY <1>2 DEF AtPrice
  <2>2. PICK keep \in Nat : unit - fee = keep
    BY <2>1
  <2> DEFINE n == price.n
             b == price.d * unit
             p == x * n * keep
             q == y * n * keep
  <2>3. b \in Nat \ {0} /\ n \in Nat
    BY <2>1, Products
  <2>4. /\ AtPrice(x, price, fee, unit) = p \div b
        /\ AtPrice(y, price, fee, unit) = q \div b
    BY <1>2, <2>1, <2>2 DEF AtPrice
  <2> HIDE DEF n, b
  <2>5. p \in Nat /\ q \in Nat /\ p <= q
    <3>1. x * n <= y * n /\ x * n \in Nat /\ y * n \in Nat
      BY <2>3, ScaleUp, Products
    <3> QED  BY <3>1, ScaleUp, Products
  <2> HIDE DEF p, q
  <2>6. p * b <= q * b
    BY <2>3, <2>5, ScaleUp
  <2>7. p \div b <= q \div b
    BY <2>3, <2>5, <2>6, QuotientGrows
  <2> QED  BY <2>4, <2>7
<1> QED  BY <1>1, <1>2

---------------------------------------------------------------------------
\* The pools quoted without powers: reserves or a price, as the parsers store them.
QuotedPool(pool, amounts, fees) ==
  /\ pool.a # pool.b
  /\ pool.kind \in {"amm_v4", "cpmm", "bonkswap", "whirlpool", "clmm", "lifinity"}
  /\ pool.kind \in {"amm_v4", "cpmm"} /\ Known(pool, amounts) =>
       amounts[pool.va] \in Nat /\ amounts[pool.vb] \in Nat
  /\ pool.kind = "bonkswap" => pool.rx \in Nat /\ pool.ry \in Nat
  /\ pool.kind \in {"amm_v4", "bonkswap", "lifinity"} => pool.fee \in Nat /\ pool.unit \in Nat \ {0}
  /\ pool.kind = "whirlpool" => pool.fee \in Nat
  /\ pool.kind = "clmm" /\ pool.name \in DOMAIN fees => fees[pool.name] \in Nat
  /\ pool.kind \in {"whirlpool", "clmm"} => pool.root.n \in Nat /\ pool.root.d \in Nat
  /\ pool.kind = "lifinity" => pool.price.n \in Nat /\ pool.price.d \in Nat

\* The reserves it moves, seen from the mint that comes in, and the price at its
\* edge without the fee.
Reserves(pool, amounts, mint) ==
  IF pool.kind = "bonkswap" THEN IF mint = pool.a THEN <<pool.rx, pool.ry>> ELSE <<pool.ry, pool.rx>>
  ELSE Sides(pool, amounts, mint = pool.a)

Spot(pool, amounts, mint) ==
  CASE pool.kind \in {"amm_v4", "cpmm", "bonkswap"} ->
         LET r == Reserves(pool, amounts, mint) IN [n |-> r[2], d |-> r[1]]
    [] pool.kind \in {"whirlpool", "clmm"} -> Towards(Square(pool.root), mint = pool.a)
    [] pool.kind = "lifinity" -> Towards(pool.price, mint = pool.a)

\* Its two mints see the two sides in opposite order.
LEMMA SidesSwap ==
  ASSUME NEW pool, NEW amounts, pool.a # pool.b
  PROVE  IF pool.kind = "bonkswap"
         THEN /\ Reserves(pool, amounts, pool.a) = <<pool.rx, pool.ry>>
              /\ Reserves(pool, amounts, pool.b) = <<pool.ry, pool.rx>>
         ELSE /\ Reserves(pool, amounts, pool.a) = <<amounts[pool.va], amounts[pool.vb]>>
              /\ Reserves(pool, amounts, pool.b) = <<amounts[pool.vb], amounts[pool.va]>>
<1> DEFINE both == <<amounts[pool.va], amounts[pool.vb]>>
<1>1. Reverse(both) = <<amounts[pool.vb], amounts[pool.va]>>
  <2>1. Len(both) = 2
    OBVIOUS
  <2>2. Reverse(both) = [i \in 1..2 |-> both[(2 - i) + 1]]
    BY <2>1 DEF Reverse
  <2> QED  BY <2>2
<1>2. CASE pool.kind = "bonkswap"
  BY <1>2 DEF Reserves
<1>3. CASE pool.kind # "bonkswap"
  <2>1. Reserves(pool, amounts, pool.a) = both
    BY <1>3 DEF Reserves, Sides
  <2>2. Reserves(pool, amounts, pool.b) = Reverse(both)
    BY <1>3 DEF Reserves, Sides
  <2> QED  BY <1>1, <1>3, <2>1, <2>2
<1> QED  BY <1>2, <1>3

\* The fee of a fixed price and its unit.
FeeOf(pool, fees) == IF pool.kind = "clmm" THEN fees[pool.name] ELSE pool.fee
UnitOf(pool)      == IF pool.kind = "lifinity" THEN pool.unit ELSE FeeUnit

\* What a pool of each kind pays at the mint it is asked for.
LEMMA QuoteByKind ==
  ASSUME NEW pool, NEW amounts, NEW fees, QuotedPool(pool, amounts, fees),
         NEW mint \in {pool.a, pool.b}, NEW x
  PROVE  LET forward == mint = pool.a
             out     == Quote(pool, amounts, fees, mint, x)
             r       == Reserves(pool, amounts, mint)
             spot    == Spot(pool, amounts, mint)
         IN  \/ out = Err
             \/ pool.kind = "cpmm" /\ out = CpmmQuote(x, r[1], r[2])
             \/ /\ pool.kind \in {"amm_v4", "bonkswap"}
                /\ out = ConstantProduct(x, r[1], r[2], pool.fee, pool.unit)
             \/ /\ pool.kind \in {"whirlpool", "clmm", "lifinity"}
                /\ FeeOf(pool, fees) \in Nat /\ UnitOf(pool) \in Nat \ {0}
                /\ out = AtPrice(x, spot, FeeOf(pool, fees), UnitOf(pool))
<1> DEFINE forward == mint = pool.a
           out == Quote(pool, amounts, fees, mint, x)
<1>1. forward \in BOOLEAN
  OBVIOUS
<1> HIDE DEF forward
<1>2. CASE pool.kind = "cpmm"
  <2>1. out = CpmmPoolQuote(pool, amounts, forward, x)
    BY <1>2 DEF Quote, QuotedPool, forward
  <2> QED  BY <1>1, <1>2, <2>1 DEF CpmmPoolQuote, Reserves, forward
<1>3. CASE pool.kind = "amm_v4"
  <2>1. out = AmmV4Quote(pool, amounts, forward, x)
    BY <1>3 DEF Quote, QuotedPool, forward
  <2> QED  BY <1>1, <1>3, <2>1 DEF AmmV4Quote, Reserves, forward
<1>4. CASE pool.kind = "bonkswap"
  <2>1. out = BonkswapQuote(pool, forward, x)
    BY <1>4 DEF Quote, QuotedPool, forward
  <2> QED  BY <1>1, <1>4, <2>1 DEF BonkswapQuote, Reserves, forward
<1>5. CASE pool.kind = "whirlpool"
  <2>1. out = WhirlpoolQuote(pool, forward, x)
    BY <1>5 DEF Quote, QuotedPool, forward
  <2>2. pool.fee \in Nat /\ FeeUnit \in Nat \ {0}
    BY <1>5, QuoterAssumption DEF QuotedPool
  <2>3. Spot(pool, amounts, mint) = Towards(Square(pool.root), forward)
    BY <1>5 DEF Spot, forward
  <2> QED  BY <1>1, <1>5, <2>1, <2>2, <2>3 DEF WhirlpoolQuote, FeeOf, UnitOf, forward
<1>6. CASE pool.kind = "clmm"
  <2>1. out = ClmmQuote(pool, fees, forward, x)
    BY <1>6 DEF Quote, QuotedPool, forward
  <2>2. pool.name \in DOMAIN fees => fees[pool.name] \in Nat
    BY <1>6 DEF QuotedPool
  <2>3. Spot(pool, amounts, mint) = Towards(Square(pool.root), forward)
    BY <1>6 DEF Spot, forward
  <2>4. FeeUnit \in Nat \ {0}
    BY QuoterAssumption
  <2> QED  BY <1>1, <1>6, <2>1, <2>2, <2>3, <2>4 DEF ClmmQuote, FeeOf, UnitOf, forward
<1>7. CASE pool.kind = "lifinity"
  <2>1. out = LifinityQuote(pool, forward, x)
    BY <1>7 DEF Quote, QuotedPool, forward
  <2>2. pool.fee \in Nat /\ pool.unit \in Nat \ {0}
    BY <1>7 DEF QuotedPool
  <2>3. Spot(pool, amounts, mint) = Towards(pool.price, forward)
    BY <1>7 DEF Spot, forward
  <2> QED  BY <1>1, <1>7, <2>1, <2>2, <2>3 DEF LifinityQuote, FeeOf, UnitOf, forward
<1> QED  BY <1>2, <1>3, <1>4, <1>5, <1>6, <1>7 DEF QuotedPool

\* The reserves are natural wherever a quote reads them.
LEMMA ReserveTypes ==
  ASSUME NEW pool, NEW amounts, NEW fees, QuotedPool(pool, amounts, fees),
         NEW mint \in {pool.a, pool.b}, pool.kind \in {"amm_v4", "cpmm"} => Known(pool, amounts)
  PROVE  /\ pool.kind \in {"amm_v4", "cpmm", "bonkswap"} =>
              LET r == Reserves(pool, amounts, mint) IN r[1] \in Nat /\ r[2] \in Nat
         /\ Spot(pool, amounts, mint).n \in Nat /\ Spot(pool, amounts, mint).d \in Nat
<1>1. CASE pool.kind \in {"amm_v4", "cpmm", "bonkswap"}
  <2> DEFINE r == Reserves(pool, amounts, mint)
  <2>1. \/ r = <<pool.rx, pool.ry>> /\ pool.kind = "bonkswap"
        \/ r = <<pool.ry, pool.rx>> /\ pool.kind = "bonkswap"
        \/ r = <<amounts[pool.va], amounts[pool.vb]>> /\ pool.kind # "bonkswap"
        \/ r = <<amounts[pool.vb], amounts[pool.va]>> /\ pool.kind # "bonkswap"
    BY SidesSwap DEF QuotedPool
  <2> HIDE DEF r
  <2>3. r[1] \in Nat /\ r[2] \in Nat
    BY <1>1, <2>1 DEF QuotedPool
  <2>2. Spot(pool, amounts, mint) = [n |-> r[2], d |-> r[1]]
    BY <1>1 DEF Spot, r
  <2> QED  BY <1>1, <2>2, <2>3 DEF r
<1>2. CASE pool.kind \in {"whirlpool", "clmm"}
  <2>1. Spot(pool, amounts, mint) = Towards(Square(pool.root), mint = pool.a)
    BY <1>2 DEF Spot
  <2>2. pool.root.n * pool.root.n \in Nat /\ pool.root.d * pool.root.d \in Nat
    BY <1>2, Products DEF QuotedPool
  <2> QED  BY <1>2, <2>1, <2>2 DEF Towards, Flip, Square
<1>3. CASE pool.kind = "lifinity"
  <2>1. Spot(pool, amounts, mint) = Towards(pool.price, mint = pool.a)
    BY <1>3 DEF Spot
  <2> QED  BY <1>3, <2>1 DEF Towards, Flip, QuotedPool
<1> QED  BY <1>1, <1>2, <1>3 DEF QuotedPool

\* A quote is worth its price.
LEMMA QuoteSound ==
  ASSUME NEW pool, NEW amounts, NEW fees, QuotedPool(pool, amounts, fees),
         NEW mint \in {pool.a, pool.b}, NEW x \in Nat
  PROVE  LET forward == mint = pool.a
             out     == Quote(pool, amounts, fees, mint, x)
             r       == Reserves(pool, amounts, mint)
         IN  /\ Worth(out, x, Spot(pool, amounts, mint))
             /\ pool.kind \in {"amm_v4", "cpmm", "bonkswap"} /\ x > 0 /\ out # Err =>
                  r[1] \in Nat /\ r[2] \in Nat /\ out < r[2] /\ (r[1] + x) * (r[2] - out) >= r[1] * r[2]
<1> DEFINE forward == mint = pool.a
           out  == Quote(pool, amounts, fees, mint, x)
           r    == Reserves(pool, amounts, mint)
           spot == Spot(pool, amounts, mint)
<1>1. forward \in BOOLEAN
  OBVIOUS
<1>2. CASE out = Err
  BY <1>2 DEF Worth
<1>3. CASE out # Err
  <2>1. pool.kind \in {"amm_v4", "cpmm"} => Known(pool, amounts)
    BY <1>3 DEF Quote, AmmV4Quote, CpmmPoolQuote
  <2>2. /\ pool.kind \in {"amm_v4", "cpmm", "bonkswap"} => r[1] \in Nat /\ r[2] \in Nat
        /\ spot.n \in Nat /\ spot.d \in Nat
    BY <1>1, <2>1, ReserveTypes
  <2>3. \/ pool.kind = "cpmm" /\ out = CpmmQuote(x, r[1], r[2])
        \/ /\ pool.kind \in {"amm_v4", "bonkswap"}
           /\ out = ConstantProduct(x, r[1], r[2], pool.fee, pool.unit)
        \/ /\ pool.kind \in {"whirlpool", "clmm", "lifinity"}
           /\ FeeOf(pool, fees) \in Nat /\ UnitOf(pool) \in Nat \ {0}
           /\ out = AtPrice(x, spot, FeeOf(pool, fees), UnitOf(pool))
    BY <1>3, QuoteByKind
  <2>4. pool.kind \in {"amm_v4", "cpmm", "bonkswap"} => spot = [n |-> r[2], d |-> r[1]]
    BY DEF Spot
  <2>5. pool.kind \in {"amm_v4", "bonkswap"} => pool.fee \in Nat /\ pool.unit \in Nat \ {0}
    BY DEF QuotedPool
  <2> HIDE DEF forward, out, r, spot
  <2>6. CASE pool.kind = "cpmm"
    <3>1. out = CpmmQuote(x, r[1], r[2])
      BY <2>3, <2>6
    <3> QED  BY <2>2, <2>4, <2>6, <3>1, CpmmSound DEF forward, out, r, spot
  <2>7. CASE pool.kind \in {"amm_v4", "bonkswap"}
    <3>1. out = ConstantProduct(x, r[1], r[2], pool.fee, pool.unit)
      BY <2>3, <2>7
    <3> QED  BY <2>2, <2>4, <2>5, <2>7, <3>1, ConstantProductSound DEF forward, out, r, spot
  <2>8. CASE pool.kind \in {"whirlpool", "clmm", "lifinity"}
    <3>1. /\ FeeOf(pool, fees) \in Nat /\ UnitOf(pool) \in Nat \ {0}
          /\ out = AtPrice(x, spot, FeeOf(pool, fees), UnitOf(pool))
      BY <2>3, <2>8
    <3>2. Worth(out, x, spot)
      BY <2>2, <3>1, AtPriceSound
    <3> QED  BY <2>8, <3>2 DEF forward, out, r, spot
  <2> QED  BY <2>6, <2>7, <2>8 DEF QuotedPool
<1> QED  BY <1>2, <1>3

\* The spot price of the way back is the reciprocal.
LEMMA SpotFlips ==
  ASSUME NEW pool, NEW amounts, NEW fees, QuotedPool(pool, amounts, fees)
  PROVE  /\ Spot(pool, amounts, pool.b).n = Spot(pool, amounts, pool.a).d
         /\ Spot(pool, amounts, pool.b).d = Spot(pool, amounts, pool.a).n
<1>1. CASE pool.kind \in {"amm_v4", "cpmm", "bonkswap"}
  <2> DEFINE there == Reserves(pool, amounts, pool.a)
             back  == Reserves(pool, amounts, pool.b)
  <2>1. /\ Spot(pool, amounts, pool.a) = [n |-> there[2], d |-> there[1]]
        /\ Spot(pool, amounts, pool.b) = [n |-> back[2], d |-> back[1]]
    BY <1>1 DEF Spot
  <2>2. back[1] = there[2] /\ back[2] = there[1]
    <3>1. \/ there = <<pool.rx, pool.ry>> /\ back = <<pool.ry, pool.rx>>
          \/ there = <<amounts[pool.va], amounts[pool.vb]>> /\ back = <<amounts[pool.vb], amounts[pool.va]>>
      BY SidesSwap DEF QuotedPool
    <3> HIDE DEF there, back
    <3> QED  BY <3>1
  <2> HIDE DEF there, back
  <2>3. Spot(pool, amounts, pool.a).n = there[2] /\ Spot(pool, amounts, pool.a).d = there[1]
    BY <2>1
  <2>4. Spot(pool, amounts, pool.b).n = back[2] /\ Spot(pool, amounts, pool.b).d = back[1]
    BY <2>1
  <2> QED  BY <2>2, <2>3, <2>4
<1>2. CASE pool.kind \in {"whirlpool", "clmm"}
  BY <1>2 DEF Spot, Towards, Flip, QuotedPool
<1>3. CASE pool.kind = "lifinity"
  BY <1>3 DEF Spot, Towards, Flip, QuotedPool
<1> QED  BY <1>1, <1>2, <1>3 DEF QuotedPool

---------------------------------------------------------------------------
\* No pool pays back more than was put in: whoever quotes one mint of a pool
\* and what it pays back again ends with no more than he began with. A cycle
\* that gains needs two pools that disagree.
THEOREM NoGainThereAndBack ==
  ASSUME NEW pool, NEW amounts, NEW fees, QuotedPool(pool, amounts, fees),
         NEW x \in Nat, Quote(pool, amounts, fees, pool.a, x) # Err
  PROVE  Quote(pool, amounts, fees, pool.b, Quote(pool, amounts, fees, pool.a, x)) <= x
<1> DEFINE there == Quote(pool, amounts, fees, pool.a, x)
           back  == Quote(pool, amounts, fees, pool.b, there)
           n     == Spot(pool, amounts, pool.a).n
           d     == Spot(pool, amounts, pool.a).d
<1>1. (pool.a = pool.a) = TRUE /\ (pool.b = pool.a) = FALSE
  BY DEF QuotedPool
<1>2. Worth(there, x, Spot(pool, amounts, pool.a))
  BY <1>1, QuoteSound
<1>3. there \in Nat /\ there * d <= x * n /\ (x = 0 => there = 0) /\ (x > 0 => n > 0)
  BY <1>2 DEF Worth
<1>4. Worth(back, there, Spot(pool, amounts, pool.b))
  <2> HIDE DEF there
  <2> QED  BY <1>1, <1>3, QuoteSound DEF back
<1>5. CASE back = Err
  BY <1>5 DEF Err
<1>6. CASE back # Err
  <2>1. back \in Nat /\ back * n <= there * d /\ (there = 0 => back = 0)
    BY <1>4, <1>6, SpotFlips DEF Worth
  <2>2. pool.kind \in {"amm_v4", "cpmm"} => Known(pool, amounts)
    BY <1>3 DEF Quote, AmmV4Quote, CpmmPoolQuote
  <2>3. n \in Nat /\ d \in Nat
    BY <2>2, ReserveTypes
  <2> HIDE DEF there, back, n, d
  <2>4. CASE x = 0
    BY <1>3, <2>1, <2>4 DEF there, back
  <2>5. CASE x > 0
    <3>1. back * n \in Nat /\ there * d \in Nat /\ x * n \in Nat /\ n \in Nat \ {0}
      BY <1>3, <2>1, <2>3, <2>5, Products
    <3>2. back * n <= x * n
      BY <1>3, <2>1, <3>1
    <3>3. back <= x
      BY <2>1, <3>1, <3>2, ScaleDown
    <3> QED  BY <3>3 DEF there, back
  <2> QED  BY <2>4, <2>5
<1> QED  BY <1>5, <1>6

\* A larger input of the same mint never pays less.
THEOREM MoreInMoreOut ==
  ASSUME NEW pool, NEW amounts, NEW fees, QuotedPool(pool, amounts, fees),
         NEW mint \in {pool.a, pool.b}, NEW x \in Nat, NEW y \in Nat, x <= y,
         Quote(pool, amounts, fees, mint, y) # Err
  PROVE  Quote(pool, amounts, fees, mint, x) <= Quote(pool, amounts, fees, mint, y)
<1> DEFINE forward == mint = pool.a
           r    == Reserves(pool, amounts, mint)
           spot == Spot(pool, amounts, mint)
           less == Quote(pool, amounts, fees, mint, x)
           more == Quote(pool, amounts, fees, mint, y)
<1>1. more \in Nat
  BY QuoteSound DEF Worth
<1>2. CASE less = Err
  BY <1>1, <1>2 DEF Err
<1>3. CASE less # Err
  <2>1. pool.kind \in {"amm_v4", "cpmm"} => Known(pool, amounts)
    BY DEF Quote, AmmV4Quote, CpmmPoolQuote
  <2>2. /\ pool.kind \in {"amm_v4", "cpmm", "bonkswap"} => r[1] \in Nat /\ r[2] \in Nat
        /\ spot.n \in Nat /\ spot.d \in Nat
    BY <2>1, ReserveTypes
  <2>3. CASE pool.kind = "cpmm"
    <3>1. less = CpmmQuote(x, r[1], r[2]) /\ more = CpmmQuote(y, r[1], r[2])
      BY <1>3, <2>3, QuoteByKind
    <3> HIDE DEF r, spot, less, more
    <3>2. CpmmQuote(x, r[1], r[2]) <= CpmmQuote(y, r[1], r[2])
      BY <2>2, <2>3, <3>1, CpmmGrows DEF more
    <3> QED  BY <3>1, <3>2 DEF less, more
  <2>4. CASE pool.kind \in {"amm_v4", "bonkswap"}
    <3>1. /\ less = ConstantProduct(x, r[1], r[2], pool.fee, pool.unit)
          /\ more = ConstantProduct(y, r[1], r[2], pool.fee, pool.unit)
      BY <1>3, <2>4, QuoteByKind
    <3>2. pool.fee \in Nat /\ pool.unit \in Nat \ {0}
      BY <2>4 DEF QuotedPool
    <3> HIDE DEF r, spot, less, more
    <3>3. ConstantProduct(x, r[1], r[2], pool.fee, pool.unit)
            <= ConstantProduct(y, r[1], r[2], pool.fee, pool.unit)
      BY <2>2, <2>4, <3>1, <3>2, ConstantProductGrows DEF more
    <3> QED  BY <3>1, <3>3 DEF less, more
  <2>5. CASE pool.kind \in {"whirlpool", "clmm", "lifinity"}
    <3> DEFINE fee  == FeeOf(pool, fees)
               unit == UnitOf(pool)
    <3>1. /\ fee \in Nat /\ unit \in Nat \ {0}
          /\ less = AtPrice(x, spot, fee, unit) /\ more = AtPrice(y, spot, fee, unit)
      BY <1>3, <2>5, QuoteByKind
    <3> HIDE DEF r, spot, less, more, fee, unit
    <3>2. AtPrice(x, spot, fee, unit) <= AtPrice(y, spot, fee, unit)
      BY <2>2, <3>1, AtPriceGrows DEF more
    <3> QED  BY <3>1, <3>2 DEF less, more
  <2> QED  BY <2>3, <2>4, <2>5 DEF QuotedPool
<1> QED  BY <1>2, <1>3

\* A pool with reserves keeps some of what it pays out, and its product of
\* reserves, so that no sequence of quotes drains it.
THEOREM ReservesKeepTheirProduct ==
  ASSUME NEW pool, NEW amounts, NEW fees, QuotedPool(pool, amounts, fees),
         pool.kind \in {"amm_v4", "cpmm", "bonkswap"},
         NEW mint \in {pool.a, pool.b}, NEW x \in Nat \ {0},
         Quote(pool, amounts, fees, mint, x) # Err
  PROVE  LET r   == Reserves(pool, amounts, mint)
             out == Quote(pool, amounts, fees, mint, x)
         IN  out < r[2] /\ (r[1] + x) * (r[2] - out) >= r[1] * r[2]
BY QuoteSound

\* Inside one tick: liq of liquidity at the square root price n/d, keep of unit
\* left after the fee.
LEMMA TickBelowPrice ==
  ASSUME NEW x \in Nat, NEW liq \in Nat \ {0}, NEW n \in Nat \ {0}, NEW d \in Nat \ {0},
         NEW keep \in Nat, NEW unit \in Nat \ {0}
  PROVE  LET tick == (liq * x * keep * n * n) \div (d * (liq * unit * d + x * keep * n))
             flat == (x * (n * n) * keep) \div ((d * d) * unit)
         IN  tick \in Nat /\ flat \in Nat /\ tick <= flat
<1> DEFINE top == liq * x * keep * n * n
           under == d * (liq * unit * d + x * keep * n)
           flatTop == x * (n * n) * keep
           flatUnder == (d * d) * unit
           moved == x * keep * n
<1>1. moved \in Nat
  BY Products
<1>2. liq * unit * d \in Nat \ {0}
  BY Products
<1>3. flatTop \in Nat /\ top \in Nat /\ flatTop = moved * n /\ top = (liq * moved) * n
  <2>1. flatTop \in Nat /\ top \in Nat
    BY Products
  <2>2. flatTop = moved * n
    OBVIOUS
  <2>3. top = (liq * moved) * n
    OBVIOUS
  <2> QED  BY <2>1, <2>2, <2>3
<1>4. flatUnder \in Nat \ {0}
  BY Products
<1>5. under = d * (liq * unit * d) + d * moved /\ under \in Nat \ {0}
  <2> DEFINE depth == liq * unit * d
  <2>1. depth \in Nat \ {0}
    BY <1>2
  <2> HIDE DEF moved, depth
  <2>2. d * (depth + moved) = d * depth + d * moved /\ d * depth \in Nat \ {0} /\ d * moved \in Nat
    BY <1>1, <2>1, Products
  <2>3. d * depth + d * moved \in Nat \ {0}
    BY <2>2
  <2> QED  BY <2>2, <2>3 DEF depth, moved
<1>6. top * flatUnder <= flatTop * under
  <2>1. top * flatUnder = ((liq * moved) * n) * ((d * d) * unit)
    BY <1>3
  <2>2. flatTop * under = (moved * n) * (d * (liq * unit * d)) + (moved * n) * (d * moved)
    <3> HIDE DEF moved, flatTop, under
    <3>1. moved * n \in Nat /\ d * (liq * unit * d) \in Nat /\ d * moved \in Nat
      BY <1>1, Products
    <3> QED  BY <1>3, <1>5, <3>1
  <2>3. ((liq * moved) * n) * ((d * d) * unit) = (moved * n) * (d * (liq * unit * d))
    <3> HIDE DEF moved
    <3> QED  BY <1>1
  <2>4. (moved * n) * (d * moved) \in Nat /\ (moved * n) * (d * (liq * unit * d)) \in Nat
    <3> HIDE DEF moved
    <3> QED  BY <1>1, Products
  <2> HIDE DEF top, flatTop, under, flatUnder, moved
  <2> QED  BY <2>1, <2>2, <2>3, <2>4
<1> HIDE DEF top, flatTop, under, flatUnder
<1>7. top \div under <= flatTop \div flatUnder
  BY <1>3, <1>4, <1>5, <1>6, QuotientGrows
<1>8. top \div under \in Nat /\ flatTop \div flatUnder \in Nat
  BY <1>3, <1>4, <1>5, Quotient
<1> QED  BY <1>7, <1>8 DEF top, under, flatTop, flatUnder

\* The smaller of two.
LEMMA SmallerOf ==
  ASSUME NEW a \in Int, NEW b \in Int
  PROVE  Min({a, b}) \in {a, b} /\ Min({a, b}) <= a /\ Min({a, b}) <= b
<1>1. \E m \in {a, b} : \A y \in {a, b} : m <= y
  <2>1. CASE a <= b
    BY <2>1
  <2>2. CASE b <= a
    BY <2>2
  <2> QED  BY <2>1, <2>2
<1>2. Min({a, b}) \in {a, b} /\ \A y \in {a, b} : Min({a, b}) <= y
  BY <1>1 DEF Min
<1> QED  BY <1>2

\* The larger of it and 0.
LEMMA NonNegativeType == ASSUME NEW n \in Int PROVE NonNegative(n) \in Nat
<1>1. \E m \in {n, 0} : \A y \in {n, 0} : m >= y
  <2>1. CASE n <= 0
    BY <2>1
  <2>2. CASE 0 <= n
    BY <2>2
  <2> QED  BY <2>1, <2>2
<1>2. Max({n, 0}) \in {n, 0} /\ \A y \in {n, 0} : Max({n, 0}) >= y
  BY <1>1 DEF Max
<1> QED  BY <1>2 DEF NonNegative

\* A pool with ticks, as the parsers store it, seen in one direction.
TickPool(pool) == pool.root.n \in Nat /\ pool.root.d \in Nat \ {0} /\ pool.liq \in Nat

\* Price impact only lowers a quote: what the native executor expects of a
\* pool with ticks is never above what the scout ranked the route by.
THEOREM ImpactOnlyLowers ==
  ASSUME NEW pool, TickPool(pool), NEW x \in Nat, NEW fee \in 0..FeeUnit, NEW forward \in BOOLEAN
  PROVE  SwapQuote(x, pool, fee, forward)
           <= AtPrice(x, Square(Towards(pool.root, forward)), fee, FeeUnit)
<1> DEFINE root == Towards(pool.root, forward)
           n == root.n
           d == root.d
           keep == FeeUnit - fee
           out == SwapQuote(x, pool, fee, forward)
           flat == AtPrice(x, Square(root), fee, FeeUnit)
<1>1. FeeUnit \in Nat \ {0} /\ LeaveUnits \in Nat
  BY QuoterAssumption
<1>2. keep \in Nat /\ fee \in Nat /\ ~(fee > FeeUnit)
  BY <1>1
<1>3. \/ n = pool.root.n /\ d = pool.root.d
      \/ n = pool.root.d /\ d = pool.root.n
  BY DEF Towards, Flip
<1>4. n \in Nat /\ d \in Nat /\ pool.liq \in Nat
  BY <1>3 DEF TickPool
<1>5. Square(root).n = n * n /\ Square(root).d = d * d
  BY DEF Square
<1>6. CASE x = 0
  <2>1. out = 0
    BY <1>6 DEF SwapQuote
  <2>2. flat = 0
    BY <1>6 DEF AtPrice
  <2> QED  BY <2>1, <2>2
<1>7. CASE x > 0 /\ (pool.root.n = 0 \/ pool.liq = 0)
  <2>1. out = Err
    BY <1>7 DEF SwapQuote
  <2>2. flat = Err \/ flat \in Nat
    <3>1. Square(root).n \in Nat /\ Square(root).d \in Nat
      BY <1>4, <1>5, Products
    <3> QED  BY <1>1, <1>2, <3>1, AtPriceSound DEF Worth
  <2> HIDE DEF out, flat
  <2>3. out <= flat
    BY <2>1, <2>2 DEF Err
  <2> QED  BY <2>3 DEF out, flat
<1>8. CASE x > 0 /\ pool.root.n > 0 /\ pool.liq > 0
  <2> DEFINE liq == pool.liq
             tick == SingleTick(x, liq, root, keep, FeeUnit)
             most == MostInTick(liq, root)
  <2>1. n \in Nat \ {0} /\ d \in Nat \ {0} /\ liq \in Nat \ {0}
    BY <1>3, <1>4, <1>8 DEF TickPool
  <2>2. out = tick \/ out = Min({tick, most})
    BY <1>8 DEF SwapQuote
  <2>3. tick = (liq * x * keep * n * n) \div (d * (liq * FeeUnit * d + x * keep * n))
    BY DEF SingleTick
  <2>4. flat = (x * (n * n) * keep) \div ((d * d) * FeeUnit)
    <3>1. n * n # 0 /\ d * d # 0
      BY <2>1, Products
    <3> HIDE DEF n, d, keep, root
    <3>2. ~(Square(root).n = 0 \/ Square(root).d = 0 \/ fee > FeeUnit)
      BY <1>2, <1>5, <3>1
    <3>3. flat = (x * Square(root).n * (FeeUnit - fee)) \div (Square(root).d * FeeUnit)
      BY <1>8, <3>2 DEF AtPrice
    <3> QED  BY <1>5, <3>3 DEF keep
  <2>5. most \in Int
    <3> HIDE DEF n, d
    <3>1. liq * n \in Nat /\ LeaveUnits * d \in Nat
      BY <1>1, <2>1, Products
    <3>2. NonNegative(liq * n - LeaveUnits * d) \in Nat
      BY <3>1, NonNegativeType
    <3>3. NonNegative(liq * n - LeaveUnits * d) \div d \in Nat
      BY <2>1, <3>2, Quotient
    <3> QED  BY <3>3 DEF MostInTick, n, d
  <2> HIDE DEF n, d, keep, liq, tick, most, out, flat, root
  <2>6. tick \in Nat /\ flat \in Nat /\ tick <= flat
    BY <1>1, <1>2, <2>1, <2>3, <2>4, TickBelowPrice
  <2>7. out <= tick /\ out \in Int
    <3>1. tick \in Int
      BY <2>6
    <3> QED  BY <2>2, <2>5, <3>1, SmallerOf
  <2>8. out <= flat
    BY <2>6, <2>7
  <2> QED  BY <2>8 DEF out, flat, root
<1> QED  BY <1>4, <1>6, <1>7, <1>8 DEF TickPool

\* An input that max_safe_input allows stays in the window of the square root
\* price in which the quote is trusted.
THEOREM SafeInputStays ==
  ASSUME NEW pool, TickPool(pool), NEW fee \in 0..FeeUnit, NEW forward \in BOOLEAN,
         NEW x \in Nat, x <= MaxSafeInput(pool, forward)
  PROVE  ~MovesTooFar(x, pool.liq, Towards(pool.root, forward), FeeUnit - fee, FeeUnit, forward)
<1> DEFINE root == Towards(pool.root, forward)
           n == root.n
           d == root.d
           liq == pool.liq
           keep == FeeUnit - fee
           wn == Window.n
           wd == Window.d
           moved == x * keep * n
           depth == liq * FeeUnit * d
<1>1. FeeUnit \in Nat \ {0} /\ wn \in Nat \ {0} /\ wd \in Nat \ {0}
  BY QuoterAssumption
<1>2. keep \in Nat /\ keep <= FeeUnit
  BY <1>1
<1>3. \/ n = pool.root.n /\ d = pool.root.d
      \/ n = pool.root.d /\ d = pool.root.n
  BY DEF Towards, Flip
<1>4. n \in Nat /\ d \in Nat /\ liq \in Nat
  BY <1>3 DEF TickPool
<1>5. moved \in Nat /\ depth \in Nat
  <2> HIDE DEF n, d, liq, keep
  <2> QED  BY <1>1, <1>2, <1>4, Products
<1>6. moved * wd <= wn * depth
  <2>1. CASE x = 0
    <3> HIDE DEF n, d, liq, keep, wn, wd, depth
    <3>1. moved = 0
      BY <1>2, <1>4, <2>1
    <3>2. wn * depth \in Nat /\ 0 * wd = 0
      BY <1>1, <1>5, Products
    <3> QED  BY <3>1, <3>2
  <2>2. CASE x > 0
    <3>1. pool.root.n # 0 /\ pool.liq # 0
      BY <2>2 DEF MaxSafeInput
    <3>2. x <= (liq * wn * d) \div (wd * n)
      BY <3>1 DEF MaxSafeInput
    <3>3. n \in Nat \ {0} /\ d \in Nat \ {0} /\ liq \in Nat \ {0}
      BY <1>3, <1>4, <3>1 DEF TickPool
    <3> HIDE DEF n, d, liq, keep, wn, wd
    <3>4. liq * wn * d \in Nat /\ wd * n \in Nat \ {0}
      BY <1>1, <3>3, Products
    <3> DEFINE most == (liq * wn * d) \div (wd * n)
    <3>5. most \in Nat /\ most * (wd * n) <= liq * wn * d
      BY <3>4, Quotient
    <3> HIDE DEF most
    <3>6. x * (wd * n) <= most * (wd * n) /\ x * (wd * n) \in Nat /\ most * (wd * n) \in Nat
      BY <3>2, <3>4, <3>5, ScaleUp, Products DEF most
    <3>7. x * (wd * n) <= liq * wn * d
      BY <3>4, <3>5, <3>6
    <3>8. (x * (wd * n)) * keep <= (liq * wn * d) * keep
      BY <1>2, <3>4, <3>6, <3>7, ScaleUp
    <3>9. keep * (liq * wn * d) <= FeeUnit * (liq * wn * d)
      BY <1>1, <1>2, <3>4, ScaleUp
    <3>10. (x * (wd * n)) * keep = moved * wd
      BY <1>1, <1>2, <3>3
    <3>11. FeeUnit * (liq * wn * d) = wn * depth
      BY <1>1, <3>3
    <3>12. (liq * wn * d) * keep = keep * (liq * wn * d)
      BY <1>2, <3>4, Products
    <3>13. keep * (liq * wn * d) \in Nat /\ moved * wd \in Nat /\ wn * depth \in Nat
      BY <1>1, <1>2, <1>5, <3>4, Products
    <3> HIDE DEF moved, depth
    <3> QED  BY <3>8, <3>9, <3>10, <3>11, <3>12, <3>13
  <2> QED  BY <2>1, <2>2
<1>7. wn * depth <= wn * (depth + moved) /\ wn * depth \in Nat /\ wn * (depth + moved) \in Nat
      /\ moved * wd \in Nat
  <2> HIDE DEF moved, depth, wn, wd
  <2>1. wn * (depth + moved) = wn * depth + wn * moved /\ wn * moved \in Nat /\ wn * depth \in Nat
    BY <1>1, <1>5, Products
  <2> QED  BY <1>1, <1>5, <2>1, Products
<1>8. ~(moved * wd > wn * depth) /\ ~(moved * wd > wn * (depth + moved))
  <2> HIDE DEF moved, depth, wn, wd
  <2> QED  BY <1>6, <1>7
<1> QED  BY <1>8 DEF MovesTooFar

---------------------------------------------------------------------------
\* A set of numbers that holds 0 and the successor of each member is Nat.
LEMMA NatInSet ==
  ASSUME NEW T \in SUBSET Nat, 0 \in T, \A n \in T : n + 1 \in T
  PROVE  T = Nat
<1> SUFFICES ASSUME T # Nat PROVE FALSE
  OBVIOUS
<1>1. Nat \ T \subseteq Nat /\ Nat \ T # {}
  OBVIOUS
<1>2. PICK n \in Nat \ T : \A m \in Nat \ T : <<m, n>> \notin OpToRel(<, Nat)
  BY <1>1, NatLessThanWellFounded, WFMin
<1>3. \A m \in Nat : m < n => m \in T
  BY <1>2 DEF OpToRel
<1>4. n \in Nat /\ n # 0
  OBVIOUS
<1>5. n - 1 \in Nat /\ n - 1 < n /\ (n - 1) + 1 = n
  BY <1>4
<1>6. n - 1 \in T
  BY <1>3, <1>5
<1> QED  BY <1>5, <1>6

\* The same up to N.
LEMMA Climb ==
  ASSUME NEW N \in Nat, NEW T, 0 \in T, \A n \in 0..N : n \in T /\ n < N => n + 1 \in T
  PROVE  0..N \subseteq T
<1> DEFINE U == {n \in Nat : n <= N => n \in T}
<1>1. 0 \in U /\ \A n \in U : n + 1 \in U
  OBVIOUS
<1>2. U = Nat
  <2>1. U \in SUBSET Nat
    OBVIOUS
  <2> HIDE DEF U
  <2> QED  BY <1>1, <2>1, NatInSet
<1> QED  BY <1>2

\* g starts with a and goes on by H.
GoesBy(g, N, V, a, H) ==
  g \in [0..N -> V] /\ g[0] = a /\ \A k \in 1..N : g[k] = H[k][g[k - 1]]

\* What is defined step by step exists.
LEMMA Iterates ==
  ASSUME NEW N \in Nat, NEW V, NEW a \in V, NEW H \in [1..N -> [V -> V]]
  PROVE  \E g : GoesBy(g, N, V, a, H)
<1> DEFINE T == {n \in 0..N : \E g \in [0..n -> V] :
                   g[0] = a /\ \A k \in 1..n : g[k] = H[k][g[k - 1]]}
<1>1. 0 \in T
  <2> DEFINE g == [i \in 0..0 |-> a]
  <2>1. g \in [0..0 -> V] /\ g[0] = a
    OBVIOUS
  <2> HIDE DEF g
  <2>2. \A k \in 1..0 : g[k] = H[k][g[k - 1]]
    OBVIOUS
  <2>3. 0 \in 0..N
    OBVIOUS
  <2> QED  BY <2>1, <2>2, <2>3
<1>2. ASSUME NEW n \in 0..N, n \in T, n < N PROVE n + 1 \in T
  <2>1. PICK g \in [0..n -> V] : g[0] = a /\ \A k \in 1..n : g[k] = H[k][g[k - 1]]
    BY <1>2
  <2>2. n \in Nat /\ n + 1 \in 1..N /\ g[n] \in V
    BY <1>2
  <2> DEFINE h == [i \in 0..n + 1 |-> IF i = n + 1 THEN H[n + 1][g[n]] ELSE g[i]]
  <2>3. H[n + 1][g[n]] \in V
    BY <2>2
  <2>4. h \in [0..n + 1 -> V]
    BY <2>2, <2>3
  <2>5. /\ \A i \in 0..n : h[i] = g[i]
        /\ h[n + 1] = H[n + 1][g[n]]
    BY <2>2
  <2> HIDE DEF h
  <2>6. h[0] = a
    BY <2>1, <2>2, <2>5
  <2>7. ASSUME NEW k \in 1..n + 1 PROVE h[k] = H[k][h[k - 1]]
    <3>1. CASE k = n + 1
      <4>1. k - 1 = n
        BY <2>2, <3>1
      <4> QED  BY <2>2, <2>5, <3>1, <4>1
    <3>2. CASE k # n + 1
      <4>1. k \in 1..n /\ k - 1 \in 0..n /\ k \in 0..n
        BY <2>2, <3>2
      <4> QED  BY <2>1, <2>5, <4>1
    <3> QED  BY <3>1, <3>2
  <2>8. n + 1 \in 0..N
    BY <2>2
  <2> QED  BY <2>4, <2>6, <2>7, <2>8
<1>3. 0..N \subseteq T
  <2> HIDE DEF T
  <2> QED  BY <1>1, <1>2, Climb
<1>4. N \in T
  BY <1>3
<1> QED  BY <1>4 DEF GoesBy

---------------------------------------------------------------------------
\* P lists the powers of b.
ListsPowers(P, b, n) == P = [k \in 0..n |-> IF k = 0 THEN 1 ELSE b * P[k - 1]]

\* A power of a number is one, and positive when the number is.
LEMMA PowerType ==
  ASSUME NEW b \in Nat, NEW n \in Nat
  PROVE  Power(b, n) \in Nat /\ (b > 0 => Power(b, n) > 0) /\ (n = 0 => Power(b, n) = 1)
<1> DEFINE H == [k \in 1..n |-> [x \in Nat |-> b * x]]
           c == CHOOSE P : ListsPowers(P, b, n)
<1>1. H \in [1..n -> [Nat -> Nat]] /\ 1 \in Nat
  BY Products
<1>2. PICK g : GoesBy(g, n, Nat, 1, H)
  <2> HIDE DEF H
  <2> QED  BY <1>1, Iterates
<1>3. g[0] = 1 /\ \A k \in 1..n : g[k] = b * g[k - 1] /\ g \in [0..n -> Nat]
  <2>1. ASSUME NEW k \in 1..n PROVE H[k][g[k - 1]] = b * g[k - 1]
    BY <1>2 DEF GoesBy
  <2> HIDE DEF H
  <2> QED  BY <1>2, <2>1 DEF GoesBy
<1>4. g = [k \in 0..n |-> IF k = 0 THEN 1 ELSE b * g[k - 1]]
  BY <1>2, <1>3 DEF GoesBy
<1>5. ListsPowers(c, b, n)
  BY <1>4 DEF ListsPowers
<1>6. Power(b, n) = c[n]
  BY Zenon DEF Power, ListsPowers
<1> HIDE DEF c
<1>7. c[0] = 1 /\ \A k \in 1..n : c[k] = b * c[k - 1]
  BY <1>5 DEF ListsPowers
<1> DEFINE T == {k \in 0..n : c[k] \in Nat /\ (b > 0 => c[k] > 0)}
<1>8. 0 \in T
  BY <1>7
<1>9. ASSUME NEW k \in 0..n, k \in T, k < n PROVE k + 1 \in T
  <2>1. k + 1 \in 1..n /\ (k + 1) - 1 = k
    BY <1>9
  <2>2. c[k + 1] = b * c[k] /\ c[k] \in Nat
    BY <1>7, <1>9, <2>1
  <2> QED  BY <1>9, <2>1, <2>2, Products
<1>10. 0..n \subseteq T
  <2> HIDE DEF T
  <2> QED  BY <1>8, <1>9, Climb
<1> QED  BY <1>6, <1>7, <1>10
---------------------------------------------------------------------------
\* What is paid at the edge of a pool bounds every quote: by the constant product, ...
LEMMA ConstantProductBelow ==
  ASSUME NEW x \in Nat \ {0}, NEW rIn \in Nat, NEW rOut \in Nat, NEW fee \in Nat, NEW unit \in Nat \ {0},
         ConstantProduct(x, rIn, rOut, fee, unit) # Err
  PROVE  /\ ConstantProduct(x, rIn, rOut, fee, unit) \in Nat
         /\ unit - fee \in Nat /\ rIn * unit \in Nat \ {0} /\ rOut * (unit - fee) \in Nat
         /\ ConstantProduct(x, rIn, rOut, fee, unit) * (rIn * unit) <= x * (rOut * (unit - fee))
<1>1. rIn > 0 /\ rOut > 0 /\ fee <= unit
  BY DEF ConstantProduct
<1>2. PICK keep \in Nat : unit - fee = keep
  BY <1>1
<1> DEFINE s == rIn * unit
           p == x * keep
           out == (p * rOut) \div (s + p)
<1>3. s \in Nat \ {0} /\ p \in Nat
  BY <1>1, Products
<1>4. ConstantProduct(x, rIn, rOut, fee, unit) = out
  BY <1>1, <1>2 DEF ConstantProduct
<1>5. p * rOut = x * (rOut * keep) /\ rOut * keep \in Nat
  BY <1>2, Products
<1>6. out \in Nat /\ out * s <= p * rOut
  <2> HIDE DEF s, p
  <2> QED  BY <1>1, <1>3, SharePaid
<1> HIDE DEF out
<1> QED  BY <1>2, <1>3, <1>4, <1>5, <1>6

\* ... when the fee is rounded first, ...
LEMMA CpmmBelow ==
  ASSUME NEW x \in Nat \ {0}, NEW rIn \in Nat, NEW rOut \in Nat, CpmmQuote(x, rIn, rOut) # Err
  PROVE  /\ CpmmQuote(x, rIn, rOut) \in Nat
         /\ Bps - CpmmFee \in Nat /\ rIn * Bps \in Nat \ {0} /\ rOut * (Bps - CpmmFee) \in Nat
         /\ CpmmQuote(x, rIn, rOut) * (rIn * Bps) <= x * (rOut * (Bps - CpmmFee))
<1>1. rIn > 0 /\ rOut > 0
  BY DEF CpmmQuote
<1>2. Bps \in Nat \ {0} /\ CpmmFee \in 0..Bps
  BY QuoterAssumption
<1>3. PICK keep \in Nat : Bps - CpmmFee = keep
  BY <1>2
<1> DEFINE b == Bps
           p == (x * keep) \div b
           out == (p * rOut) \div (rIn + p)
<1>4. x * keep \in Nat /\ p \in Nat /\ p * b <= x * keep
  <2>1. x * keep \in Nat
    BY Products
  <2> QED  BY <1>2, <2>1, Quotient
<1>5. CpmmQuote(x, rIn, rOut) = (rOut * p) \div (rIn + p)
  BY <1>1, <1>3 DEF CpmmQuote
<1>6. b \in Nat \ {0}
  BY <1>2
<1> HIDE DEF b, p
<1>7. rOut * p = p * rOut
  BY <1>4, Products
<1>8. out \in Nat /\ out * rIn <= p * rOut
  BY <1>1, <1>4, SharePaid
<1> HIDE DEF out
<1>9. out * rIn \in Nat /\ p * rOut \in Nat /\ p * b \in Nat
  BY <1>4, <1>6, <1>8, Products
<1>10. (out * rIn) * b <= (p * rOut) * b /\ (p * b) * rOut <= (x * keep) * rOut
  BY <1>4, <1>6, <1>8, <1>9, ScaleUp
<1>11. /\ (out * rIn) * b = out * (rIn * b) /\ (p * rOut) * b = (p * b) * rOut
       /\ (x * keep) * rOut = x * (rOut * keep)
  BY <1>4, <1>6, <1>8
<1>12. /\ out * (rIn * b) \in Nat /\ (p * rOut) * b \in Nat /\ x * (rOut * keep) \in Nat
       /\ rIn * b \in Nat \ {0} /\ rOut * keep \in Nat
  BY <1>1, <1>6, <1>8, <1>9, Products
<1>13. out * (rIn * b) <= x * (rOut * keep)
  BY <1>10, <1>11, <1>12
<1> QED  BY <1>3, <1>5, <1>7, <1>8, <1>12, <1>13 DEF out, b

\* ... and at a fixed price.
LEMMA AtPriceBelow ==
  ASSUME NEW x \in Nat \ {0}, NEW price, price.n \in Nat, price.d \in Nat,
         NEW fee \in Nat, NEW unit \in Nat \ {0}, AtPrice(x, price, fee, unit) # Err
  PROVE  /\ AtPrice(x, price, fee, unit) \in Nat
         /\ unit - fee \in Nat /\ price.d * unit \in Nat \ {0} /\ price.n * (unit - fee) \in Nat
         /\ AtPrice(x, price, fee, unit) * (price.d * unit) <= x * (price.n * (unit - fee))
<1>1. price.n > 0 /\ price.d > 0 /\ fee <= unit
  BY DEF AtPrice
<1>2. PICK keep \in Nat : unit - fee = keep
  BY <1>1
<1> DEFINE n == price.n
           d == price.d
<1>3. AtPrice(x, price, fee, unit) = (x * n * keep) \div (d * unit)
  BY <1>1, <1>2 DEF AtPrice
<1>4. n \in Nat \ {0} /\ d \in Nat \ {0}
  BY <1>1
<1> HIDE DEF n, d
<1>5. x * n * keep \in Nat /\ d * unit \in Nat \ {0} /\ n * keep \in Nat
  BY <1>4, Products
<1>6. x * n * keep = x * (n * keep)
  BY <1>4
<1> DEFINE top == x * n * keep
           under == d * unit
<1>7. (top \div under) \in Nat /\ (top \div under) * under <= top
  <2>1. top \in Nat /\ under \in Nat \ {0}
    BY <1>5
  <2> HIDE DEF top, under
  <2> QED  BY <2>1, Quotient
<1> QED  BY <1>2, <1>3, <1>5, <1>6, <1>7 DEF n, d

\* What the parsers make of each kind of account.
LEMMA ParsedFields ==
  ASSUME NEW pool \in ParsedPools
  PROVE  /\ pool.kind \in {"amm_v4", "cpmm", "bonkswap", "whirlpool", "clmm", "dlmm", "lifinity", "obric"}
         /\ pool.kind \in {"amm_v4", "bonkswap", "lifinity"} => pool.fee \in Nat /\ pool.unit \in Nat \ {0}
         /\ pool.kind = "bonkswap" => pool.rx \in Nat /\ pool.ry \in Nat
         /\ pool.kind \in {"whirlpool", "clmm"} =>
              pool.root \in Ratios /\ pool.liq \in Nat /\ pool.fee \in 0..FeeUnit
         /\ pool.kind = "dlmm" =>
              pool.id \in Int /\ pool.step \in Nat /\ pool.factor \in Nat /\ pool.power \in Nat
         /\ pool.kind = "lifinity" => pool.price \in Ratios
         /\ pool.kind = "obric" =>
              /\ pool.target \in Nat /\ pool.conc \in Nat /\ pool.multX \in Nat /\ pool.multY \in Nat
              /\ pool.fee \in Nat
         /\ pool = [f \in DOMAIN pool |-> pool[f]]
BY DEF ParsedPools

\* The two numbers of a price.
LEMMA RatioFields ==
  ASSUME NEW r \in Ratios
  PROVE  r.n \in Nat /\ r.d \in Nat \ {0}
BY DEF Ratios

\* The price of a bin and the fee of its pool are numbers.
LEMMA BinTypes ==
  ASSUME NEW pool \in ParsedPools, pool.kind = "dlmm", NEW forward \in BOOLEAN
  PROVE  /\ Towards(BinPrice(pool.step, pool.id), forward).n \in Nat \ {0}
         /\ Towards(BinPrice(pool.step, pool.id), forward).d \in Nat \ {0}
         /\ DlmmFee(pool) \in Nat
<1>1. pool.id \in Int /\ pool.step \in Nat /\ pool.factor \in Nat /\ pool.power \in Nat
  BY ParsedFields
<1>2. Bps \in Nat \ {0} /\ Bps + pool.step \in Nat \ {0}
  BY <1>1, QuoterAssumption
<1> DEFINE bins == IF pool.id < 0 THEN -pool.id ELSE pool.id
           up == [n |-> Power(Bps + pool.step, bins), d |-> Power(Bps, bins)]
<1>3. bins \in Nat
  BY <1>1
<1> HIDE DEF bins
<1>4. up.n \in Nat \ {0} /\ up.d \in Nat \ {0}
  <2> DEFINE wide == Bps + pool.step
  <2>3. wide \in Nat /\ wide > 0 /\ Bps \in Nat /\ Bps > 0
    BY <1>2
  <2> HIDE DEF wide
  <2>1. Power(wide, bins) \in Nat \ {0}
    <3>1. Power(wide, bins) \in Nat /\ Power(wide, bins) > 0
      BY <1>3, <2>3, PowerType, Zenon
    <3> QED  BY <3>1
  <2>2. Power(Bps, bins) \in Nat \ {0}
    <3>1. Power(Bps, bins) \in Nat /\ Power(Bps, bins) > 0
      BY <1>3, <2>3, PowerType, Zenon
    <3> QED  BY <3>1
  <2> QED  BY <2>1, <2>2 DEF wide
<1>5. BinPrice(pool.step, pool.id) = Towards(up, pool.id >= 0)
  BY DEF BinPrice, bins
<1> HIDE DEF up
<1> DEFINE price == BinPrice(pool.step, pool.id)
<1>6. price.n \in Nat \ {0} /\ price.d \in Nat \ {0}
  <2>1. CASE pool.id >= 0
    BY <1>4, <1>5, <2>1 DEF Towards
  <2>2. CASE ~(pool.id >= 0)
    BY <1>4, <1>5, <2>2 DEF Towards, Flip
  <2> QED  BY <2>1, <2>2
<1> HIDE DEF price
<1>7. /\ Towards(price, forward).n \in Nat \ {0} /\ Towards(price, forward).d \in Nat \ {0}
  <2>1. CASE forward
    BY <1>6, <2>1 DEF Towards
  <2>2. CASE ~forward
    BY <1>6, <2>2 DEF Towards, Flip
  <2> QED  BY <2>1, <2>2
<1>8. DlmmFee(pool) \in Nat
  <2>1. 10 \in Nat /\ Power(10, pool.power) \in Nat
    BY <1>1, PowerType
  <2>2. pool.factor * pool.step \in Nat
    BY <1>1, Products
  <2>3. pool.factor * pool.step * 10 \in Nat
    BY <2>2
  <2> DEFINE base == pool.factor * pool.step * 10
             powers == Power(10, pool.power)
  <2>4. base \in Nat /\ powers \in Nat
    BY <2>1, <2>3
  <2> HIDE DEF base, powers
  <2>5. base * powers \in Nat
    BY <2>4, Products
  <2> QED  BY <2>5 DEF DlmmFee, base, powers
<1> QED  BY <1>7, <1>8 DEF price

\* The price of a tick, and of an oracle, in either direction.
LEMMA PriceTypes ==
  ASSUME NEW r \in Ratios, NEW forward \in BOOLEAN
  PROVE  /\ Towards(r, forward).n \in Nat /\ Towards(r, forward).d \in Nat
         /\ Towards(Square(r), forward).n \in Nat /\ Towards(Square(r), forward).d \in Nat
<1>1. r.n \in Nat /\ r.d \in Nat
  BY RatioFields
<1>2. Square(r).n \in Nat /\ Square(r).d \in Nat
  <2>1. r.n * r.n \in Nat /\ r.d * r.d \in Nat
    BY <1>1, Products
  <2> QED  BY <2>1 DEF Square
<1>3. CASE forward
  BY <1>1, <1>2, <1>3 DEF Towards
<1>4. CASE ~forward
  <2>1. Towards(r, forward).n = r.d /\ Towards(r, forward).d = r.n
    BY <1>4 DEF Towards, Flip
  <2>2. Towards(Square(r), forward).n = Square(r).d /\ Towards(Square(r), forward).d = Square(r).n
    BY <1>4 DEF Towards, Flip
  <2> QED  BY <1>1, <1>2, <2>1, <2>2
<1> QED  BY <1>3, <1>4

\* The amounts and fees a quote looks up.
Looked(amounts, fees) ==
  /\ \A v \in DOMAIN amounts : amounts[v] \in Nat
  /\ \A f \in DOMAIN fees : fees[f] \in Nat

\* What a quote stays below: x units at the edge.
BelowEdge(out, x, edge) ==
  /\ out \in Nat
  /\ edge.n \in Nat /\ edge.d \in Nat \ {0}
  /\ out * edge.d <= x * edge.n

\* A pool with vaults sees its sides in the direction of the swap.
LEMMA SidesOf ==
  ASSUME NEW pool, NEW amounts, NEW forward \in BOOLEAN
  PROVE  /\ forward => /\ Sides(pool, amounts, forward)[1] = amounts[pool.va]
                       /\ Sides(pool, amounts, forward)[2] = amounts[pool.vb]
         /\ ~forward => /\ Sides(pool, amounts, forward)[1] = amounts[pool.vb]
                        /\ Sides(pool, amounts, forward)[2] = amounts[pool.va]
<1> DEFINE both == <<amounts[pool.va], amounts[pool.vb]>>
<1>1. Reverse(both) = <<amounts[pool.vb], amounts[pool.va]>>
  <2>1. Len(both) = 2
    OBVIOUS
  <2>2. Reverse(both) = [i \in 1..2 |-> both[(2 - i) + 1]]
    BY <2>1 DEF Reverse
  <2> QED  BY <2>2
<1>2. forward => Sides(pool, amounts, forward) = both
  BY DEF Sides
<1>3. ~forward => Sides(pool, amounts, forward) = Reverse(both)
  BY DEF Sides
<1> QED  BY <1>1, <1>2, <1>3

\* No kind of pool but Obric's pays more than its edge price.
LEMMA QuoteBelowEdge ==
  ASSUME NEW pool \in ParsedPools, pool.kind # "obric", NEW amounts, NEW fees, Looked(amounts, fees),
         NEW mint, NEW x \in Nat \ {0}, Quote(pool, amounts, fees, mint, x) # Err
  PROVE  BelowEdge(Quote(pool, amounts, fees, mint, x), x, EdgePrice(pool, amounts, fees, mint))
<1> DEFINE forward == mint = pool.a
           out == Quote(pool, amounts, fees, mint, x)
           edge == EdgePrice(pool, amounts, fees, mint)
<1>1. forward \in BOOLEAN /\ mint \in {pool.a, pool.b}
  BY DEF Quote
<1>2. FeeUnit \in Nat \ {0} /\ DlmmUnit \in Nat \ {0}
  BY QuoterAssumption
<1>3. CASE pool.kind = "amm_v4"
  <2> DEFINE r == Sides(pool, amounts, forward)
  <2>1. out = AmmV4Quote(pool, amounts, forward, x)
    BY <1>1, <1>3 DEF Quote
  <2>2. Known(pool, amounts) /\ out = ConstantProduct(x, r[1], r[2], pool.fee, pool.unit)
    BY <2>1 DEF AmmV4Quote
  <2>3. edge = [n |-> r[2] * (pool.unit - pool.fee), d |-> r[1] * pool.unit]
    <3> HIDE DEF forward
    <3>1. edge = [n |-> (IF forward THEN amounts[pool.vb] ELSE amounts[pool.va]) * (pool.unit - pool.fee),
                  d |-> (IF forward THEN amounts[pool.va] ELSE amounts[pool.vb]) * pool.unit]
      BY <1>1, <1>3 DEF EdgePrice, Towards, Flip, forward
    <3> QED  BY <1>1, <3>1, SidesOf
  <2>4. r[1] \in Nat /\ r[2] \in Nat
    <3>1. amounts[pool.va] \in Nat /\ amounts[pool.vb] \in Nat
      BY <2>2 DEF Known, Looked
    <3> HIDE DEF forward
    <3> QED  BY <1>1, <3>1, SidesOf
  <2>5. pool.fee \in Nat /\ pool.unit \in Nat \ {0}
    BY <1>3, ParsedFields
  <2> HIDE DEF r, out, edge
  <2> DEFINE fee == pool.fee
             unit == pool.unit
             rIn == r[1]
             rOut == r[2]
  <2>6. BelowEdge(out, x, edge)
    <3>1. out = ConstantProduct(x, rIn, rOut, fee, unit) /\ out # Err
      BY <2>2 DEF out
    <3>2. rIn \in Nat /\ rOut \in Nat /\ fee \in Nat /\ unit \in Nat \ {0}
      BY <2>4, <2>5
    <3>3. edge = [n |-> rOut * (unit - fee), d |-> rIn * unit]
      BY <2>3
    <3> HIDE DEF fee, unit, rIn, rOut
    <3> QED  BY <3>1, <3>2, <3>3, ConstantProductBelow DEF BelowEdge
  <2> QED  BY <2>6 DEF out, edge
<1>4. CASE pool.kind = "cpmm"
  <2> DEFINE r == Sides(pool, amounts, forward)
  <2>1. out = CpmmPoolQuote(pool, amounts, forward, x)
    BY <1>1, <1>4 DEF Quote
  <2>2. Known(pool, amounts) /\ out = CpmmQuote(x, r[1], r[2])
    BY <2>1 DEF CpmmPoolQuote
  <2>3. edge = [n |-> r[2] * (Bps - CpmmFee), d |-> r[1] * Bps]
    <3> HIDE DEF forward
    <3>1. edge = [n |-> (IF forward THEN amounts[pool.vb] ELSE amounts[pool.va]) * (Bps - CpmmFee),
                  d |-> (IF forward THEN amounts[pool.va] ELSE amounts[pool.vb]) * Bps]
      BY <1>1, <1>4 DEF EdgePrice, Towards, Flip, forward
    <3> QED  BY <1>1, <3>1, SidesOf
  <2>4. r[1] \in Nat /\ r[2] \in Nat
    <3>1. amounts[pool.va] \in Nat /\ amounts[pool.vb] \in Nat
      BY <2>2 DEF Known, Looked
    <3> HIDE DEF forward
    <3> QED  BY <1>1, <3>1, SidesOf
  <2> HIDE DEF r, out, edge
  <2> QED  BY <2>2, <2>3, <2>4, CpmmBelow DEF BelowEdge, out, edge
<1>5. CASE pool.kind = "bonkswap"
  <2> DEFINE r == IF forward THEN <<pool.rx, pool.ry>> ELSE <<pool.ry, pool.rx>>
  <2>1. out = BonkswapQuote(pool, forward, x)
    BY <1>1, <1>5 DEF Quote
  <2>2. out = ConstantProduct(x, r[1], r[2], pool.fee, pool.unit)
    BY <2>1 DEF BonkswapQuote
  <2>3. edge = [n |-> r[2] * (pool.unit - pool.fee), d |-> r[1] * pool.unit]
    BY <1>1, <1>5 DEF EdgePrice, Towards, Flip
  <2>4. r[1] \in Nat /\ r[2] \in Nat /\ pool.fee \in Nat /\ pool.unit \in Nat \ {0}
    BY <1>5, ParsedFields
  <2> HIDE DEF r, out, edge
  <2> DEFINE fee == pool.fee
             unit == pool.unit
             rIn == r[1]
             rOut == r[2]
  <2>6. BelowEdge(out, x, edge)
    <3>1. out = ConstantProduct(x, rIn, rOut, fee, unit) /\ out # Err
      BY <2>2 DEF out
    <3>2. rIn \in Nat /\ rOut \in Nat /\ fee \in Nat /\ unit \in Nat \ {0}
      BY <2>4
    <3>3. edge = [n |-> rOut * (unit - fee), d |-> rIn * unit]
      BY <2>3
    <3> HIDE DEF fee, unit, rIn, rOut
    <3> QED  BY <3>1, <3>2, <3>3, ConstantProductBelow DEF BelowEdge
  <2> QED  BY <2>6 DEF out, edge
<1>6. CASE pool.kind \in {"whirlpool", "clmm", "dlmm", "lifinity"}
  <2> DEFINE price == CASE pool.kind \in {"whirlpool", "clmm"} -> Towards(Square(pool.root), forward)
                        [] pool.kind = "dlmm" -> Towards(BinPrice(pool.step, pool.id), forward)
                        [] pool.kind = "lifinity" -> Towards(pool.price, forward)
             fee == CASE pool.kind \in {"whirlpool", "lifinity"} -> pool.fee
                      [] pool.kind = "clmm" -> fees[pool.name]
                      [] pool.kind = "dlmm" -> DlmmFee(pool)
             unit == CASE pool.kind \in {"whirlpool", "clmm"} -> FeeUnit
                       [] pool.kind = "dlmm" -> DlmmUnit
                       [] pool.kind = "lifinity" -> pool.unit
  <2>1. out = AtPrice(x, price, fee, unit) /\ (pool.kind = "clmm" => pool.name \in DOMAIN fees)
    <3>1. CASE pool.kind = "whirlpool"
      BY <1>1, <3>1 DEF Quote, WhirlpoolQuote
    <3>2. CASE pool.kind = "clmm"
      BY <1>1, <3>2 DEF Quote, ClmmQuote
    <3>3. CASE pool.kind = "lifinity"
      BY <1>1, <3>3 DEF Quote, LifinityQuote
    <3>4. CASE pool.kind = "dlmm"
      BY <1>1, <3>4 DEF Quote, DlmmPoolQuote, DlmmQuote
    <3> QED  BY <1>6, <3>1, <3>2, <3>3, <3>4
  <2>2. edge = [n |-> price.n * (unit - fee), d |-> price.d * unit]
    BY <1>1, <1>6 DEF EdgePrice
  <2>3. price.n \in Nat /\ price.d \in Nat /\ fee \in Nat /\ unit \in Nat \ {0}
    <3> HIDE DEF forward
    <3>1. CASE pool.kind = "whirlpool"
      BY <1>1, <1>2, <3>1, ParsedFields, PriceTypes
    <3>2. CASE pool.kind = "clmm"
      BY <1>1, <1>2, <2>1, <3>2, ParsedFields, PriceTypes DEF Looked
    <3>3. CASE pool.kind = "lifinity"
      BY <1>1, <3>3, ParsedFields, PriceTypes
    <3>4. CASE pool.kind = "dlmm"
      BY <1>1, <1>2, <3>4, BinTypes
    <3> QED  BY <1>6, <3>1, <3>2, <3>3, <3>4
  <2> HIDE DEF price, fee, unit, out, edge
  <2> QED  BY <2>1, <2>2, <2>3, AtPriceBelow DEF BelowEdge, out, edge
<1> QED  BY <1>3, <1>4, <1>5, <1>6, ParsedFields

---------------------------------------------------------------------------
\* Obric's curve: what its quote is made of, wherever it gives one.
PmmNet(pool, x) == (x * (FeeUnit - pool.fee)) \div FeeUnit

\* The four numbers an answer of the curve is made of.
LEMMA PmmFacts ==
  ASSUME NEW pool \in ParsedPools, pool.kind = "obric", NEW reserve \in Nat, NEW x \in Nat \ {0},
         NEW forward \in BOOLEAN, PmmQuote(x, pool, reserve, forward) # Err
  PROVE  LET net   == PmmNet(pool, x)
             k     == PmmProduct(pool)
             base  == PmmBase(pool, reserve)
             other == k \div base
         IN  /\ net \in Nat /\ net <= x /\ k \in Nat /\ base \in Nat \ {0} /\ other \in Nat
             /\ pool.conc > 0 /\ pool.fee < FeeUnit /\ pool.multY > 0
             /\ PmmQuote(x, pool, reserve, forward) =
                  IF forward THEN NonNegative(other - k \div (base + net))
                  ELSE IF other + net = 0 THEN 0 ELSE NonNegative(base - k \div (other + net))
<1> DEFINE net   == PmmNet(pool, x)
           k     == PmmProduct(pool)
           base  == PmmBase(pool, reserve)
           other == k \div base
<1>1. /\ pool.target \in Nat /\ pool.conc \in Nat /\ pool.multX \in Nat /\ pool.multY \in Nat
      /\ pool.fee \in Nat /\ FeeUnit \in Nat \ {0}
  BY ParsedFields, QuoterAssumption
<1>2. pool.conc > 0 /\ pool.fee < FeeUnit /\ pool.multY > 0 /\ base > 0
  <2>1. pool.target * pool.conc \in Nat
    BY <1>1, Products
  <2>2. PmmBase(pool, reserve) \in Int
    BY <1>1, <2>1 DEF PmmBase
  <2>3. ~(pool.conc = 0 \/ pool.fee >= FeeUnit \/ pool.multY = 0)
    BY DEF PmmQuote
  <2>4. pool.conc > 0 /\ pool.fee < FeeUnit /\ pool.multY > 0
    BY <1>1, <2>3
  <2>5. ~(PmmBase(pool, reserve) <= 0)
    BY <2>3, <2>4 DEF PmmQuote
  <2> QED  BY <2>2, <2>4, <2>5
<1>3. PmmQuote(x, pool, reserve, forward) =
        IF forward THEN NonNegative(other - k \div (base + net))
        ELSE IF other + net = 0 THEN 0 ELSE NonNegative(base - k \div (other + net))
  BY <1>1, <1>2 DEF PmmQuote, PmmNet
<1>4. base \in Nat \ {0}
  <2>1. pool.target * pool.conc \in Nat
    BY <1>1, Products
  <2> HIDE DEF base
  <2>2. base \in Int
    BY <1>1, <2>1 DEF PmmBase, base
  <2> QED  BY <1>2, <2>2
<1>5. k \in Nat
  <2> DEFINE v == pool.target * pool.conc
             m == pool.multX
  <2>1. v \in Nat /\ m \in Nat
    BY <1>1, Products
  <2> HIDE DEF v, m
  <2>2. Power(v, 2) \in Nat
    BY <2>1, PowerType
  <2>3. Power(v, 2) * m \in Nat
    BY <2>1, <2>2, Products
  <2> DEFINE top == Power(v, 2) * m
  <2>4. top \in Nat
    BY <2>3
  <2> HIDE DEF top
  <2>5. top \div pool.multY \in Nat
    BY <1>1, <1>2, <2>4, Quotient
  <2> QED  BY <2>5 DEF PmmProduct, v, m, top
<1>6. net \in Nat /\ net <= x
  <2>1. PICK keep \in Nat : FeeUnit - pool.fee = keep /\ keep <= FeeUnit
    BY <1>1, <1>2
  <2>2. x * keep \in Nat /\ x * FeeUnit \in Nat
    BY <1>1, Products
  <2>3. keep * x <= FeeUnit * x /\ keep * x = x * keep /\ FeeUnit * x = x * FeeUnit
    BY <1>1, <2>1, ScaleUp, Products
  <2>4. x * keep <= x * FeeUnit
    BY <2>3
  <2> DEFINE top == x * keep
  <2>5. top \in Nat /\ top <= x * FeeUnit
    BY <2>2, <2>4
  <2> HIDE DEF top
  <2>6. top \div FeeUnit \in Nat /\ top \div FeeUnit <= x
    BY <1>1, <2>5, Quotient, QuotientBelow
  <2> QED  BY <2>1, <2>6 DEF PmmNet, top
<1> HIDE DEF net, k, base
<1>7. other \in Nat
  BY <1>4, <1>5, Quotient
<1> QED  BY <1>2, <1>3, <1>4, <1>5, <1>6, <1>7 DEF net, k, base

\* The curve answers with an amount or not at all.
LEMMA PmmType ==
  ASSUME NEW pool \in ParsedPools, pool.kind = "obric", NEW reserve \in Nat, NEW x \in Nat \ {0},
         NEW forward \in BOOLEAN
  PROVE  PmmQuote(x, pool, reserve, forward) \in Nat \cup {Err}
<1> SUFFICES ASSUME PmmQuote(x, pool, reserve, forward) # Err
             PROVE  PmmQuote(x, pool, reserve, forward) \in Nat
  OBVIOUS
<1> DEFINE net   == PmmNet(pool, x)
           k     == PmmProduct(pool)
           base  == PmmBase(pool, reserve)
           other == k \div base
           out   == PmmQuote(x, pool, reserve, forward)
<1>1. /\ net \in Nat /\ net <= x /\ k \in Nat /\ base \in Nat \ {0} /\ other \in Nat
      /\ out = IF forward THEN NonNegative(other - k \div (base + net))
               ELSE IF other + net = 0 THEN 0 ELSE NonNegative(base - k \div (other + net))
  BY PmmFacts
<1> HIDE DEF net, k, base, other, out
<1>2. base + net \in Nat \ {0}
  BY <1>1
<1>3. k \div (base + net) \in Nat
  BY <1>1, <1>2, Quotient
<1>4. NonNegative(other - k \div (base + net)) \in Nat
  BY <1>1, <1>3, NonNegativeType
<1>5. ASSUME other + net # 0 PROVE NonNegative(base - k \div (other + net)) \in Nat
  <2>1. other + net \in Nat \ {0}
    BY <1>1, <1>5
  <2>2. k \div (other + net) \in Nat
    BY <1>1, <2>1, Quotient
  <2> QED  BY <1>1, <2>2, NonNegativeType
<1>6. out \in Nat
  BY <1>1, <1>4, <1>5
<1> QED  BY <1>6 DEF out

\* Every quote is an amount or an error, and nothing buys nothing.
LEMMA QuoteType ==
  ASSUME NEW pool \in ParsedPools, NEW amounts, NEW fees, Looked(amounts, fees), NEW mint, NEW x \in Nat
  PROVE  /\ Quote(pool, amounts, fees, mint, x) \in Nat \cup {Err}
         /\ x = 0 => Quote(pool, amounts, fees, mint, x) \in {0, Err}
<1> DEFINE forward == mint = pool.a
           out == Quote(pool, amounts, fees, mint, x)
<1>1. CASE mint \notin {pool.a, pool.b}
  BY <1>1 DEF Quote
<1>2. CASE mint \in {pool.a, pool.b} /\ x = 0
  <2>0. forward \in BOOLEAN
    OBVIOUS
  <2>9. out \in {0, Err}
    <3>1. CASE pool.kind = "amm_v4"
      BY <1>2, <3>1 DEF Quote, AmmV4Quote, ConstantProduct
    <3>2. CASE pool.kind = "cpmm"
      BY <1>2, <3>2 DEF Quote, CpmmPoolQuote, CpmmQuote
    <3>3. CASE pool.kind = "bonkswap"
      BY <1>2, <3>3 DEF Quote, BonkswapQuote, ConstantProduct
    <3>4. CASE pool.kind = "whirlpool"
      BY <1>2, <3>4 DEF Quote, WhirlpoolQuote, AtPrice
    <3>5. CASE pool.kind = "clmm"
      BY <1>2, <3>5 DEF Quote, ClmmQuote, AtPrice
    <3>6. CASE pool.kind = "lifinity"
      BY <1>2, <3>6 DEF Quote, LifinityQuote, AtPrice
    <3>7. CASE pool.kind = "dlmm"
      BY <1>2, <3>7 DEF Quote, DlmmPoolQuote, DlmmQuote, AtPrice
    <3>8. CASE pool.kind = "obric"
      BY <1>2, <3>8 DEF Quote, ObricQuote, PmmQuote
    <3> HIDE DEF out
    <3> QED  BY <3>1, <3>2, <3>3, <3>4, <3>5, <3>6, <3>7, <3>8, ParsedFields
  <2> HIDE DEF out
  <2>10. out \in Nat \cup {Err}
    BY <2>9
  <2> QED  BY <2>9, <2>10 DEF out
<1>3. CASE mint \in {pool.a, pool.b} /\ x # 0
  <2>1. CASE out = Err
    BY <1>3, <2>1
  <2>2. CASE out # Err /\ pool.kind # "obric"
    BY <1>3, <2>2, QuoteBelowEdge DEF BelowEdge
  <2>3. CASE out # Err /\ pool.kind = "obric"
    <3>1. Known(pool, amounts) /\ out = PmmQuote(x, pool, amounts[pool.va], forward)
      BY <1>3, <2>3 DEF Quote, ObricQuote
    <3>2. amounts[pool.va] \in Nat
      BY <3>1 DEF Known, Looked
    <3>3. out \in Nat \cup {Err}
      BY <1>3, <2>3, <3>1, <3>2, PmmType
    <3> QED  BY <1>3, <3>3
  <2> QED  BY <2>1, <2>2, <2>3
<1> QED  BY <1>1, <1>2, <1>3

---------------------------------------------------------------------------
\* Along a route. What the scout knows is as the parsers left it.
StoreTyped == (\A p \in DOMAIN store : store[p] \in ParsedPools) /\ Looked(vaults, clmmFees)

\* What a route makes of an input, amount by amount.
ListsAmounts(A, route, input) ==
  A = [i \in 0..Len(route) |-> IF i = 0 THEN input ELSE Through(A[i - 1], route[i])]

\* A hop makes an amount of an amount, and nothing of nothing.
LEMMA ThroughType ==
  ASSUME StoreTyped, NEW amount \in Nat \cup {Err}, NEW hop
  PROVE  /\ Through(amount, hop) \in Nat \cup {Err}
         /\ amount <= 0 => Through(amount, hop) \in {0, Err}
<1>1. CASE amount = Err \/ hop.pool \notin DOMAIN store
  BY <1>1 DEF Through
<1>2. CASE ~(amount = Err \/ hop.pool \notin DOMAIN store)
  <2> DEFINE out == Quote(store[hop.pool], vaults, clmmFees, hop.in, amount)
  <2>1. Through(amount, hop) = out
    BY <1>2 DEF Through
  <2>2. amount \in Nat /\ store[hop.pool] \in ParsedPools
    BY <1>2 DEF StoreTyped
  <2>3. out \in Nat \cup {Err} /\ (amount = 0 => out \in {0, Err})
    BY <2>2, QuoteType DEF StoreTyped
  <2>4. amount <= 0 => amount = 0
    BY <2>2
  <2> HIDE DEF out
  <2> QED  BY <2>1, <2>3, <2>4
<1> QED  BY <1>1, <1>2

\* A lists the amounts along the route, hop by hop.
IsPath(A, route, input) ==
  /\ A[0] = input /\ A[Len(route)] = OutputOf(route, input)
  /\ \A k \in 0..Len(route) : A[k] \in Nat \cup {Err}
  /\ \A k \in 1..Len(route) : A[k] = Through(A[k - 1], route[k])

\* Every route has its list of amounts.
LEMMA OutputPath ==
  ASSUME StoreTyped, NEW route, Len(route) \in Nat, NEW input \in Nat
  PROVE  \E A : IsPath(A, route, input)
<1> DEFINE N == Len(route)
           V == Nat \cup {Err}
           H == [k \in 1..N |-> [x \in V |-> Through(x, route[k])]]
           c == CHOOSE A : ListsAmounts(A, route, input)
<1>1. H \in [1..N -> [V -> V]] /\ input \in V
  BY ThroughType
<1>2. PICK g : GoesBy(g, N, V, input, H)
  <2>1. N \in Nat
    OBVIOUS
  <2> HIDE DEF H, N, V
  <2> QED  BY <1>1, <2>1, Iterates
<1>3. g[0] = input /\ (\A k \in 1..N : g[k] = Through(g[k - 1], route[k])) /\ g \in [0..N -> V]
  <2>1. ASSUME NEW k \in 1..N PROVE H[k][g[k - 1]] = Through(g[k - 1], route[k])
    <3>1. k - 1 \in 0..N /\ g[k - 1] \in V
      BY <1>2 DEF GoesBy
    <3> QED  BY <3>1
  <2> HIDE DEF H
  <2> QED  BY <1>2, <2>1 DEF GoesBy
<1>4. g = [i \in 0..N |-> IF i = 0 THEN input ELSE Through(g[i - 1], route[i])]
  <2> HIDE DEF V
  <2> QED  BY <1>3
<1>5. ListsAmounts(c, route, input)
  BY <1>4 DEF ListsAmounts
<1>6. OutputOf(route, input) = c[N]
  BY Zenon DEF OutputOf, ListsAmounts
<1> HIDE DEF c
<1>7. c[0] = input /\ \A k \in 1..N : c[k] = Through(c[k - 1], route[k])
  BY <1>5 DEF ListsAmounts
<1> DEFINE T == {k \in 0..N : c[k] \in V}
<1>8. 0 \in T
  BY <1>7
<1>9. ASSUME NEW k \in 0..N, k \in T, k < N PROVE k + 1 \in T
  <2>1. k + 1 \in 1..N /\ (k + 1) - 1 = k /\ k + 1 \in 0..N
    BY <1>9
  <2>2. c[k + 1] = Through(c[k], route[k + 1]) /\ c[k] \in V
    BY <1>7, <1>9, <2>1
  <2> QED  BY <2>1, <2>2, ThroughType
<1>10. 0..N \subseteq T
  <2> HIDE DEF T
  <2> QED  BY <1>8, <1>9, Climb
<1> QED  BY <1>6, <1>7, <1>10 DEF IsPath

\* A route that has lost everything, or met an error, does not recover.
LEMMA NothingFromNothing ==
  ASSUME StoreTyped, NEW route, Len(route) \in Nat, NEW input, NEW A, IsPath(A, route, input),
         OutputOf(route, input) > 0
  PROVE  \A k \in 0..Len(route) : A[k] \in Nat \ {0}
<1> DEFINE N == Len(route)
<1> SUFFICES ASSUME NEW j \in 0..N, A[j] \notin Nat \ {0} PROVE FALSE
  OBVIOUS
<1> DEFINE T == {k \in 0..N : k >= j => A[k] \in {0, Err}}
<1>1. A[j] \in {0, Err}
  BY DEF IsPath
<1>2. 0 \in T
  BY <1>1
<1>3. ASSUME NEW k \in 0..N, k \in T, k < N PROVE k + 1 \in T
  <2>1. k + 1 \in 0..N /\ k + 1 \in 1..N /\ (k + 1) - 1 = k
    BY <1>3
  <2>2. CASE k + 1 = j
    BY <1>1, <2>1, <2>2
  <2>3. CASE k + 1 < j
    BY <2>1, <2>3
  <2>4. CASE k >= j
    <3>1. A[k] \in {0, Err} /\ A[k + 1] = Through(A[k], route[k + 1])
      BY <1>3, <2>1, <2>4 DEF IsPath
    <3>2. A[k] \in Nat \cup {Err} /\ A[k] <= 0
      BY <3>1 DEF Err
    <3> QED  BY <2>1, <3>1, <3>2, ThroughType
  <2> QED  BY <2>1, <2>2, <2>3, <2>4
<1>4. N \in T
  <2>1. 0..N \subseteq T
    <3> HIDE DEF T
    <3> QED  BY <1>2, <1>3, Climb
  <2> QED  BY <2>1
<1>5. A[N] \in {0, Err} /\ A[N] > 0
  BY <1>4 DEF IsPath
<1> QED  BY <1>5 DEF Err

\* The edge price of a hop, as a record keeps it, and their products.
EdgeAt(rec, i) == EdgePrice(rec.seen[i].pool, rec.seen[i].vaults, rec.seen[i].fees, rec.route[i].in)
ListsProducts(P, rec) ==
  P = [i \in 0..Len(rec.route) |->
         IF i = 0 THEN [n |-> 1, d |-> 1]
         ELSE [n |-> P[i - 1].n * EdgeAt(rec, i).n, d |-> P[i - 1].d * EdgeAt(rec, i).d]]

\* The gain of a record is the product of its edge prices.
LEMMA ProductPath ==
  ASSUME NEW rec, Len(rec.route) \in Nat,
         \A i \in 1..Len(rec.route) : EdgeAt(rec, i).n \in Nat /\ EdgeAt(rec, i).d \in Nat
  PROVE  \E P : /\ ListsProducts(P, rec)
                /\ P[Len(rec.route)].n > P[Len(rec.route)].d => Gains(rec)
<1> DEFINE N == Len(rec.route)
           V == [n : Nat, d : Nat]
           H == [k \in 1..N |-> [x \in V |-> [n |-> x.n * EdgeAt(rec, k).n, d |-> x.d * EdgeAt(rec, k).d]]]
           one == [n |-> 1, d |-> 1]
           c == CHOOSE P : ListsProducts(P, rec)
<1>1. H \in [1..N -> [V -> V]] /\ one \in V
  <2>1. ASSUME NEW k \in 1..N, NEW x \in V
        PROVE  [n |-> x.n * EdgeAt(rec, k).n, d |-> x.d * EdgeAt(rec, k).d] \in V
    <3>1. /\ x.n \in Nat /\ x.d \in Nat /\ EdgeAt(rec, k).n \in Nat /\ EdgeAt(rec, k).d \in Nat
      OBVIOUS
    <3>2. x.n * EdgeAt(rec, k).n \in Nat /\ x.d * EdgeAt(rec, k).d \in Nat
      BY <3>1, Products
    <3> QED  BY <3>2
  <2>2. one \in V
    OBVIOUS
  <2> HIDE DEF V, one
  <2> QED  BY <2>1, <2>2
<1>2. PICK g : GoesBy(g, N, V, one, H)
  <2>1. N \in Nat
    OBVIOUS
  <2> HIDE DEF H, N, V, one
  <2> QED  BY <1>1, <2>1, Iterates
<1>3. /\ g[0] = one /\ g \in [0..N -> V]
      /\ \A k \in 1..N : g[k] = [n |-> g[k - 1].n * EdgeAt(rec, k).n, d |-> g[k - 1].d * EdgeAt(rec, k).d]
  <2>1. ASSUME NEW k \in 1..N
        PROVE  H[k][g[k - 1]] = [n |-> g[k - 1].n * EdgeAt(rec, k).n, d |-> g[k - 1].d * EdgeAt(rec, k).d]
    <3>1. k - 1 \in 0..N /\ g[k - 1] \in V
      BY <1>2 DEF GoesBy
    <3> QED  BY <3>1
  <2> HIDE DEF H, V, one
  <2> QED  BY <1>2, <2>1 DEF GoesBy
<1>4. ListsProducts(g, rec)
  <2> DEFINE after(i) == [n |-> g[i - 1].n * EdgeAt(rec, i).n, d |-> g[i - 1].d * EdgeAt(rec, i).d]
  <2>1. g[0] = one /\ (\A k \in 1..N : g[k] = after(k)) /\ g = [i \in 0..N |-> g[i]] /\ N \in Nat
    BY <1>3
  <2>2. g = [i \in 0..N |-> IF i = 0 THEN one ELSE after(i)]
    <3> HIDE DEF after, one, N
    <3>1. \A i \in 0..N : g[i] = IF i = 0 THEN one ELSE after(i)
      BY <2>1
    <3>2. [i \in 0..N |-> g[i]] = [i \in 0..N |-> IF i = 0 THEN one ELSE after(i)]
      BY <3>1
    <3> QED  BY <2>1, <3>2
  <2> QED  BY <2>2 DEF ListsProducts
<1>5. ListsProducts(c, rec)
  BY <1>4
<1>6. Gains(rec) <=> c[N].n > c[N].d
  BY Zenon DEF Gains, ListsProducts, EdgeAt
<1> HIDE DEF c
<1> QED  BY <1>5, <1>6

\* One hop: the amount stays below the product so far.
LEMMA HopBelow ==
  ASSUME NEW input \in Nat, NEW before \in Nat, NEW after \in Nat,
         NEW n \in Nat, NEW d \in Nat \ {0}, NEW en \in Nat, NEW ed \in Nat \ {0},
         before * d <= input * n, after * ed <= before * en
  PROVE  /\ n * en \in Nat /\ d * ed \in Nat \ {0}
         /\ after * (d * ed) <= input * (n * en)
<1>1. /\ before * d \in Nat /\ input * n \in Nat /\ after * ed \in Nat /\ before * en \in Nat
      /\ n * en \in Nat /\ d * ed \in Nat \ {0}
  BY Products
<1>2. (after * ed) * d <= (before * en) * d /\ (before * d) * en <= (input * n) * en
  BY <1>1, ScaleUp
<1>3. (after * ed) * d = after * (d * ed) /\ (before * en) * d = (before * d) * en
      /\ (input * n) * en = input * (n * en)
  OBVIOUS
<1>4. after * (d * ed) \in Nat /\ (before * d) * en \in Nat /\ input * (n * en) \in Nat
  BY <1>1, Products
<1>5. after * (d * ed) <= (before * d) * en
  BY <1>2, <1>3
<1>6. (before * d) * en <= input * (n * en)
  BY <1>2, <1>3
<1> DEFINE u == after * (d * ed)
           v == (before * d) * en
           w == input * (n * en)
<1>7. u \in Nat /\ v \in Nat /\ w \in Nat /\ u <= v /\ v <= w
  BY <1>4, <1>5, <1>6
<1>8. u <= w
  <2> HIDE DEF u, v, w
  <2> QED  BY <1>7
<1> QED  BY <1>1, <1>8

\* What a record keeps of what it was computed from.
SeenNow(rec) ==
  \A i \in 1..Len(rec.route) :
    rec.seen[i] = [pool |-> store[rec.route[i].pool], vaults |-> vaults, fees |-> clmmFees]

\* A cycle that pays out more than it takes gains at the edge of its pools.
LEMMA PayingGains ==
  ASSUME StoreTyped, NEW rec, Len(rec.route) \in Nat, SeenNow(rec),
         \A i \in 1..Len(rec.route) : rec.seen[i].pool.kind # "obric",
         NEW input \in Nat, OutputOf(rec.route, input) > input
  PROVE  Gains(rec)
<1> DEFINE N == Len(rec.route)
<1>1. PICK A : IsPath(A, rec.route, input)
  BY OutputPath
<1>2. A[N] > input /\ A[N] \in Nat \cup {Err}
  BY <1>1 DEF IsPath
<1>3. \A k \in 0..N : A[k] \in Nat \ {0}
  <2>1. OutputOf(rec.route, input) > 0
    BY <1>1, <1>2 DEF IsPath, Err
  <2> QED  BY <1>1, <2>1, NothingFromNothing
<1>4. ASSUME NEW i \in 1..N
      PROVE  BelowEdge(A[i], A[i - 1], EdgeAt(rec, i)) /\ A[i - 1] \in Nat \ {0} /\ A[i] \in Nat
  <2> DEFINE hop == rec.route[i]
             pool == store[hop.pool]
  <2>1. i - 1 \in 0..N /\ i \in 0..N
    OBVIOUS
  <2>2. A[i - 1] \in Nat \ {0} /\ A[i] \in Nat \ {0} /\ A[i] = Through(A[i - 1], hop)
    BY <1>1, <1>3, <2>1 DEF IsPath
  <2>3. A[i - 1] # Err /\ A[i] # Err
    BY <2>2 DEF Err
  <2>4. hop.pool \in DOMAIN store /\ A[i] = Quote(pool, vaults, clmmFees, hop.in, A[i - 1])
    BY <2>2, <2>3 DEF Through
  <2>10. rec.seen[i] = [pool |-> pool, vaults |-> vaults, fees |-> clmmFees] /\ rec.seen[i].pool.kind # "obric"
    BY DEF SeenNow
  <2>5. pool \in ParsedPools /\ pool.kind # "obric"
    <3>1. rec.seen[i].pool = pool
      BY <2>10
    <3> QED  BY <2>4, <2>10, <3>1 DEF StoreTyped
  <2>6. EdgeAt(rec, i) = EdgePrice(pool, vaults, clmmFees, hop.in)
    <3>1. rec.seen[i].pool = pool /\ rec.seen[i].vaults = vaults /\ rec.seen[i].fees = clmmFees
      BY <2>10
    <3> HIDE DEF pool
    <3> QED  BY <3>1 DEF EdgeAt
  <2> HIDE DEF hop, pool
  <2>7. BelowEdge(A[i], A[i - 1], EdgeAt(rec, i))
    BY <2>2, <2>3, <2>4, <2>5, <2>6, QuoteBelowEdge DEF StoreTyped
  <2> QED  BY <2>2, <2>7
<1>5. PICK P : /\ ListsProducts(P, rec)
               /\ P[N].n > P[N].d => Gains(rec)
  <2>1. \A i \in 1..N : EdgeAt(rec, i).n \in Nat /\ EdgeAt(rec, i).d \in Nat
    BY <1>4 DEF BelowEdge
  <2> QED  BY <2>1, ProductPath
<1> DEFINE T == {k \in 0..N : P[k].n \in Nat /\ P[k].d \in Nat \ {0} /\ A[k] * P[k].d <= input * P[k].n}
<1>6. 0 \in T
  <2>1. P[0] = [n |-> 1, d |-> 1] /\ A[0] = input
    BY <1>1, <1>5 DEF ListsProducts, IsPath
  <2> QED  BY <2>1
<1>7. ASSUME NEW k \in 0..N, k \in T, k < N PROVE k + 1 \in T
  <2>1. k + 1 \in 1..N /\ (k + 1) - 1 = k /\ k + 1 \in 0..N
    BY <1>7
  <2> DEFINE e == EdgeAt(rec, k + 1)
             n == P[k].n
             d == P[k].d
  <2>2. /\ A[k] \in Nat /\ A[k + 1] \in Nat /\ e.n \in Nat /\ e.d \in Nat \ {0}
        /\ A[k + 1] * e.d <= A[k] * e.n
    BY <1>4, <2>1 DEF BelowEdge
  <2>3. P[k + 1].n = n * e.n /\ P[k + 1].d = d * e.d
    BY <1>5, <2>1 DEF ListsProducts
  <2>4. n \in Nat /\ d \in Nat \ {0} /\ A[k] * d <= input * n
    BY <1>7
  <2> HIDE DEF e, n, d
  <2>5. n * e.n \in Nat /\ d * e.d \in Nat \ {0} /\ A[k + 1] * (d * e.d) <= input * (n * e.n)
    BY <2>2, <2>4, HopBelow
  <2> QED  BY <2>1, <2>3, <2>5
<1>8. N \in T
  <2>1. 0..N \subseteq T
    <3> HIDE DEF T
    <3> QED  BY <1>6, <1>7, Climb
  <2> QED  BY <2>1
<1> DEFINE n == P[N].n
           d == P[N].d
           out == A[N]
<1>9. n \in Nat /\ d \in Nat \ {0} /\ out * d <= input * n /\ out \in Nat /\ out > input
  BY <1>2, <1>3, <1>8
<1>10. n > d
  <2> HIDE DEF n, d, out
  <2> SUFFICES ASSUME n <= d PROVE FALSE
    BY <1>9
  <2>1. n * input <= d * input /\ (input + 1) * d <= out * d
    BY <1>9, ScaleUp
  <2>2. n * input = input * n /\ d * input = input * d /\ (input + 1) * d = input * d + d
    BY <1>9
  <2>3. n * input \in Nat /\ input * d \in Nat /\ out * d \in Nat
    BY <1>9, Products
  <2> QED  BY <1>9, <2>1, <2>2, <2>3
<1> QED  BY <1>5, <1>10
---------------------------------------------------------------------------
\* The fees of a trade are an amount, and a trade that nets something pays out more than it takes.
LEMMA FeesType ==
  ASSUME EvaluationAssumption, solPrice \in Nat, NEW input \in Nat, NEW gross \in Nat
  PROVE  Fees(input, gross) \in Nat
<1>1. /\ FlashBps \in Nat /\ PriorityFee \in Nat /\ BaseTip \in Nat /\ TipPct \in Nat
      /\ LamportsPerSol \in Nat \ {0} /\ Bps \in Nat \ {0}
  BY QuoterAssumption DEF EvaluationAssumption
<1> DEFINE flash == (input * FlashBps) \div Bps
           share == gross * TipPct * LamportsPerSol
           tip   == IF solPrice = 0 THEN 0 ELSE share \div (100 * solPrice)
           paid  == PriorityFee + BaseTip + tip
           inUsdc == (paid * solPrice) \div LamportsPerSol
<1>2. flash \in Nat
  <2>1. input * FlashBps \in Nat
    BY <1>1, Products
  <2> QED  BY <1>1, <2>1, Quotient
<1>3. tip \in Nat
  <2>1. CASE solPrice = 0
    BY <2>1
  <2>2. CASE solPrice # 0
    <3>1. gross * TipPct \in Nat
      BY <1>1, Products
    <3>2. share \in Nat
      BY <1>1, <3>1, Products
    <3>3. 100 * solPrice \in Nat \ {0}
      BY <2>2
    <3> HIDE DEF share
    <3>4. share \div (100 * solPrice) \in Nat
      BY <3>2, <3>3, Quotient
    <3> QED  BY <2>2, <3>4
  <2> QED  BY <2>1, <2>2
<1>4. Fees(input, gross) = flash + inUsdc
  BY DEF Fees
<1> HIDE DEF flash, tip
<1>5. paid \in Nat
  BY <1>1, <1>3
<1> HIDE DEF paid
<1>6. inUsdc \in Nat
  <2>1. paid * solPrice \in Nat
    BY <1>5, Products
  <2> QED  BY <1>1, <2>1, Quotient
<1> HIDE DEF inUsdc
<1> QED  BY <1>2, <1>4, <1>6

\* A profit is an amount, and only a route that pays out more than it takes has one.
LEMMA NetIsPaid ==
  ASSUME EvaluationAssumption, StoreTyped, solPrice \in Nat, NEW route, Len(route) \in Nat, NEW input \in Nat
  PROVE  /\ Evaluate(route, input).net \in Nat
         /\ Evaluate(route, input).net > 0 => OutputOf(route, input) > input
<1> DEFINE out == OutputOf(route, input)
           fees == Fees(input, out - input)
           e == Evaluate(route, input)
<1>1. out \in Nat \cup {Err}
  <2>1. PICK A : IsPath(A, route, input)
    BY OutputPath
  <2> QED  BY <2>1 DEF IsPath
<1>2. /\ out = Err => e.net = 0
      /\ out # Err /\ out - input <= 0 => e.net = 0
      /\ out # Err /\ ~(out - input <= 0) => e.net = NonNegative((out - input) - fees)
  BY DEF Evaluate
<1>3. ASSUME out # Err, ~(out - input <= 0)
      PROVE  e.net \in Nat /\ out > input
  <2>1. out \in Nat /\ out - input \in Nat
    BY <1>1, <1>3
  <2>2. fees \in Nat
    BY <2>1, FeesType
  <2>3. (out - input) - fees \in Int
    <3> HIDE DEF out, fees
    <3> QED  BY <2>1, <2>2
  <2>4. e.net \in Nat
    <3> HIDE DEF out, fees, e
    <3> QED  BY <1>2, <1>3, <2>3, NonNegativeType
  <2>5. out > input
    <3> HIDE DEF out, fees, e
    <3> QED  BY <1>3, <2>1
  <2> QED  BY <2>4, <2>5
<1> HIDE DEF out, e
<1>4. e.net \in Nat /\ (e.net > 0 => out > input)
  <2>1. CASE out = Err
    BY <1>2, <2>1
  <2>2. CASE out # Err /\ out - input <= 0
    BY <1>2, <2>2
  <2>3. CASE out # Err /\ ~(out - input <= 0)
    BY <1>3, <2>3
  <2> QED  BY <2>1, <2>2, <2>3
<1> QED  BY <1>4 DEF out, e

\* One step of the size search, and the ranges it passes through.
Narrowed(route, r) ==
  LET third == (r.hi - r.lo) \div 3
  IN  IF r.hi - r.lo < Converged THEN r
      ELSE IF Evaluate(route, r.lo + third).net < Evaluate(route, r.hi - third).net
           THEN [r EXCEPT !.lo = r.lo + third]
           ELSE [r EXCEPT !.hi = r.hi - third]
ListsRanges(S, route) ==
  S = [n \in 0..32 |-> IF n = 0 THEN [lo |-> SizeMin, hi |-> SizeMax] ELSE Narrowed(route, S[n - 1])]
SizeRanges == {r \in [lo : Nat, hi : Nat] : SizeMin <= r.lo /\ r.lo <= r.hi /\ r.hi <= SizeMax}

\* The search stays in its range.
LEMMA NarrowedType ==
  ASSUME EvaluationAssumption, NEW route, NEW r \in SizeRanges
  PROVE  Narrowed(route, r) \in SizeRanges
<1> DEFINE third == (r.hi - r.lo) \div 3
<1>1. /\ r.lo \in Nat /\ r.hi \in Nat /\ SizeMin <= r.lo /\ r.lo <= r.hi /\ r.hi <= SizeMax
      /\ SizeMin \in Nat /\ SizeMax \in Nat
      /\ r = [lo |-> r.lo, hi |-> r.hi]
  BY DEF SizeRanges, EvaluationAssumption
<1>2. third \in Nat /\ third <= r.hi - r.lo
  BY <1>1
<1> HIDE DEF third
<1>3. r.lo + third \in Nat /\ r.lo + third <= r.hi /\ r.hi - third \in Nat /\ r.lo <= r.hi - third
  BY <1>1, <1>2
<1>4. /\ [r EXCEPT !.lo = r.lo + third] = [lo |-> r.lo + third, hi |-> r.hi]
      /\ [r EXCEPT !.hi = r.hi - third] = [lo |-> r.lo, hi |-> r.hi - third]
  BY <1>1
<1>5. [lo |-> r.lo + third, hi |-> r.hi] \in SizeRanges /\ [lo |-> r.lo, hi |-> r.hi - third] \in SizeRanges
  BY <1>1, <1>2, <1>3 DEF SizeRanges
<1>6. Narrowed(route, r) \in {r, [r EXCEPT !.lo = r.lo + third], [r EXCEPT !.hi = r.hi - third]}
  BY DEF Narrowed, third
<1> QED  BY <1>4, <1>5, <1>6

\* The search ends with a size it was allowed.
LEMMA SizeAllowed ==
  ASSUME EvaluationAssumption, NEW route, SizeMin < SizeMax
  PROVE  OptimalSize(route) \in SizeMin..SizeMax
<1> DEFINE V == SizeRanges
           first == [lo |-> SizeMin, hi |-> SizeMax]
           H == [k \in 1..32 |-> [x \in V |-> Narrowed(route, x)]]
           c == CHOOSE S : ListsRanges(S, route)
<1>1. H \in [1..32 -> [V -> V]] /\ first \in V
  <2>1. first \in V
    BY DEF SizeRanges, EvaluationAssumption
  <2>2. \A x \in V : Narrowed(route, x) \in V
    BY NarrowedType
  <2> HIDE DEF V, first
  <2> QED  BY <2>1, <2>2
<1>2. PICK g : GoesBy(g, 32, V, first, H)
  <2> HIDE DEF H, V, first
  <2> QED  BY <1>1, Iterates
<1>3. g[0] = first /\ (\A k \in 1..32 : g[k] = Narrowed(route, g[k - 1])) /\ g \in [0..32 -> V]
  <2>1. ASSUME NEW k \in 1..32 PROVE H[k][g[k - 1]] = Narrowed(route, g[k - 1])
    <3>1. k - 1 \in 0..32 /\ g[k - 1] \in V
      BY <1>2 DEF GoesBy
    <3> HIDE DEF V
    <3> QED  BY <3>1
  <2> HIDE DEF H, first, V
  <2> QED  BY <1>2, <2>1 DEF GoesBy
<1>4. ListsRanges(g, route)
  <2> HIDE DEF V, first
  <2>1. g = [n \in 0..32 |-> IF n = 0 THEN first ELSE Narrowed(route, g[n - 1])]
    BY <1>3
  <2> QED  BY <2>1 DEF ListsRanges, first
<1>5. ListsRanges(c, route)
  BY <1>4
<1>6. OptimalSize(route) = (c[32].lo + c[32].hi) \div 2
  BY Zenon DEF OptimalSize, ListsRanges, Narrowed
<1> HIDE DEF c
<1>7. c[0] = first /\ \A k \in 1..32 : c[k] = Narrowed(route, c[k - 1])
  <2> HIDE DEF first
  <2>1. c = [n \in 0..32 |-> IF n = 0 THEN first ELSE Narrowed(route, c[n - 1])]
    BY <1>5 DEF ListsRanges, first
  <2> QED  BY <2>1
<1> DEFINE T == {k \in 0..32 : c[k] \in V}
<1>8. 0 \in T
  BY <1>1, <1>7
<1>9. ASSUME NEW k \in 0..32, k \in T, k < 32 PROVE k + 1 \in T
  <2>1. k + 1 \in 1..32 /\ (k + 1) - 1 = k /\ k + 1 \in 0..32
    BY <1>9
  <2>2. c[k + 1] = Narrowed(route, c[k]) /\ c[k] \in V
    BY <1>7, <1>9, <2>1
  <2> QED  BY <2>1, <2>2, NarrowedType
<1>10. c[32] \in V
  <2>1. 0..32 \subseteq T
    <3> HIDE DEF T
    <3> QED  BY <1>8, <1>9, Climb
  <2> QED  BY <2>1
<1> DEFINE lo == c[32].lo
           hi == c[32].hi
<1>11. lo \in Nat /\ hi \in Nat /\ SizeMin <= lo /\ lo <= hi /\ hi <= SizeMax /\ SizeMin \in Nat /\ SizeMax \in Nat
  BY <1>10 DEF SizeRanges, EvaluationAssumption
<1> HIDE DEF lo, hi
<1>12. (lo + hi) \div 2 \in SizeMin..SizeMax
  BY <1>11
<1> QED  BY <1>6, <1>12 DEF lo, hi

\* What the search finds nets what its route pays at that size.
LEMMA FoundPays ==
  ASSUME EvaluationAssumption, StoreTyped, solPrice \in Nat, NEW route, Len(route) \in Nat,
         FindOptimal(route).net > 0
  PROVE  /\ FindOptimal(route).size \in SizeMin..SizeMax /\ FindOptimal(route).net \in Nat
         /\ OutputOf(route, FindOptimal(route).size) > FindOptimal(route).size
<1>1. SizeMin \in Nat /\ SizeMax \in Nat
  BY DEF EvaluationAssumption
<1> DEFINE x == OptimalSize(route)
<1>2. ~(SizeMax <= SizeMin)
  BY DEF FindOptimal
<1>3. FindOptimal(route).size = x /\ FindOptimal(route).net = Evaluate(route, x).net
  BY <1>2 DEF FindOptimal
<1>4. x \in SizeMin..SizeMax /\ x \in Nat
  <2>1. SizeMin < SizeMax
    BY <1>1, <1>2
  <2>2. x \in SizeMin..SizeMax
    BY <2>1, SizeAllowed
  <2> HIDE DEF x
  <2> QED  BY <1>1, <2>2
<1> HIDE DEF x
<1> QED  BY <1>3, <1>4, NetIsPaid
---------------------------------------------------------------------------
\* The walks, hop by hop.
Extended(pools, walks) ==
  UNION {{Append(w, h) : h \in {g \in Hops(pools) : g.in = TokenAfter(w) /\ g.pool \notin Visits(w)}} :
          w \in {v \in walks : ~Closed(v)}}
ListsWalks(W, pools) ==
  W = [n \in 0..MaxHops |-> IF n = 0 THEN {<<>>} ELSE Extended(pools, W[n - 1])]

\* The walks of n hops, written down.
Linked(w, n) ==
  /\ n >= 1 => w[1].in = USDC
  /\ \A i \in 2..n : w[i].in = w[i - 1].out /\ w[i].in # USDC
  /\ \A i, j \in 1..n : w[i].pool = w[j].pool => i = j
Chains(pools, n) == {w \in [1..n -> Hops(pools)] : Linked(w, n)}

\* A function on 1..n is a sequence of n members.
LEMMA SeqOfLength ==
  ASSUME NEW S, NEW n \in Nat, NEW w \in [1..n -> S]
  PROVE  w \in Seq(S) /\ Len(w) = n /\ DOMAIN w = 1..n /\ (w = <<>> <=> n = 0)
<1>1. w \in Seq(S) /\ Len(w) = n
  OBVIOUS
<1>2. w = <<>> <=> n = 0
  BY <1>1, EmptySeq
<1> QED  BY <1>1, <1>2

IsLonger(v, w, h, n, S) ==
  /\ v \in [1..n + 1 -> S]
  /\ \A i \in 1..n : v[i] = w[i]
  /\ v[n + 1] = h

\* Appending adds the last member and keeps the others.
LEMMA OneLonger ==
  ASSUME NEW S, NEW n \in Nat, NEW w \in [1..n -> S], NEW h \in S
  PROVE  IsLonger(Append(w, h), w, h, n, S)
<1>1. w \in Seq(S) /\ Len(w) = n
  BY SeqOfLength
<1>2. /\ Append(w, h) \in Seq(S) /\ Len(Append(w, h)) = n + 1
      /\ \A i \in 1..n : Append(w, h)[i] = w[i]
      /\ Append(w, h)[n + 1] = h
  BY <1>1, AppendProperties
<1>3. Append(w, h) \in [1..n + 1 -> S]
  BY <1>2, LenProperties
<1> QED  BY <1>2, <1>3 DEF IsLonger

\* One hop more makes a walk of a walk, and there is no other.
LEMMA WalkGrows ==
  ASSUME NEW pools, NEW n \in Nat
  PROVE  Extended(pools, Chains(pools, n)) = Chains(pools, n + 1)
<1> DEFINE S == Hops(pools)
<1>1. ASSUME NEW w \in Chains(pools, n), ~Closed(w), NEW h \in S, h.in = TokenAfter(w), h.pool \notin Visits(w)
      PROVE  Append(w, h) \in Chains(pools, n + 1)
  <2> DEFINE v == Append(w, h)
  <2>1. w \in [1..n -> S] /\ Linked(w, n)
    BY <1>1 DEF Chains
  <2>2. w \in Seq(S) /\ Len(w) = n /\ DOMAIN w = 1..n /\ (w = <<>> <=> n = 0)
    BY <2>1, SeqOfLength
  <2>3. /\ v \in [1..n + 1 -> S]
        /\ \A i \in 1..n : v[i] = w[i]
        /\ v[n + 1] = h
    <3>1. IsLonger(v, w, h, n, S)
      BY <2>1, OneLonger
    <3> QED  BY <3>1 DEF IsLonger
  <2>4. n = 0 => h.in = USDC
    BY <1>1, <2>2 DEF TokenAfter
  <2>5. n > 0 => h.in = w[n].out /\ h.in # USDC
    BY <1>1, <2>2 DEF TokenAfter, Closed, Last
  <2>6. \A i \in 1..n : w[i].pool # h.pool
    BY <1>1, <2>2 DEF Visits
  <2> HIDE DEF v
  <2>7. v[1].in = USDC
    <3>1. CASE n = 0
      BY <2>3, <2>4, <3>1
    <3>2. CASE n > 0
      BY <2>1, <2>3, <3>2 DEF Linked
    <3> QED  BY <3>1, <3>2
  <2>8. ASSUME NEW i \in 2..n + 1 PROVE v[i].in = v[i - 1].out /\ v[i].in # USDC
    <3>1. CASE i = n + 1
      <4>1. i - 1 = n /\ n \in 1..n /\ n > 0
        BY <3>1
      <4> QED  BY <2>3, <2>5, <3>1, <4>1
    <3>2. CASE i # n + 1
      <4>1. i \in 2..n /\ i \in 1..n /\ i - 1 \in 1..n
        BY <3>2
      <4> QED  BY <2>1, <2>3, <4>1 DEF Linked
    <3> QED  BY <3>1, <3>2
  <2>9. ASSUME NEW i \in 1..n + 1, NEW j \in 1..n + 1, v[i].pool = v[j].pool PROVE i = j
    <3>1. CASE i = n + 1 /\ j # n + 1
      <4>1. j \in 1..n
        BY <3>1
      <4> QED  BY <2>3, <2>6, <2>9, <3>1, <4>1
    <3>2. CASE i # n + 1 /\ j = n + 1
      <4>1. i \in 1..n
        BY <3>2
      <4> QED  BY <2>3, <2>6, <2>9, <3>2, <4>1
    <3>3. CASE i # n + 1 /\ j # n + 1
      <4>1. i \in 1..n /\ j \in 1..n
        BY <3>3
      <4> QED  BY <2>1, <2>3, <2>9, <4>1 DEF Linked
    <3> QED  BY <3>1, <3>2, <3>3
  <2>10. v \in Chains(pools, n + 1)
    BY <2>3, <2>7, <2>8, <2>9 DEF Chains, Linked
  <2> QED  BY <2>10 DEF v
<1>2. ASSUME NEW v \in Chains(pools, n + 1)
      PROVE  \E w \in Chains(pools, n) : /\ ~Closed(w)
               /\ \E h \in S : h.in = TokenAfter(w) /\ h.pool \notin Visits(w) /\ v = Append(w, h)
  <2> DEFINE w == [i \in 1..n |-> v[i]]
             h == v[n + 1]
  <2>1. v \in [1..n + 1 -> S] /\ Linked(v, n + 1)
    BY <1>2 DEF Chains
  <2>2. w \in [1..n -> S] /\ (\A i \in 1..n : w[i] = v[i]) /\ h \in S
    BY <2>1
  <2> HIDE DEF w
  <2>3. w \in Seq(S) /\ Len(w) = n /\ DOMAIN w = 1..n /\ (w = <<>> <=> n = 0)
    BY <2>2, SeqOfLength
  <2>4. Linked(w, n)
    <3>1. n >= 1 => w[1].in = USDC
      BY <2>1, <2>2 DEF Linked
    <3>2. ASSUME NEW i \in 2..n PROVE w[i].in = w[i - 1].out /\ w[i].in # USDC
      <4>1. i \in 2..n + 1 /\ i \in 1..n /\ i - 1 \in 1..n
        OBVIOUS
      <4> QED  BY <2>1, <2>2, <4>1 DEF Linked
    <3>3. ASSUME NEW i \in 1..n, NEW j \in 1..n, w[i].pool = w[j].pool PROVE i = j
      <4>1. i \in 1..n + 1 /\ j \in 1..n + 1
        OBVIOUS
      <4> QED  BY <2>1, <2>2, <3>3, <4>1 DEF Linked
    <3> QED  BY <3>1, <3>2, <3>3 DEF Linked
  <2>5. n > 0 => h.in = w[n].out /\ w[n].out # USDC
    <3> SUFFICES ASSUME n > 0 PROVE h.in = w[n].out /\ w[n].out # USDC
      OBVIOUS
    <3>1. n + 1 \in 2..n + 1 /\ n \in 1..n /\ (n + 1) - 1 = n
      OBVIOUS
    <3> QED  BY <2>1, <2>2, <3>1 DEF Linked
  <2>6. h.in = TokenAfter(w) /\ ~Closed(w)
    <3>1. CASE n = 0
      <4>1. w = <<>>
        BY <2>3, <3>1
      <4> QED  BY <2>1, <3>1, <4>1 DEF TokenAfter, Closed, Linked
    <3>2. CASE n > 0
      BY <2>3, <2>5, <3>2 DEF TokenAfter, Closed, Last
    <3> QED  BY <3>1, <3>2
  <2>7. h.pool \notin Visits(w)
    <3> SUFFICES ASSUME NEW i \in 1..n, h.pool = w[i].pool PROVE FALSE
      BY <2>3 DEF Visits
    <3>1. i \in 1..n + 1 /\ n + 1 \in 1..n + 1 /\ i # n + 1 /\ v[i] = w[i]
      BY <2>2
    <3> QED  BY <2>1, <3>1 DEF Linked
  <2>8. v = Append(w, h)
    <3>1. v = [i \in 1..n + 1 |-> v[i]]
      BY <2>1
    <3>2. Append(w, h) \in [1..n + 1 -> S] /\ (\A i \in 1..n : Append(w, h)[i] = w[i]) /\ Append(w, h)[n + 1] = h
      <4>1. IsLonger(Append(w, h), w, h, n, S)
        <5> HIDE DEF h
        <5> QED  BY <2>2, OneLonger
      <4> QED  BY <4>1 DEF IsLonger
    <3>3. \A i \in 1..n + 1 : Append(w, h)[i] = v[i]
      BY <2>2, <3>2
    <3> HIDE DEF h
    <3> QED  BY <3>1, <3>2, <3>3
  <2>9. w \in Chains(pools, n)
    BY <2>2, <2>4 DEF Chains
  <2> HIDE DEF h
  <2> QED  BY <2>2, <2>6, <2>7, <2>8, <2>9
<1>3. ASSUME NEW v
      PROVE  v \in Extended(pools, Chains(pools, n)) <=>
               \E w \in Chains(pools, n) : /\ ~Closed(w)
                  /\ \E h \in S : h.in = TokenAfter(w) /\ h.pool \notin Visits(w) /\ v = Append(w, h)
  <2> DEFINE open == {w \in Chains(pools, n) : ~Closed(w)}
             longer(w) == {Append(w, h) : h \in {g \in S : g.in = TokenAfter(w) /\ g.pool \notin Visits(w)}}
  <2>1. Extended(pools, Chains(pools, n)) = UNION {longer(w) : w \in open}
    BY DEF Extended
  <2>2. v \in UNION {longer(w) : w \in open} <=> \E w \in open : v \in longer(w)
    <3> HIDE DEF open, longer
    <3> QED  OBVIOUS
  <2> HIDE DEF S
  <2> QED  BY <2>1, <2>2
<1>4. Extended(pools, Chains(pools, n)) \subseteq Chains(pools, n + 1)
  <2>1. ASSUME NEW v \in Extended(pools, Chains(pools, n)) PROVE v \in Chains(pools, n + 1)
    <3>1. PICK w \in Chains(pools, n) : /\ ~Closed(w)
                  /\ \E h \in S : h.in = TokenAfter(w) /\ h.pool \notin Visits(w) /\ v = Append(w, h)
      BY <1>3
    <3>2. PICK h \in S : h.in = TokenAfter(w) /\ h.pool \notin Visits(w) /\ v = Append(w, h)
      BY <3>1
    <3> HIDE DEF S
    <3> QED  BY <1>1, <3>1, <3>2
  <2> QED  BY <2>1
<1>5. Chains(pools, n + 1) \subseteq Extended(pools, Chains(pools, n))
  <2> HIDE DEF S
  <2> QED  BY <1>2, <1>3
<1> QED  BY <1>4, <1>5

\* The walks of the recursion are the ones written down.
LEMMA WalksAreChains ==
  ASSUME EvaluationAssumption, NEW pools
  PROVE  Walks(pools) = UNION {Chains(pools, n) : n \in 1..MaxHops}
<1> DEFINE N == MaxHops
           V == SUBSET Seq(Hops(pools))
           H == [k \in 1..N |-> [S \in V |-> Extended(pools, S)]]
           c == CHOOSE W : ListsWalks(W, pools)
<1>1. N \in Nat \ {0}
  BY DEF EvaluationAssumption
<1>2. H \in [1..N -> [V -> V]] /\ {<<>>} \in V
  <2>1. ASSUME NEW S \in V PROVE Extended(pools, S) \in V
    <3>1. ASSUME NEW v \in Extended(pools, S) PROVE v \in Seq(Hops(pools))
      <4> DEFINE open == {w \in S : ~Closed(w)}
                 longer(w) == {Append(w, h) : h \in {g \in Hops(pools) : g.in = TokenAfter(w) /\ g.pool \notin Visits(w)}}
      <4>1. Extended(pools, S) = UNION {longer(w) : w \in open}
        BY DEF Extended
      <4>2. PICK w \in open : v \in longer(w)
        <5> HIDE DEF open, longer
        <5> QED  BY <3>1, <4>1
      <4>3. w \in Seq(Hops(pools))
        BY <4>2
      <4>4. PICK h \in Hops(pools) : v = Append(w, h)
        BY <4>2
      <4>5. Append(w, h) \in Seq(Hops(pools))
        BY <4>3, AppendProperties
      <4> QED  BY <4>4, <4>5
    <3> QED  BY <3>1
  <2>2. {<<>>} \in V
    BY EmptySeq
  <2> HIDE DEF V, N
  <2> QED  BY <2>1, <2>2
<1>3. PICK g : GoesBy(g, N, V, {<<>>}, H)
  <2> HIDE DEF H, N, V
  <2> QED  BY <1>1, <1>2, Iterates
<1>4. g[0] = {<<>>} /\ (\A k \in 1..N : g[k] = Extended(pools, g[k - 1])) /\ g \in [0..N -> V]
  <2>1. ASSUME NEW k \in 1..N PROVE H[k][g[k - 1]] = Extended(pools, g[k - 1])
    <3>1. k - 1 \in 0..N /\ g[k - 1] \in V
      BY <1>1, <1>3 DEF GoesBy
    <3> HIDE DEF V
    <3> QED  BY <3>1
  <2> HIDE DEF H, V, N
  <2> QED  BY <1>3, <2>1 DEF GoesBy
<1>5. g = [n \in 0..N |-> IF n = 0 THEN {<<>>} ELSE Extended(pools, g[n - 1])]
  <2> HIDE DEF V, N
  <2> QED  BY <1>1, <1>4
<1>6. ListsWalks(c, pools)
  BY <1>5 DEF ListsWalks
<1>7. Walks(pools) = UNION {c[n] : n \in 1..N}
  BY Zenon DEF Walks, ListsWalks, Extended
<1> HIDE DEF c
<1>8. c[0] = {<<>>} /\ \A k \in 1..N : c[k] = Extended(pools, c[k - 1])
  <2> DEFINE first == {<<>>}
  <2>1. c = [n \in 0..N |-> IF n = 0 THEN first ELSE Extended(pools, c[n - 1])]
    BY <1>6 DEF ListsWalks
  <2>2. c[0] = first /\ \A k \in 1..N : c[k] = Extended(pools, c[k - 1])
    <3> HIDE DEF N, first
    <3> QED  BY <1>1, <2>1
  <2> QED  BY <2>2
<1> DEFINE T == {k \in 0..N : c[k] = Chains(pools, k)}
<1>9. 0 \in T
  <2>1. Chains(pools, 0) \subseteq {<<>>}
    <3>1. ASSUME NEW w \in Chains(pools, 0) PROVE w = <<>>
      <4>1. w \in [1..0 -> Hops(pools)] /\ 0 \in Nat
        BY DEF Chains
      <4> QED  BY <4>1, SeqOfLength
    <3> QED  BY <3>1
  <2>2. <<>> \in Chains(pools, 0)
    <3>1. <<>> \in Seq(Hops(pools)) /\ Len(<<>>) = 0
      BY EmptySeq
    <3>2. <<>> \in [1..0 -> Hops(pools)]
      BY <3>1, LenProperties
    <3>3. Linked(<<>>, 0)
      BY DEF Linked
    <3> QED  BY <3>2, <3>3 DEF Chains
  <2>3. Chains(pools, 0) = {<<>>}
    <3> HIDE DEF N
    <3> QED  BY <2>1, <2>2
  <2>4. c[0] = Chains(pools, 0) /\ 0 \in 0..N
    <3> HIDE DEF N
    <3> QED  BY <1>1, <1>8, <2>3
  <2> QED  BY <2>4
<1>10. ASSUME NEW k \in 0..N, k \in T, k < N PROVE k + 1 \in T
  <2>1. k + 1 \in 1..N /\ (k + 1) - 1 = k /\ k + 1 \in 0..N /\ k \in Nat
    BY <1>1, <1>10
  <2>2. c[k + 1] = Extended(pools, Chains(pools, k))
    BY <1>8, <1>10, <2>1
  <2> QED  BY <2>1, <2>2, WalkGrows
<1>11. \A n \in 1..N : c[n] = Chains(pools, n)
  <2>1. 0..N \subseteq T
    <3> HIDE DEF T, N
    <3> QED  BY <1>1, <1>9, <1>10, Climb
  <2> HIDE DEF N
  <2> QED  BY <1>1, <2>1
<1>12. {c[n] : n \in 1..N} = {Chains(pools, n) : n \in 1..N}
  BY <1>11
<1> QED  BY <1>7, <1>12

\* The routes are the cycles.
LEMMA RoutesAreCycles ==
  ASSUME EvaluationAssumption, NEW pools
  PROVE  Routes(pools) = {r \in UNION {[1..n -> Hops(pools)] : n \in 2..MaxHops} : IsCycle(r)}
<1> DEFINE N == MaxHops
           S == Hops(pools)
           cycles == {r \in UNION {[1..n -> S] : n \in 2..N} : IsCycle(r)}
<1>1. N \in Nat /\ N >= 2
  BY DEF EvaluationAssumption
<1>2. ASSUME NEW n \in Nat, n >= 2, n <= N, NEW r \in [1..n -> S]
      PROVE  IsCycle(r) <=> Linked(r, n) /\ Closed(r)
  <2>1. Len(r) = n /\ DOMAIN r = 1..n /\ r # <<>>
    BY <1>2, SeqOfLength
  <2>2. Closed(r) <=> r[n].out = USDC
    BY <2>1 DEF Closed, TokenAfter, Last
  <2>3. IsCycle(r) <=> /\ r[1].in = USDC /\ r[n].out = USDC
                       /\ \A i \in 2..n : r[i].in = r[i - 1].out /\ r[i].in # USDC
                       /\ \A i, j \in 1..n : r[i].pool = r[j].pool => i = j
    <3>1. n \in 2..N
      BY <1>1, <1>2
    <3> HIDE DEF N
    <3> QED  BY <2>1, <3>1 DEF IsCycle, Last, N
  <2> QED  BY <1>2, <2>2, <2>3 DEF Linked
<1>3. ASSUME NEW r \in Routes(pools) PROVE r \in cycles
  <2>1. r \in Walks(pools) /\ Closed(r) /\ Len(r) >= 2
    BY DEF Routes
  <2>2. PICK n \in 1..N : r \in Chains(pools, n)
    BY <2>1, WalksAreChains
  <2>3. r \in [1..n -> S] /\ Linked(r, n) /\ n \in Nat
    BY <1>1, <2>2 DEF Chains
  <2>4. Len(r) = n
    BY <2>3, SeqOfLength
  <2>5. n >= 2 /\ n <= N /\ n \in 2..N
    BY <1>1, <2>1, <2>2, <2>4
  <2>6. IsCycle(r)
    BY <1>2, <2>1, <2>3, <2>5
  <2> QED  BY <2>3, <2>5, <2>6
<1>4. ASSUME NEW r \in cycles PROVE r \in Routes(pools)
  <2>1. PICK n \in 2..N : r \in [1..n -> S]
    BY <1>4
  <2>2. n \in Nat /\ n >= 2 /\ n <= N /\ n \in 1..N
    BY <1>1
  <2>3. Linked(r, n) /\ Closed(r)
    BY <1>2, <1>4, <2>1, <2>2
  <2>4. r \in Chains(pools, n) /\ Len(r) = n
    BY <2>1, <2>2, <2>3, SeqOfLength DEF Chains
  <2>5. r \in Walks(pools)
    BY <2>2, <2>4, WalksAreChains
  <2> QED  BY <2>2, <2>3, <2>4, <2>5 DEF Routes
<1> HIDE DEF N, S
<1>5. Routes(pools) = cycles
  <2> HIDE DEF cycles
  <2> QED  BY <1>3, <1>4
<1> QED  BY <1>5 DEF N, S

\* The parsers know a pool by its account: no account is claimed by the parser of another venue.
LEMMA ParsedAsKind ==
  ASSUME NEW kind \in {"amm_v4", "cpmm", "bonkswap", "whirlpool", "clmm", "dlmm", "lifinity", "obric"}
  PROVE  ParsedAs(AccountOf(kind)) = kind
<1> DEFINE acct == AccountOf(kind)
           claims == {i \in DOMAIN ParseOrder : Claims(ParseOrder[i], acct)}
<1>1. DOMAIN ParseOrder = 1..8
  BY DEF ParseOrder
<1>2. \E i \in 1..8 : ParseOrder[i] = kind /\ claims = {i}
  <2>1. /\ ParseOrder[1] = "amm_v4" /\ ParseOrder[2] = "clmm" /\ ParseOrder[3] = "cpmm"
        /\ ParseOrder[4] = "whirlpool" /\ ParseOrder[5] = "dlmm" /\ ParseOrder[6] = "lifinity"
        /\ ParseOrder[7] = "bonkswap" /\ ParseOrder[8] = "obric"
    BY DEF ParseOrder
  <2>2. /\ (Claims("amm_v4", acct) <=> IsAmmV4(acct))
        /\ (Claims("clmm", acct) <=> IsClmm(acct))
        /\ (Claims("cpmm", acct) <=> IsCpmm(acct))
        /\ (Claims("whirlpool", acct) <=> IsWhirlpool(acct))
        /\ (Claims("dlmm", acct) <=> IsDlmm(acct))
        /\ (Claims("lifinity", acct) <=> IsLifinity(acct))
        /\ (Claims("bonkswap", acct) <=> IsBonkswap(acct))
        /\ (Claims("obric", acct) <=> IsObric(acct))
    BY Zenon DEF Claims
  <2>3. /\ acct.tag = kind
        /\ kind = "amm_v4" => acct.size = 752
        /\ kind = "clmm" => acct.size = 1544
        /\ kind = "cpmm" => acct.size = 637
        /\ kind = "whirlpool" => acct.size = 653
        /\ kind = "dlmm" => acct.size = 904
        /\ kind = "lifinity" => acct.size = 911
        /\ kind = "bonkswap" => acct.size = 417
        /\ kind = "obric" => acct.size = 666
    BY DEF AccountOf
  <2>4. claims = {i \in 1..8 : Claims(ParseOrder[i], acct)}
    BY <1>1
  <2> HIDE DEF acct
  <2>5. /\ Claims("amm_v4", acct) <=> kind = "amm_v4"
        /\ Claims("clmm", acct) <=> kind = "clmm"
        /\ Claims("cpmm", acct) <=> kind = "cpmm"
        /\ Claims("whirlpool", acct) <=> kind = "whirlpool"
        /\ Claims("dlmm", acct) <=> kind = "dlmm"
        /\ Claims("lifinity", acct) <=> kind = "lifinity"
        /\ Claims("bonkswap", acct) <=> kind = "bonkswap"
        /\ Claims("obric", acct) <=> kind = "obric"
    <3> HIDE DEF claims
    <3>1. IsAmmV4(acct) <=> kind = "amm_v4"
      BY <2>3 DEF IsAmmV4
    <3>2. IsClmm(acct) <=> kind = "clmm"
      BY <2>3 DEF IsClmm
    <3>3. IsCpmm(acct) <=> kind = "cpmm"
      BY <2>3 DEF IsCpmm
    <3>4. IsWhirlpool(acct) <=> kind = "whirlpool"
      BY <2>3 DEF IsWhirlpool
    <3>5. IsDlmm(acct) <=> kind = "dlmm"
      BY <2>3 DEF IsDlmm
    <3>6. IsLifinity(acct) <=> kind = "lifinity"
      BY <2>3 DEF IsLifinity
    <3>7. IsBonkswap(acct) <=> kind = "bonkswap"
      BY <2>3 DEF IsBonkswap
    <3>8. IsObric(acct) <=> kind = "obric"
      BY <2>3 DEF IsObric
    <3> QED  BY <2>2, <3>1, <3>2, <3>3, <3>4, <3>5, <3>6, <3>7, <3>8
  <2>6. \A i \in 1..8 : Claims(ParseOrder[i], acct) <=> ParseOrder[i] = kind
    <3> HIDE DEF claims
    <3> QED  BY <2>1, <2>5
  <2>7. PICK i \in 1..8 : ParseOrder[i] = kind
    <3> HIDE DEF claims
    <3> QED  BY <2>1
  <2>8. \A j \in 1..8 : ParseOrder[j] = kind => j = i
    <3> HIDE DEF claims
    <3> QED  BY <2>1, <2>7
  <2>9. claims = {i}
    BY <2>4, <2>6, <2>7, <2>8
  <2> QED  BY <2>7, <2>9
<1>3. PICK i \in 1..8 : ParseOrder[i] = kind /\ claims = {i}
  BY <1>2
<1>4. Min(claims) = i
  BY <1>3 DEF Min
<1>5. ParsedAs(acct) = ParseOrder[Min(claims)]
  <2>1. claims # {}
    BY <1>3
  <2> QED  BY <2>1 DEF ParsedAs
<1> QED  BY <1>3, <1>4, <1>5
---------------------------------------------------------------------------
\* What the stream has told the scout, and what it has still to tell.
InWorld == \E w \in Worlds : market = w.market /\ settings = w.settings
VaultsAt(p) == VaultsOf(market[p][1].data)
PoolNews(s) == [is |-> "account", acct |-> AccountOf(s.data.kind), data |-> s.data]
VaultNews(n) == [is |-> "vault", amount |-> n]

\* What may be announced about an account.
StatesOf(k) == {s \in PoolStates : k \in DOMAIN market /\ s \in Range(market[k])}
News(k) ==
  {m \in {Stranger} : k = "config"}
  \cup {PoolNews(s) : s \in StatesOf(k)}
  \cup {VaultNews(n) : n \in {i \in Nat : \E p \in DOMAIN market : k \in VaultsAt(p)}}

\* The pools of a world: their states are those the parsers know, and no account serves two purposes.
MarketFacts ==
  /\ \A p \in DOMAIN market :
       /\ Range(market[p]) \subseteq PoolStates /\ market[p][1] \in Range(market[p])
       /\ \A s \in Range(market[p]) : VaultsOf(s.data) = VaultsAt(p)
       /\ p # "config" /\ "config" \notin VaultsAt(p)
  /\ \A p, q \in DOMAIN market :
       /\ p \notin VaultsAt(q)
       /\ p # q => VaultsAt(p) \cap VaultsAt(q) = {}

\* What the assumption on the worlds says of the one this behaviour is about.
LEMMA WorldMarket ==
  ASSUME InWorld
  PROVE  MarketFacts
<1>1. PICK w \in Worlds : market = w.market /\ settings = w.settings
  BY DEF InWorld
<1>2. ASSUME NEW p \in DOMAIN market
      PROVE  /\ Range(market[p]) \subseteq PoolStates /\ market[p][1] \in Range(market[p])
             /\ \A s \in Range(market[p]) : VaultsOf(s.data) = VaultsAt(p)
             /\ p # "config" /\ "config" \notin VaultsAt(p)
  <2>1. /\ market[p] \in Seq(PoolStates) /\ market[p] # <<>>
        /\ \A i, j \in DOMAIN market[p] : VaultsOf(market[p][i].data) = VaultsOf(market[p][j].data)
        /\ p # "config" /\ "config" \notin VaultsOf(market[p][1].data)
    BY <1>1, WorldsAssumption
  <2> DEFINE m == market[p]
  <2>2. m \in Seq(PoolStates) /\ m # <<>>
    BY <2>1
  <2>3. DOMAIN m = 1..Len(m) /\ 1 \in DOMAIN m /\ \A i \in DOMAIN m : m[i] \in PoolStates
    <3> HIDE DEF m
    <3>1. Len(m) \in Nat \ {0}
      BY <2>2, EmptySeq
    <3> QED  BY <2>2, <3>1
  <2>4. Range(m) \subseteq PoolStates /\ m[1] \in Range(m)
    <3> HIDE DEF m
    <3> QED  BY <2>3 DEF Range
  <2>5. ASSUME NEW s \in Range(m) PROVE VaultsOf(s.data) = VaultsAt(p)
    <3>1. PICK i \in DOMAIN m : s = m[i]
      BY <2>5 DEF Range
    <3> QED  BY <2>1, <2>3, <3>1 DEF VaultsAt
  <2> QED  BY <2>1, <2>4, <2>5 DEF VaultsAt
<1>3. ASSUME NEW p \in DOMAIN market, NEW q \in DOMAIN market
      PROVE  p \notin VaultsAt(q) /\ (p # q => VaultsAt(p) \cap VaultsAt(q) = {})
  BY <1>1, WorldsAssumption DEF VaultsAt
<1> QED  BY <1>2, <1>3 DEF MarketFacts

\* The amounts of a state are those of its vaults.
LEMMA AmountsOf ==
  ASSUME NEW s \in PoolStates
  PROVE  /\ s.data \in ParsedPools
         /\ DOMAIN Amounts(s) = VaultsOf(s.data)
         /\ \A v \in VaultsOf(s.data) : Amounts(s)[v] \in Nat
<1>1. s.data \in ParsedPools /\ s.ra \in Nat /\ s.rb \in Nat
  BY DEF PoolStates
<1> QED  BY <1>1 DEF Amounts

\* The accounts a change of a pool writes.
AnnouncedFacts(p, s) ==
  /\ DOMAIN Announced(p, s) = {p} \cup VaultsAt(p)
  /\ Announced(p, s)[p] = PoolNews(s)
  /\ \A v \in VaultsAt(p) : v # p /\ Announced(p, s)[v] = VaultNews(Amounts(s)[v]) /\ Amounts(s)[v] \in Nat
  /\ DOMAIN Amounts(s) = VaultsAt(p) /\ s \in PoolStates /\ s.data \in ParsedPools
  /\ \A k \in DOMAIN Announced(p, s) : Announced(p, s)[k] \in News(k)

\* A change of a pool announces its account and its vaults.
LEMMA AnnouncedOf ==
  ASSUME MarketFacts, NEW p \in DOMAIN market, NEW s \in Range(market[p])
  PROVE  AnnouncedFacts(p, s)
<1>1. s \in PoolStates /\ VaultsOf(s.data) = VaultsAt(p) /\ p \notin VaultsAt(p)
  BY DEF MarketFacts
<1>2. s.data \in ParsedPools /\ DOMAIN Amounts(s) = VaultsAt(p) /\ \A v \in VaultsAt(p) : Amounts(s)[v] \in Nat
  BY <1>1, AmountsOf
<1>6. /\ DOMAIN Announced(p, s) = {p} \cup VaultsAt(p)
      /\ Announced(p, s)[p] = PoolNews(s)
      /\ \A v \in VaultsAt(p) : v # p /\ Announced(p, s)[v] = VaultNews(Amounts(s)[v])
  BY <1>1 DEF Announced, PoolNews, VaultNews
<1>7. ASSUME NEW k \in DOMAIN Announced(p, s) PROVE Announced(p, s)[k] \in News(k)
  <2>1. CASE k = p
    BY <1>1, <1>6, <2>1 DEF News, StatesOf
  <2>2. CASE k \in VaultsAt(p)
    BY <1>2, <1>6, <2>2 DEF News
  <2> QED  BY <1>6, <2>1, <2>2
<1> QED  BY <1>1, <1>2, <1>6, <1>7 DEF AnnouncedFacts

\* The three kinds of news do not mix.
LEMMA NewsOf ==
  ASSUME MarketFacts, NEW k, NEW m \in News(k)
  PROVE  \/ k = "config" /\ m = Stranger
         \/ k \in DOMAIN market /\ \E s \in Range(market[k]) : m = PoolNews(s)
         \/ (\E p \in DOMAIN market : k \in VaultsAt(p)) /\ \E n \in Nat : m = VaultNews(n)
BY DEF News, StatesOf

\* Taking the oldest update leaves the newest, unless it was the last one.
LEMMA WithoutOldest ==
  ASSUME NEW k \in DOMAIN updates, NEW M, updates[k] \in Seq(M), updates[k] # <<>>
  PROVE  /\ updates[k][1] \in M
         /\ \A j \in DOMAIN Without(k) : j \in DOMAIN updates /\ (j # k => Without(k)[j] = updates[j])
         /\ \A j \in DOMAIN updates : j # k => j \in DOMAIN Without(k)
         /\ k \in DOMAIN Without(k) =>
              /\ Without(k)[k] \in Seq(M) /\ Without(k)[k] # <<>>
              /\ Last(Without(k)[k]) = Last(updates[k])
         /\ k \notin DOMAIN Without(k) => Last(updates[k]) = updates[k][1]
<1> DEFINE s == updates[k]
<1>1. Len(s) \in Nat \ {0} /\ s[1] \in M /\ s \in Seq(M)
  <2>1. Len(s) \in Nat \ {0}
    BY EmptySeq
  <2> QED  BY <2>1
<1>2. CASE Len(s) = 1
  <2>1. Without(k) = [j \in DOMAIN updates \ {k} |-> updates[j]]
    BY <1>2 DEF Without, Restrict
  <2>2. Last(s) = s[1]
    BY <1>2 DEF Last
  <2> QED  BY <1>1, <2>1, <2>2
<1>3. CASE Len(s) # 1
  <2>1. Without(k) = [updates EXCEPT ![k] = Tail(s)]
    BY <1>3 DEF Without
  <2>2. /\ DOMAIN Without(k) = DOMAIN updates /\ Without(k)[k] = Tail(s)
        /\ \A j \in DOMAIN updates : j # k => Without(k)[j] = updates[j]
    BY <2>1
  <2>3. Tail(s) \in Seq(M) /\ Tail(s) # <<>> /\ Last(Tail(s)) = Last(s)
    <3> HIDE DEF s
    <3>0. s # <<>>
      BY <1>1, EmptySeq
    <3>1. /\ Tail(s) \in Seq(M) /\ Len(Tail(s)) = Len(s) - 1
          /\ \A i \in 1..Len(Tail(s)) : Tail(s)[i] = s[i + 1]
      BY <1>1, <3>0, HeadTailProperties
    <3>2. Len(Tail(s)) \in 1..Len(Tail(s)) /\ Len(Tail(s)) # 0
      BY <1>1, <1>3, <3>1
    <3>3. Tail(s)[Len(Tail(s))] = s[Len(s)]
      BY <1>1, <3>1, <3>2
    <3>4. Tail(s) # <<>>
      BY <3>2, EmptySeq
    <3> QED  BY <3>1, <3>3, <3>4 DEF Last
  <2> QED  BY <1>1, <2>2, <2>3
<1> QED  BY <1>2, <1>3
---------------------------------------------------------------------------
\* The newest announcement of every account is what the chain says, and what is
\* not announced any more is what the scout knows.
ChainKnown ==
  /\ DOMAIN chain = DOMAIN market
  /\ \A p \in DOMAIN market : chain[p] \in Range(market[p])
UpdatesKnown == \A k \in DOMAIN updates : updates[k] \in Seq(News(k)) /\ updates[k] # <<>>
NewestIsCurrent ==
  \A p \in DOMAIN market : \A k \in DOMAIN updates :
    k \in DOMAIN Announced(p, chain[p]) => Last(updates[k]) = Announced(p, chain[p])[k]
StoreKnown ==
  /\ DOMAIN store \subseteq DOMAIN market
  /\ \A p \in DOMAIN store : /\ \E s \in Range(market[p]) : store[p] = s.data
                             /\ p \notin DOMAIN updates => store[p] = chain[p].data
VaultsKnown ==
  \A v \in DOMAIN vaults :
    /\ vaults[v] \in Nat
    /\ \E p \in DOMAIN market : /\ v \in VaultsAt(p)
                                /\ v \notin DOMAIN updates => vaults[v] = Amounts(chain[p])[v]
FeesKnown == (\A p \in DOMAIN clmmFees : clmmFees[p] \in Nat) /\ solPrice \in Nat
StreamInv ==
  InWorld /\ ChainKnown /\ UpdatesKnown /\ NewestIsCurrent /\ StoreKnown /\ VaultsKnown /\ FeesKnown

\* What the scout knows is as the parsers left it.
LEMMA StoreIsTyped ==
  ASSUME StreamInv
  PROVE  StoreTyped
<1>1. MarketFacts
  BY WorldMarket DEF StreamInv
<1>2. ASSUME NEW p \in DOMAIN store PROVE store[p] \in ParsedPools
  <2>1. p \in DOMAIN market
    BY DEF StreamInv, StoreKnown
  <2>2. PICK s \in Range(market[p]) : store[p] = s.data
    BY DEF StreamInv, StoreKnown
  <2> QED  BY <1>1, <2>1, <2>2, AnnouncedOf DEF AnnouncedFacts
<1> QED  BY <1>2 DEF StreamInv, StoreTyped, Looked, VaultsKnown, FeesKnown

\* A step that leaves the chain, the stream and what the scout knows alone.
LEMMA StreamAlone ==
  ASSUME StreamInv, UNCHANGED <<market, settings, chain, updates, store, vaults, clmmFees>>, solPrice' \in Nat
  PROVE  StreamInv'
<1>1. \A k : News(k)' = News(k)
  BY DEF News, StatesOf, VaultsAt
<1>2. InWorld' /\ ChainKnown' /\ NewestIsCurrent' /\ StoreKnown' /\ VaultsKnown' /\ FeesKnown'
  BY DEF StreamInv, InWorld, ChainKnown, NewestIsCurrent, StoreKnown, VaultsKnown, FeesKnown, VaultsAt
<1>3. UpdatesKnown'
  BY <1>1 DEF StreamInv, UpdatesKnown
<1> QED  BY <1>2, <1>3 DEF StreamInv

\* A swap announces what it changed, so that the newest update stays current.
LEMMA StreamSwap ==
  ASSUME StreamInv, NEW p \in DOMAIN market, Swap(p)
  PROVE  StreamInv'
<1>1. MarketFacts
  BY WorldMarket DEF StreamInv
<1>2. UNCHANGED <<market, settings, store, vaults, clmmFees, solPrice>>
  BY DEF Swap
<1>3. PICK state \in Range(market[p]) :
        chain' = [chain EXCEPT ![p] = state] /\ updates' = Sent(Announced(p, state))
  BY DEF Swap
<1> DEFINE news == Announced(p, state)
<1>4. DOMAIN chain = DOMAIN market /\ \A q \in DOMAIN market : chain[q] \in Range(market[q])
  BY DEF StreamInv, ChainKnown
<1>5. DOMAIN chain' = DOMAIN market /\ chain'[p] = state /\ \A q \in DOMAIN market : q # p => chain'[q] = chain[q]
  BY <1>3, <1>4
<1>6. /\ DOMAIN news = {p} \cup VaultsAt(p)
      /\ \A k \in DOMAIN news : news[k] \in News(k)
  BY <1>1, AnnouncedOf DEF AnnouncedFacts
<1>7. \A k : News(k)' = News(k) /\ VaultsAt(k)' = VaultsAt(k)
  BY <1>2 DEF News, StatesOf, VaultsAt
<1> HIDE DEF news
<1>8. /\ DOMAIN updates' = DOMAIN updates \cup DOMAIN news
      /\ \A k \in DOMAIN updates' :
           updates'[k] = (IF k \in DOMAIN updates THEN updates[k] ELSE <<>>)
                         \o (IF k \in DOMAIN news THEN <<news[k]>> ELSE <<>>)
  BY <1>3 DEF Sent, news
<1>9. ASSUME NEW k \in DOMAIN updates'
      PROVE  /\ updates'[k] \in Seq(News(k)) /\ updates'[k] # <<>>
             /\ k \in DOMAIN news => Last(updates'[k]) = news[k]
             /\ k \notin DOMAIN news => k \in DOMAIN updates /\ updates'[k] = updates[k]
  <2> DEFINE before == IF k \in DOMAIN updates THEN updates[k] ELSE <<>>
  <2>1. before \in Seq(News(k))
    BY EmptySeq DEF StreamInv, UpdatesKnown
  <2>2. CASE k \in DOMAIN news
    <3> DEFINE m == news[k]
    <3>1. updates'[k] = before \o <<m>> /\ m \in News(k)
      BY <1>6, <1>8, <2>2
    <3> HIDE DEF before, m
    <3>2. /\ before \o <<m>> \in Seq(News(k)) /\ Len(before \o <<m>>) = Len(before) + 1
          /\ (before \o <<m>>)[Len(before) + 1] = m /\ Len(before) \in Nat
      BY <2>1, <3>1
    <3>3. before \o <<m>> # <<>>
      BY <3>2, EmptySeq
    <3>4. Last(before \o <<m>>) = m
      BY <3>2 DEF Last
    <3> QED  BY <2>2, <3>1, <3>2, <3>3, <3>4 DEF m
  <2>3. CASE k \notin DOMAIN news
    <3>1. k \in DOMAIN updates
      BY <1>8, <2>3
    <3>2. updates'[k] = updates[k] \o <<>>
      BY <1>8, <2>3, <3>1
    <3>3. updates[k] \in Seq(News(k)) /\ updates[k] # <<>>
      BY <3>1 DEF StreamInv, UpdatesKnown
    <3>4. updates[k] \o <<>> = updates[k]
      BY <3>3, ConcatEmptySeq
    <3> QED  BY <2>3, <3>1, <3>2, <3>3, <3>4
  <2> QED  BY <2>2, <2>3
<1>10. InWorld'
  BY <1>2 DEF StreamInv, InWorld
<1>11. ChainKnown'
  BY <1>2, <1>4, <1>5 DEF ChainKnown
<1>12. UpdatesKnown'
  BY <1>7, <1>9 DEF UpdatesKnown
<1>13. NewestIsCurrent'
  <2> SUFFICES ASSUME NEW q \in DOMAIN market, NEW k \in DOMAIN updates', k \in DOMAIN Announced(q, chain'[q])
               PROVE  Last(updates'[k]) = Announced(q, chain'[q])[k]
    BY <1>2 DEF NewestIsCurrent
  <2>1. CASE q = p
    <3>1. Announced(q, chain'[q]) = news
      BY <1>5, <2>1 DEF news
    <3> QED  BY <1>9, <3>1
  <2>2. CASE q # p
    <3>1. chain'[q] = chain[q] /\ chain[q] \in Range(market[q])
      BY <1>4, <1>5, <2>2
    <3>2. k \in {q} \cup VaultsAt(q)
      BY <1>1, <3>1, AnnouncedOf DEF AnnouncedFacts
    <3>3. k \notin DOMAIN news
      BY <1>1, <1>6, <2>2, <3>2 DEF MarketFacts
    <3>4. k \in DOMAIN updates /\ updates'[k] = updates[k]
      BY <1>9, <3>3
    <3> QED  BY <3>1, <3>4 DEF StreamInv, NewestIsCurrent
  <2> QED  BY <2>1, <2>2
<1>14. StoreKnown'
  <2>1. ASSUME NEW q \in DOMAIN store, q \notin DOMAIN updates' PROVE store[q] = chain'[q].data
    <3>1. q # p /\ q \notin DOMAIN updates /\ q \in DOMAIN market
      BY <1>6, <1>8, <2>1 DEF StreamInv, StoreKnown
    <3> QED  BY <1>5, <3>1 DEF StreamInv, StoreKnown
  <2> QED  BY <1>2, <2>1 DEF StreamInv, StoreKnown
<1>15. VaultsKnown'
  <2>1. ASSUME NEW v \in DOMAIN vaults
        PROVE  \E q \in DOMAIN market : v \in VaultsAt(q) /\ (v \notin DOMAIN updates' => vaults[v] = Amounts(chain'[q])[v])
    <3>1. PICK q \in DOMAIN market : v \in VaultsAt(q) /\ (v \notin DOMAIN updates => vaults[v] = Amounts(chain[q])[v])
      BY DEF StreamInv, VaultsKnown
    <3>2. v \notin DOMAIN updates' => q # p /\ v \notin DOMAIN updates
      BY <1>6, <1>8, <3>1
    <3> QED  BY <1>5, <3>1, <3>2
  <2>2. \A v \in DOMAIN vaults : vaults[v] \in Nat
    BY DEF StreamInv, VaultsKnown
  <2> QED  BY <1>2, <1>7, <2>1, <2>2 DEF VaultsKnown
<1>16. FeesKnown'
  BY <1>2 DEF StreamInv, FeesKnown
<1> QED  BY <1>10, <1>11, <1>12, <1>13, <1>14, <1>15, <1>16 DEF StreamInv

\* What taking an update does to the stream.
LEMMA StreamTaken ==
  ASSUME StreamInv, NEW k \in DOMAIN updates, updates' = Without(k), UNCHANGED <<market, settings, chain>>
  PROVE  /\ InWorld' /\ ChainKnown' /\ UpdatesKnown' /\ NewestIsCurrent'
         /\ updates[k][1] \in News(k)
         /\ \A j \in DOMAIN updates : j # k => j \in DOMAIN updates'
         /\ \A p \in DOMAIN market : k \in DOMAIN Announced(p, chain[p]) /\ k \notin DOMAIN updates' =>
              updates[k][1] = Announced(p, chain[p])[k]
         /\ \A j : News(j)' = News(j) /\ VaultsAt(j)' = VaultsAt(j)
<1>1. updates[k] \in Seq(News(k)) /\ updates[k] # <<>>
  BY DEF StreamInv, UpdatesKnown
<1>2. /\ updates[k][1] \in News(k)
      /\ \A j \in DOMAIN updates' : j \in DOMAIN updates /\ (j # k => updates'[j] = updates[j])
      /\ \A j \in DOMAIN updates : j # k => j \in DOMAIN updates'
      /\ k \in DOMAIN updates' =>
           /\ updates'[k] \in Seq(News(k)) /\ updates'[k] # <<>>
           /\ Last(updates'[k]) = Last(updates[k])
      /\ k \notin DOMAIN updates' => Last(updates[k]) = updates[k][1]
  BY <1>1, WithoutOldest
<1>3. \A j : News(j)' = News(j) /\ VaultsAt(j)' = VaultsAt(j)
  BY DEF News, StatesOf, VaultsAt
<1>4. InWorld' /\ ChainKnown'
  BY DEF StreamInv, InWorld, ChainKnown
<1>5. UpdatesKnown'
  BY <1>2, <1>3 DEF StreamInv, UpdatesKnown
<1>6. NewestIsCurrent'
  BY <1>2 DEF StreamInv, NewestIsCurrent
<1>7. \A p \in DOMAIN market : k \in DOMAIN Announced(p, chain[p]) /\ k \notin DOMAIN updates' =>
        updates[k][1] = Announced(p, chain[p])[k]
  BY <1>2 DEF StreamInv, NewestIsCurrent
<1> QED  BY <1>2, <1>3, <1>4, <1>5, <1>6, <1>7

\* Taking the update of a vault brings its amount up to the chain, if it was the last one.
LEMMA StreamTakesVault ==
  ASSUME StreamInv, NEW k \in DOMAIN updates, TakeVault(k)
  PROVE  StreamInv'
<1>1. MarketFacts
  BY WorldMarket DEF StreamInv
<1>2. /\ updates[k][1].is = "vault" /\ updates' = Without(k)
      /\ UNCHANGED <<market, settings, chain, store, clmmFees, solPrice>>
      /\ vaults' = With(vaults, k, updates[k][1].amount)
  BY DEF TakeVault
<1>3. /\ InWorld' /\ ChainKnown' /\ UpdatesKnown' /\ NewestIsCurrent'
      /\ updates[k][1] \in News(k)
      /\ \A j \in DOMAIN updates : j # k => j \in DOMAIN updates'
      /\ \A p \in DOMAIN market : k \in DOMAIN Announced(p, chain[p]) /\ k \notin DOMAIN updates' =>
           updates[k][1] = Announced(p, chain[p])[k]
      /\ \A j : News(j)' = News(j) /\ VaultsAt(j)' = VaultsAt(j)
  BY <1>2, StreamTaken
<1>4. (\E p \in DOMAIN market : k \in VaultsAt(p)) /\ \E n \in Nat : updates[k][1] = VaultNews(n)
  BY <1>1, <1>2, <1>3, NewsOf DEF Stranger, PoolNews
<1>5. PICK n \in Nat : updates[k][1] = VaultNews(n)
  BY <1>4
<1>6. PICK p \in DOMAIN market : k \in VaultsAt(p)
  BY <1>4
<1>7. DOMAIN vaults' = DOMAIN vaults \cup {k} /\ vaults'[k] = n /\ \A v \in DOMAIN vaults : v # k => vaults'[v] = vaults[v]
  BY <1>2, <1>5 DEF With, VaultNews
<1>8. k \notin DOMAIN updates' => n = Amounts(chain[p])[k]
  <2>1. chain[p] \in Range(market[p])
    BY DEF StreamInv, ChainKnown
  <2>2. k \in DOMAIN Announced(p, chain[p]) /\ Announced(p, chain[p])[k] = VaultNews(Amounts(chain[p])[k])
    <3>1. AnnouncedFacts(p, chain[p])
      BY <1>1, <2>1, AnnouncedOf
    <3> QED  BY <1>6, <3>1 DEF AnnouncedFacts
  <2> QED  BY <1>3, <1>5, <2>2 DEF VaultNews
<1>9. StoreKnown'
  <2>1. ASSUME NEW q \in DOMAIN store, q \notin DOMAIN updates' PROVE q \notin DOMAIN updates
    <3>1. q \in DOMAIN market
      BY DEF StreamInv, StoreKnown
    <3>2. q # k
      BY <1>1, <1>6, <3>1 DEF MarketFacts
    <3> QED  BY <1>3, <2>1, <3>2
  <2> QED  BY <1>2, <2>1 DEF StreamInv, StoreKnown
<1>10. VaultsKnown'
  <2>1. ASSUME NEW v \in DOMAIN vaults'
        PROVE  /\ vaults'[v] \in Nat
               /\ \E q \in DOMAIN market : v \in VaultsAt(q) /\ (v \notin DOMAIN updates' => vaults'[v] = Amounts(chain[q])[v])
    <3>1. CASE v = k
      BY <1>6, <1>7, <1>8, <3>1
    <3>2. CASE v # k
      <4>1. v \in DOMAIN vaults /\ vaults'[v] = vaults[v]
        BY <1>7, <3>2
      <4> QED  BY <1>3, <3>2, <4>1 DEF StreamInv, VaultsKnown
    <3> QED  BY <3>1, <3>2
  <2> QED  BY <1>2, <1>3, <2>1 DEF VaultsKnown
<1>11. FeesKnown'
  BY <1>2 DEF StreamInv, FeesKnown
<1> QED  BY <1>3, <1>9, <1>10, <1>11 DEF StreamInv

\* No parser claims an account of another program.
LEMMA StrangerUnclaimed == ParsedAs(Stranger.acct) = "nothing"
<1> DEFINE acct == Stranger.acct
<1>1. acct.tag = "config" /\ acct.size = 117
  BY DEF Stranger
<1>2. ASSUME NEW i \in DOMAIN ParseOrder PROVE ~Claims(ParseOrder[i], acct)
  <2> HIDE DEF acct
  <2>1. /\ ~IsAmmV4(acct) /\ ~IsClmm(acct) /\ ~IsCpmm(acct) /\ ~IsWhirlpool(acct)
        /\ ~IsDlmm(acct) /\ ~IsLifinity(acct) /\ ~IsBonkswap(acct) /\ ~IsObric(acct)
    BY <1>1 DEF IsAmmV4, IsClmm, IsCpmm, IsWhirlpool, IsDlmm, IsLifinity, IsBonkswap, IsObric
  <2>2. ParseOrder[i] \in {"amm_v4", "clmm", "cpmm", "whirlpool", "dlmm", "lifinity", "bonkswap", "obric"}
    BY DEF ParseOrder
  <2> DEFINE kind == ParseOrder[i]
  <2> HIDE DEF kind
  <2>3. kind \in {"amm_v4", "clmm", "cpmm", "whirlpool", "dlmm", "lifinity", "bonkswap", "obric"} => ~Claims(kind, acct)
    BY <2>1 DEF Claims
  <2> QED  BY <2>2, <2>3 DEF kind
<1> HIDE DEF acct
<1>3. {i \in DOMAIN ParseOrder : Claims(ParseOrder[i], acct)} = {}
  BY <1>2
<1>4. ParsedAs(acct) = "nothing"
  BY <1>3 DEF ParsedAs
<1> QED  BY <1>4 DEF acct

\* Taking the update of a pool brings its state up to the chain, if it was the last one, and
\* lists routes of the pools known then.
LEMMA StreamTakesPool ==
  ASSUME StreamInv, NEW p \in DOMAIN updates, TakePool(p)
  PROVE  StreamInv' /\ job' \subseteq Routes(store')
<1>1. MarketFacts
  BY WorldMarket DEF StreamInv
<1> DEFINE u == updates[p][1]
           kind == ParsedAs(u.acct)
<1>2. /\ u.is = "account" /\ kind # "nothing" /\ updates' = Without(p)
      /\ UNCHANGED <<market, settings, chain, vaults, clmmFees, solPrice>>
      /\ store' = With(store, p, [u.data EXCEPT !.kind = kind])
      /\ job' = {r \in Routes(store') : p \in Visits(r)}
  BY DEF TakePool
<1>3. /\ InWorld' /\ ChainKnown' /\ UpdatesKnown' /\ NewestIsCurrent'
      /\ u \in News(p)
      /\ \A j \in DOMAIN updates : j # p => j \in DOMAIN updates'
      /\ \A q \in DOMAIN market : p \in DOMAIN Announced(q, chain[q]) /\ p \notin DOMAIN updates' =>
           u = Announced(q, chain[q])[p]
      /\ \A j : News(j)' = News(j) /\ VaultsAt(j)' = VaultsAt(j)
  BY <1>2, StreamTaken
<1>4. u # Stranger
  <2>1. ParsedAs(Stranger.acct) = "nothing"
    BY StrangerUnclaimed
  <2> HIDE DEF u
  <2> QED  BY <1>2, <2>1
<1>5. p \in DOMAIN market /\ \E s \in Range(market[p]) : u = PoolNews(s)
  <2> HIDE DEF u
  <2> QED  BY <1>1, <1>2, <1>3, <1>4, NewsOf DEF VaultNews
<1>6. PICK s \in Range(market[p]) : u = PoolNews(s)
  BY <1>5
<1>7. u.acct = AccountOf(s.data.kind) /\ u.data = s.data
  <2> HIDE DEF u
  <2> QED  BY <1>6 DEF PoolNews
<1>8. [u.data EXCEPT !.kind = kind] = s.data
  <2>1. s.data \in ParsedPools
    BY <1>1, <1>5, AnnouncedOf DEF AnnouncedFacts
  <2> DEFINE d == s.data
  <2>2. kind = d.kind
    BY <1>7, <2>1, ParsedFields, ParsedAsKind
  <2>3. d = [f \in DOMAIN d |-> d[f]]
    BY <2>1, ParsedFields
  <2> HIDE DEF d, u, kind
  <2>4. [d EXCEPT !.kind = d.kind] = d
    BY <2>3
  <2> QED  BY <1>7, <2>2, <2>4 DEF d
<1>9. DOMAIN store' = DOMAIN store \cup {p} /\ store'[p] = s.data /\ \A q \in DOMAIN store : q # p => store'[q] = store[q]
  BY <1>2, <1>8 DEF With
<1>10. p \notin DOMAIN updates' => s.data = chain[p].data
  <2>1. chain[p] \in Range(market[p])
    BY <1>5 DEF StreamInv, ChainKnown
  <2>2. p \in DOMAIN Announced(p, chain[p]) /\ Announced(p, chain[p])[p] = PoolNews(chain[p])
    <3>1. AnnouncedFacts(p, chain[p])
      BY <1>1, <1>5, <2>1, AnnouncedOf
    <3> QED  BY <3>1 DEF AnnouncedFacts
  <2> HIDE DEF u
  <2> QED  BY <1>3, <1>5, <1>6, <2>2 DEF PoolNews
<1> HIDE DEF u, kind
<1>11. StoreKnown'
  <2>1. ASSUME NEW q \in DOMAIN store'
        PROVE  /\ q \in DOMAIN market /\ \E t \in Range(market[q]) : store'[q] = t.data
               /\ q \notin DOMAIN updates' => store'[q] = chain[q].data
    <3>1. CASE q = p
      BY <1>5, <1>9, <1>10, <3>1
    <3>2. CASE q # p
      <4>1. q \in DOMAIN store /\ store'[q] = store[q]
        BY <1>9, <3>2
      <4> QED  BY <1>3, <3>2, <4>1 DEF StreamInv, StoreKnown
    <3> QED  BY <3>1, <3>2
  <2> QED  BY <1>2, <2>1 DEF StoreKnown
<1>12. VaultsKnown'
  <2>1. ASSUME NEW v \in DOMAIN vaults, NEW q \in DOMAIN market, v \in VaultsAt(q), v \notin DOMAIN updates'
        PROVE  v \notin DOMAIN updates
    <3>1. v # p
      BY <1>1, <1>5, <2>1 DEF MarketFacts
    <3> QED  BY <1>3, <2>1, <3>1
  <2>2. ASSUME NEW v \in DOMAIN vaults
        PROVE  /\ vaults[v] \in Nat
               /\ \E q \in DOMAIN market : v \in VaultsAt(q) /\ (v \notin DOMAIN updates' => vaults[v] = Amounts(chain[q])[v])
    BY <2>1 DEF StreamInv, VaultsKnown
  <2> QED  BY <1>2, <1>3, <2>2 DEF VaultsKnown
<1>13. FeesKnown'
  BY <1>2 DEF StreamInv, FeesKnown
<1>14. job' \subseteq Routes(store')
  BY <1>2
<1> QED  BY <1>3, <1>11, <1>12, <1>13, <1>14 DEF StreamInv

\* An account no parser claims is neither a pool nor a vault.
LEMMA StreamTakesUnclaimed ==
  ASSUME StreamInv, NEW k \in DOMAIN updates, TakeUnclaimed(k)
  PROVE  StreamInv'
<1>1. MarketFacts
  BY WorldMarket DEF StreamInv
<1> DEFINE u == updates[k][1]
<1>2. /\ u.is = "account" /\ ParsedAs(u.acct) = "nothing" /\ updates' = Without(k)
      /\ UNCHANGED <<market, settings, chain, store, vaults, clmmFees, solPrice>>
  BY DEF TakeUnclaimed
<1>3. /\ InWorld' /\ ChainKnown' /\ UpdatesKnown' /\ NewestIsCurrent'
      /\ u \in News(k)
      /\ \A j \in DOMAIN updates : j # k => j \in DOMAIN updates'
      /\ \A j : News(j)' = News(j) /\ VaultsAt(j)' = VaultsAt(j)
  BY <1>2, StreamTaken
<1> HIDE DEF u
<1>4. k = "config"
  <2> SUFFICES ASSUME k # "config" PROVE FALSE
    OBVIOUS
  <2>1. k \in DOMAIN market /\ \E s \in Range(market[k]) : u = PoolNews(s)
    BY <1>1, <1>2, <1>3, NewsOf DEF VaultNews
  <2>2. PICK s \in Range(market[k]) : u = PoolNews(s)
    BY <2>1
  <2>3. s.data \in ParsedPools /\ u.acct = AccountOf(s.data.kind)
    BY <1>1, <2>1, <2>2, AnnouncedOf DEF AnnouncedFacts, PoolNews
  <2>4. ParsedAs(u.acct) = s.data.kind /\ s.data.kind # "nothing"
    BY <2>3, ParsedFields, ParsedAsKind
  <2> QED  BY <1>2, <2>4
<1>5. \A p \in DOMAIN market : p # k /\ k \notin VaultsAt(p)
  BY <1>1, <1>4 DEF MarketFacts
<1>6. StoreKnown'
  <2>1. ASSUME NEW q \in DOMAIN store, q \notin DOMAIN updates' PROVE q \notin DOMAIN updates
    BY <1>3, <1>5, <2>1 DEF StreamInv, StoreKnown
  <2> QED  BY <1>2, <2>1 DEF StreamInv, StoreKnown
<1>7. VaultsKnown'
  <2>1. ASSUME NEW v \in DOMAIN vaults, NEW q \in DOMAIN market, v \in VaultsAt(q), v \notin DOMAIN updates'
        PROVE  v \notin DOMAIN updates
    BY <1>3, <1>5, <2>1
  <2>2. ASSUME NEW v \in DOMAIN vaults
        PROVE  /\ vaults[v] \in Nat
               /\ \E q \in DOMAIN market : v \in VaultsAt(q) /\ (v \notin DOMAIN updates' => vaults[v] = Amounts(chain[q])[v])
    BY <2>1 DEF StreamInv, VaultsKnown
  <2> QED  BY <1>2, <1>3, <2>2 DEF VaultsKnown
<1>8. FeesKnown'
  BY <1>2 DEF StreamInv, FeesKnown
<1> QED  BY <1>3, <1>6, <1>7, <1>8 DEF StreamInv

\* The bootstrap reads what the chain says.
LEMMA StreamStarts ==
  ASSUME EvInit
  PROVE  StreamInv
<1>1. InWorld
  BY DEF EvInit, InWorld
<1>2. MarketFacts
  BY <1>1, WorldMarket
<1>3. chain = [p \in DOMAIN market |-> market[p][1]]
  BY DEF EvInit
<1>4. PICK gone \in {{}} \cup {{p} : p \in DOMAIN market}, complete \in BOOLEAN :
        /\ store = [p \in DOMAIN market \ gone |-> chain[p].data]
        /\ vaults = IF complete THEN AllAmounts ELSE <<>>
        /\ clmmFees = IF complete
                     THEN [p \in {q \in DOMAIN market : chain[q].data.kind = "clmm"} |->
                             chain[p].data.fee]
                     ELSE <<>>
  BY DEF EvInit
<1>5. updates \in {<<>>, [k \in {"config"} |-> <<Stranger>>]} /\ solPrice = 0
  BY DEF EvInit
<1>6. ChainKnown
  BY <1>2, <1>3 DEF ChainKnown, MarketFacts
<1>7. DOMAIN updates \subseteq {"config"} /\ \A k \in DOMAIN updates : k = "config" /\ updates[k] = <<Stranger>>
  BY <1>5
<1>8. UpdatesKnown
  <2>1. Stranger \in News("config")
    BY DEF News
  <2>2. <<Stranger>> \in Seq(News("config")) /\ <<Stranger>> # <<>>
    <3> HIDE DEF Stranger
    <3> QED  BY <2>1
  <2> QED  BY <1>7, <2>2 DEF UpdatesKnown
<1>9. NewestIsCurrent
  <2>1. ASSUME NEW p \in DOMAIN market PROVE "config" \notin DOMAIN Announced(p, chain[p])
    <3>1. chain[p] \in Range(market[p])
      BY <1>6 DEF ChainKnown
    <3>2. AnnouncedFacts(p, chain[p])
      BY <1>2, <3>1, AnnouncedOf
    <3> QED  BY <1>2, <3>2 DEF AnnouncedFacts, MarketFacts
  <2> QED  BY <1>7, <2>1 DEF NewestIsCurrent
<1>10. StoreKnown
  BY <1>4, <1>6 DEF StoreKnown, ChainKnown
<1>11. ASSUME NEW p \in DOMAIN market
       PROVE  DOMAIN Amounts(chain[p]) = VaultsAt(p) /\ (\A v \in VaultsAt(p) : Amounts(chain[p])[v] \in Nat)
              /\ chain[p].data \in ParsedPools
  <2>1. chain[p] \in Range(market[p])
    BY <1>6 DEF ChainKnown
  <2> QED  BY <1>2, <2>1, AnnouncedOf DEF AnnouncedFacts
<1>12. VaultsKnown
  <2>1. CASE complete
    <3> SUFFICES ASSUME NEW v \in DOMAIN vaults
                 PROVE  vaults[v] \in Nat /\ \E p \in DOMAIN market : v \in VaultsAt(p) /\ vaults[v] = Amounts(chain[p])[v]
      BY DEF VaultsKnown
    <3>1. v \in UNION {DOMAIN Amounts(chain[p]) : p \in DOMAIN chain} /\ vaults[v] = Amounts(chain[OwnerOf(v)])[v]
      BY <1>4, <2>1 DEF AllAmounts
    <3>2. \E p \in DOMAIN chain : v \in DOMAIN Amounts(chain[p])
      BY <3>1
    <3>3. OwnerOf(v) \in DOMAIN chain /\ v \in DOMAIN Amounts(chain[OwnerOf(v)])
      BY <3>2 DEF OwnerOf
    <3> QED  BY <1>6, <1>11, <3>1, <3>3 DEF ChainKnown
  <2>2. CASE ~complete
    BY <1>4, <2>2 DEF VaultsKnown
  <2> QED  BY <2>1, <2>2
<1>13. FeesKnown
  <2>1. CASE complete
    <3>1. ASSUME NEW p \in DOMAIN clmmFees PROVE clmmFees[p] \in Nat
      <4>1. p \in DOMAIN market /\ chain[p].data.kind = "clmm" /\ clmmFees[p] = chain[p].data.fee
        BY <1>4, <2>1
      <4>2. chain[p].data.fee \in 0..FeeUnit
        BY <1>11, <4>1, ParsedFields
      <4>3. FeeUnit \in Nat
        BY QuoterAssumption
      <4> QED  BY <4>1, <4>2, <4>3
    <3> QED  BY <1>5, <3>1 DEF FeesKnown
  <2>2. CASE ~complete
    BY <1>4, <1>5, <2>2 DEF FeesKnown
  <2> QED  BY <2>1, <2>2
<1> QED  BY <1>1, <1>6, <1>8, <1>9, <1>10, <1>12, <1>13 DEF StreamInv

\* The price of SOL is an amount.
LEMMA SolPriceType ==
  ASSUME EvaluationAssumption, StreamInv, RefreshSolPrice
  PROVE  solPrice' \in Nat
<1>1. PICK p \in DOMAIN store :
        /\ store[p].kind = "whirlpool" /\ store[p].root.n > 0
        /\ solPrice' = (LamportsPerSol * Towards(Square(store[p].root), store[p].a = SOL).n)
                         \div Towards(Square(store[p].root), store[p].a = SOL).d
  BY DEF RefreshSolPrice
<1> DEFINE root == store[p].root
           price == Towards(Square(root), store[p].a = SOL)
<1>2. root \in Ratios
  BY <1>1, StoreIsTyped, ParsedFields DEF StoreTyped
<1>3. root.n \in Nat \ {0} /\ root.d \in Nat \ {0}
  BY <1>1, <1>2, RatioFields
<1>4. price.n \in Nat /\ price.d \in Nat
  BY <1>2, PriceTypes
<1>5. price.d # 0
  <2>1. Square(root).n # 0 /\ Square(root).d # 0
    <3> HIDE DEF root
    <3>1. root.n * root.n # 0 /\ root.d * root.d # 0
      BY <1>3
    <3> QED  BY <3>1 DEF Square
  <2> HIDE DEF root
  <2> QED  BY <2>1 DEF Towards, Flip
<1>6. LamportsPerSol \in Nat
  BY DEF EvaluationAssumption
<1> HIDE DEF price
<1>7. LamportsPerSol * price.n \in Nat
  BY <1>4, <1>6, Products
<1>8. price.d \in Nat \ {0}
  BY <1>4, <1>5
<1> QED  BY <1>1, <1>7, <1>8, Quotient DEF price
---------------------------------------------------------------------------
\* The counters, and the record of the last trade.
CountsKnown ==
  /\ {tally.evaluated, tally.err, tally.none, tally.some, tally.largest, tally.unasked,
      tally.agreed, tally.disagreed, tally.failed} \subseteq Nat
  /\ DOMAIN tally = DOMAIN NoTally
  /\ DOMAIN taken = Takers \cup {"ungated"} /\ \A by \in Takers : taken[by] \in Nat
JobKnown == job \subseteq Routes(store)
EvInv == StreamInv /\ JobKnown /\ CountsKnown /\ EachCounted /\ RecordsPay

\* One number more completes a round of k, or does not.
LEMMA RoundsStep ==
  ASSUME NEW n \in Nat, NEW k \in Nat \ {0}
  PROVE  /\ (n + 1) % k = 0 => (n + 1) \div k = n \div k + 1
         /\ (n + 1) % k # 0 => (n + 1) \div k = n \div k
<1> DEFINE a == n \div k
           b == (n + 1) \div k
           m == (n + 1) % k
<1>1. a \in Nat /\ a * k <= n /\ n < a * k + k
  BY Quotient
<1>2. b \in Nat /\ b * k <= n + 1 /\ n + 1 < b * k + k
  <2>1. n + 1 \in Nat
    OBVIOUS
  <2> QED  BY <2>1, Quotient
<1>3. m = (n + 1) - b * k
  OBVIOUS
<1> HIDE DEF a, b, m
<1>4. a * k \in Nat /\ b * k \in Nat
  BY <1>1, <1>2, Products
<1>5. a <= b
  <2> SUFFICES ASSUME b + 1 <= a PROVE FALSE
    BY <1>1, <1>2
  <2>1. (b + 1) * k <= a * k
    BY <1>1, <1>2, ScaleUp
  <2>2. (b + 1) * k = b * k + k
    BY <1>2
  <2> QED  BY <1>1, <1>2, <1>4, <2>1, <2>2
<1>6. b <= a + 1
  <2> SUFFICES ASSUME a + 2 <= b PROVE FALSE
    BY <1>1, <1>2
  <2>1. (a + 2) * k <= b * k
    BY <1>1, <1>2, ScaleUp
  <2>2. (a + 2) * k = a * k + k + k
    BY <1>1
  <2> QED  BY <1>1, <1>2, <1>4, <2>1, <2>2
<1>7. CASE b = a
  <2>1. m # 0
    BY <1>1, <1>3, <1>4, <1>7
  <2> QED  BY <1>7, <2>1 DEF a, b, m
<1>8. CASE b = a + 1
  <2>1. b * k = a * k + k
    BY <1>1, <1>8
  <2>2. m = 0
    BY <1>1, <1>2, <1>3, <1>4, <2>1
  <2> QED  BY <1>8, <2>2 DEF a, b, m
<1> QED  BY <1>1, <1>2, <1>5, <1>6, <1>7, <1>8

\* The larger of two numbers.
LEMMA LargerOfTwo ==
  ASSUME NEW a \in Nat, NEW b \in Nat
  PROVE  Max({a, b}) \in Nat /\ a <= Max({a, b}) /\ b <= Max({a, b})
<1>1. \E m \in {a, b} : \A y \in {a, b} : m >= y
  <2>1. CASE a <= b
    BY <2>1
  <2>2. CASE b <= a
    BY <2>2
  <2> QED  BY <2>1, <2>2
<1>2. Max({a, b}) \in {a, b} /\ \A y \in {a, b} : Max({a, b}) >= y
  BY <1>1 DEF Max
<1> QED  BY <1>2

\* The bases, and the one a trade gets.
LEMMA Joined ==
  ASSUME NEW a, NEW b, NEW c
  PROVE  /\ <<a>> \o <<b>> = <<a, b>> /\ <<a, b>> \o <<c>> = <<a, b, c>>
         /\ <<a>> \o <<>> = <<a>> /\ <<a, b>> \o <<>> = <<a, b>>
<1> DEFINE S == {a, b, c}
<1>1. <<a>> \in Seq(S) /\ <<a, b>> \in Seq(S)
  OBVIOUS
<1>2. <<a>> \o <<>> = <<a>> /\ <<a, b>> \o <<>> = <<a, b>>
  BY <1>1, ConcatEmptySeq
<1>3. <<a>> \o <<b>> = <<a, b>>
  <2> DEFINE s == <<a>> \o <<b>>
  <2>1. <<b>> \in Seq(S) /\ Len(<<a>>) = 1 /\ Len(<<b>>) = 1 /\ <<a>>[1] = a /\ <<b>>[1] = b
    OBVIOUS
  <2>2. s \in Seq(S) /\ Len(s) = 2 /\ s[1] = a /\ s[2] = b
    BY <1>1, <2>1, ConcatProperties
  <2> HIDE DEF s
  <2>3. Len(<<a, b>>) = 2 /\ \A i \in 1..Len(s) : s[i] = <<a, b>>[i]
    BY <2>2
  <2>4. s = <<a, b>>
    BY <1>1, <2>2, <2>3, SeqEqual
  <2> QED  BY <2>4 DEF s
<1>4. <<a, b>> \o <<c>> = <<a, b, c>>
  <2> DEFINE s == <<a, b>> \o <<c>>
  <2>1. /\ <<c>> \in Seq(S) /\ Len(<<a, b>>) = 2 /\ Len(<<c>>) = 1
        /\ <<a, b>>[1] = a /\ <<a, b>>[2] = b /\ <<c>>[1] = c
    OBVIOUS
  <2>2. s \in Seq(S) /\ Len(s) = 3 /\ s[1] = a /\ s[2] = b /\ s[3] = c
    BY <1>1, <2>1, ConcatProperties
  <2> HIDE DEF s
  <2>3. <<a, b, c>> \in Seq(S) /\ Len(<<a, b, c>>) = 3 /\ \A i \in 1..Len(s) : s[i] = <<a, b, c>>[i]
    BY <2>2
  <2>4. s = <<a, b, c>>
    BY <2>2, <2>3, SeqEqual
  <2> QED  BY <2>4 DEF s
<1> QED  BY <1>2, <1>3, <1>4

\* The rotations the two switches allow.
LEMMA BasesAre ==
  ASSUME InWorld
  PROVE  /\ Bases \in {<<SOL>>, <<USDC>>, <<USDC, USDT>>, <<USDC, SOL>>, <<USDC, USDT, SOL>>}
         /\ settings.solAlt /\ ~settings.usdtAlt => Bases = <<SOL>>
<1>1. settings.solAlt \in BOOLEAN /\ settings.usdtAlt \in BOOLEAN
  BY WorldsAssumption DEF InWorld
<1>2. CASE settings.solAlt /\ ~settings.usdtAlt
  BY <1>2 DEF Bases
<1>3. CASE settings.solAlt /\ settings.usdtAlt
  <2>1. Bases = (<<USDC>> \o <<USDT>>) \o <<SOL>>
    BY <1>3 DEF Bases
  <2>2. Bases = <<USDC, USDT, SOL>>
    BY <2>1, Joined, Zenon
  <2> QED  BY <1>3, <2>2
<1>4. CASE ~settings.solAlt /\ settings.usdtAlt
  <2>1. Bases = (<<USDC>> \o <<USDT>>) \o <<>>
    BY <1>4 DEF Bases
  <2>2. Bases = <<USDC, USDT>>
    BY <2>1, Joined, Zenon
  <2> QED  BY <1>4, <2>2
<1>5. CASE ~settings.solAlt /\ ~settings.usdtAlt
  BY <1>5 DEF Bases
<1> QED  BY <1>1, <1>2, <1>3, <1>4, <1>5

\* The rotation never ends at the mint of the first hop.
LEMMA BaseIsAnother ==
  ASSUME InWorld, NEW n \in Nat, NEW via, BaseFor(n, via) # NoBase
  PROVE  /\ BaseFor(n, via) \in Range(Bases) \ {via}
         /\ settings.solAlt /\ ~settings.usdtAlt => BaseFor(n, via) = SOL
<1> DEFINE bases == Bases
           i == (n % Len(bases)) + 1
           others == {j \in DOMAIN bases : bases[j] # via}
<1>1. Len(bases) \in 1..3 /\ DOMAIN bases = 1..Len(bases)
  BY BasesAre
<1>2. i \in DOMAIN bases
  <2> DEFINE l == Len(bases)
  <2>1. l \in Nat \ {0}
    BY <1>1
  <2> HIDE DEF l
  <2>2. n % l \in 0..l - 1
    BY <2>1
  <2>3. (n % l) + 1 \in 1..l
    BY <2>1, <2>2
  <2> QED  BY <1>1, <2>3 DEF l
<1>3. /\ bases[i] # via => BaseFor(n, via) = bases[i]
      /\ bases[i] = via /\ others # {} => BaseFor(n, via) = bases[Min(others)]
      /\ bases[i] = via /\ others = {} => BaseFor(n, via) = NoBase
  BY DEF BaseFor
<1>4. others # {} => Min(others) \in others
  <2> SUFFICES ASSUME others # {} PROVE Min(others) \in others
    OBVIOUS
  <2>1. others \subseteq 1..3
    BY <1>1
  <2> HIDE DEF others
  <2>2. \E j \in others : \A y \in others : j <= y
    <3>1. CASE 1 \in others
      BY <2>1, <3>1
    <3>2. CASE 1 \notin others /\ 2 \in others
      BY <2>1, <3>2
    <3>3. CASE 1 \notin others /\ 2 \notin others
      <4>1. PICK j \in others : TRUE
        OBVIOUS
      <4>2. \A y \in others : y = 3
        BY <2>1, <3>3
      <4> QED  BY <4>1, <4>2
    <3> QED  BY <3>1, <3>2, <3>3
  <2>3. Min(others) = CHOOSE j \in others : \A y \in others : j <= y
    BY Zenon DEF Min
  <2> QED  BY <2>2, <2>3
<1>5. \E j \in DOMAIN bases : bases[j] # via /\ BaseFor(n, via) = bases[j]
  <2> HIDE DEF bases, i
  <2> QED  BY <1>2, <1>3, <1>4
<1>6. PICK j \in DOMAIN bases : bases[j] # via /\ BaseFor(n, via) = bases[j]
  BY <1>5
<1>7. BaseFor(n, via) \in Range(Bases) \ {via}
  BY <1>6 DEF Range
<1>8. settings.solAlt /\ ~settings.usdtAlt => BaseFor(n, via) = SOL
  <2> SUFFICES ASSUME settings.solAlt /\ ~settings.usdtAlt PROVE BaseFor(n, via) = SOL
    OBVIOUS
  <2>1. bases = <<SOL>>
    BY BasesAre
  <2> HIDE DEF bases
  <2> QED  BY <1>6, <2>1
<1> QED  BY <1>7, <1>8

\* A record goes to one taker, and the Jupiter executor gets a base that differs from the first hop's mint.
LEMMA Dispatched ==
  ASSUME InWorld, NEW route, NEW size, NEW n \in Nat
  PROVE  /\ Dispatch(route, size, n).by \in Takers
         /\ Dispatch(route, size, n).by = "jupiter" =>
              /\ Dispatch(route, size, n).base \in Range(Bases) \ {route[1].out}
              /\ settings.solAlt /\ ~settings.usdtAlt => Dispatch(route, size, n).base = SOL
<1> DEFINE via == route[1].out
           base == BaseFor(n, via)
           native == settings.native /\ IsNativeEligible(store, route)
           d == Dispatch(route, size, n)
<1>1. CASE native
  <2>1. d.by \in {"native task", "native buffer"}
    BY <1>1 DEF Dispatch
  <2> QED  BY <2>1 DEF Takers
<1>2. CASE ~native /\ settings.jupiterPoll
  <2>1. d.by = "nobody"
    BY <1>2 DEF Dispatch
  <2> QED  BY <2>1 DEF Takers
<1>3. CASE ~native /\ ~settings.jupiterPoll
  <2>1. d = IF settings.executor /\ via # USDC /\ base # NoBase
            THEN [by |-> "jupiter", base |-> base, amount |-> InBase(base, size)]
            ELSE [by |-> "nobody", base |-> NoBase, amount |-> 0]
    BY <1>3 DEF Dispatch
  <2>2. d.by \in {"jupiter", "nobody"} /\ (d.by = "jupiter" => base # NoBase /\ d.base = base)
    <3> HIDE DEF d, base, via
    <3> QED  BY <2>1
  <2>3. base # NoBase => base \in Range(Bases) \ {via} /\ (settings.solAlt /\ ~settings.usdtAlt => base = SOL)
    BY BaseIsAnother
  <2> HIDE DEF d, base, via
  <2>4. d.by \in Takers
    BY <2>2 DEF Takers
  <2> QED  BY <2>2, <2>3, <2>4 DEF d, via
<1> QED  BY <1>1, <1>2, <1>3

\* A route has as many hops as its length says.
LEMMA RouteShape ==
  ASSUME EvaluationAssumption, NEW r \in Routes(store)
  PROVE  Len(r) \in Nat /\ DOMAIN r = 1..Len(r)
<1>1. PICK n \in 2..MaxHops : r \in [1..n -> Hops(store)]
  BY RoutesAreCycles
<1>2. n \in Nat
  BY DEF EvaluationAssumption
<1> QED  BY <1>1, <1>2, SeqOfLength

\* The counters do not care for the chain, and a record stays what it was.
LEMMA CountsAlone ==
  ASSUME CountsKnown, EachCounted, RecordsPay, UNCHANGED <<tally, taken, last, settings>>
  PROVE  CountsKnown' /\ EachCounted' /\ RecordsPay'
<1>1. CountsKnown'
  BY DEF CountsKnown
<1>2. EachCounted'
  BY DEF EachCounted
<1>3. Bases' = Bases
  BY DEF Bases
<1>4. Gains(last)' = Gains(last)
  BY DEF Gains
<1>5. RecordsPay'
  BY <1>3, <1>4 DEF RecordsPay
<1> QED  BY <1>1, <1>2, <1>5

\* One of three counters goes up with their sum.
LEMMA OneLarger ==
  ASSUME NEW e, NEW a \in Nat, NEW b \in Nat, NEW c \in Nat, e = a + b + c
  PROVE  e + 1 = (a + 1) + b + c /\ e + 1 = a + (b + 1) + c /\ e + 1 = a + b + (c + 1)
OBVIOUS

\* One of four counters goes up.
OneUp(a, b, c, d, w, x, y, z) ==
  \/ w = a + 1 /\ x = b /\ y = c /\ z = d
  \/ w = a /\ x = b + 1 /\ y = c /\ z = d
  \/ w = a /\ x = b /\ y = c + 1 /\ z = d
  \/ w = a /\ x = b /\ y = c /\ z = d + 1
SumUp(a, b, c, d, w, x, y, z) == w + x + y + z = (a + b + c + d) + 1

\* So do four.
LEMMA OneOfFour ==
  ASSUME NEW a \in Nat, NEW b \in Nat, NEW c \in Nat, NEW d \in Nat,
         NEW w, NEW x, NEW y, NEW z, OneUp(a, b, c, d, w, x, y, z)
  PROVE  SumUp(a, b, c, d, w, x, y, z)
BY DEF OneUp, SumUp

\* The counters are numbers.
LEMMA TallyTypes ==
  ASSUME CountsKnown
  PROVE  /\ tally.evaluated \in Nat /\ tally.err \in Nat /\ tally.none \in Nat /\ tally.some \in Nat
         /\ tally.largest \in Nat /\ tally.unasked \in Nat /\ tally.agreed \in Nat
         /\ tally.disagreed \in Nat /\ tally.failed \in Nat
         /\ taken["native task"] \in Nat /\ taken["native buffer"] \in Nat
         /\ taken["jupiter"] \in Nat /\ taken["nobody"] \in Nat
BY DEF CountsKnown, Takers

\* A route that does not pay is counted once.
LEMMA PassedOver ==
  ASSUME EvInv, NEW outcome \in {"err", "none"}, Passes(outcome), UNCHANGED settings
  PROVE  CountsKnown' /\ EachCounted' /\ RecordsPay'
<1>1. CountsKnown /\ EachCounted /\ RecordsPay
  BY DEF EvInv
<1>2. DOMAIN tally = DOMAIN NoTally
  BY <1>1 DEF CountsKnown
<1>3. UNCHANGED <<taken, last>> /\ tally' = [tally EXCEPT !.evaluated = @ + 1, ![outcome] = @ + 1]
  BY DEF Passes
<1>4. /\ DOMAIN tally' = DOMAIN tally /\ tally'.evaluated = tally.evaluated + 1
      /\ tally'.err = IF outcome = "err" THEN tally.err + 1 ELSE tally.err
      /\ tally'.none = IF outcome = "none" THEN tally.none + 1 ELSE tally.none
      /\ tally'.some = tally.some /\ tally'.largest = tally.largest /\ tally'.unasked = tally.unasked
      /\ tally'.agreed = tally.agreed /\ tally'.disagreed = tally.disagreed /\ tally'.failed = tally.failed
  BY <1>2, <1>3 DEF NoTally
<1>5. CountsKnown'
  BY <1>1, <1>3, <1>4 DEF CountsKnown
<1>6. EachCounted'
  <2>1. tally'.evaluated = tally'.err + tally'.none + tally'.some
    <3>1. tally.evaluated = tally.err + tally.none + tally.some
      BY <1>1 DEF EachCounted
    <3>2. tally.err \in Nat /\ tally.none \in Nat /\ tally.some \in Nat
      BY <1>1, TallyTypes
    <3>3. CASE outcome = "err"
      <4>1. tally'.err = tally.err + 1 /\ tally'.none = tally.none
        BY <1>4, <3>3
      <4>2. tally.evaluated + 1 = (tally.err + 1) + tally.none + tally.some
        BY <3>1, <3>2, OneLarger
      <4> QED  BY <1>4, <4>1, <4>2, Zenon
    <3>4. CASE outcome = "none"
      <4>1. tally'.err = tally.err /\ tally'.none = tally.none + 1
        BY <1>4, <3>4
      <4>2. tally.evaluated + 1 = tally.err + (tally.none + 1) + tally.some
        BY <3>1, <3>2, OneLarger
      <4> QED  BY <1>4, <4>1, <4>2, Zenon
    <3> QED  BY <3>3, <3>4
  <2> QED  BY <1>1, <1>3, <1>4, <2>1 DEF EachCounted
<1>7. Bases' = Bases
  BY DEF Bases
<1>8. Gains(last)' = Gains(last)
  BY <1>3 DEF Gains
<1>9. RecordsPay'
  BY <1>1, <1>3, <1>4, <1>7, <1>8 DEF RecordsPay
<1> QED  BY <1>5, <1>6, <1>9

\* A route that pays is counted once, handed to one taker and checked in its turn.
LEMMA RecordCounted ==
  ASSUME EvaluationAssumption, EvInv, NEW route, NEW found, found.net \in Nat, Records(route, found),
         UNCHANGED settings
  PROVE  CountsKnown' /\ EachCounted' /\ tally'.largest \in Nat /\ found.net <= tally'.largest
<1> DEFINE n == tally.some + 1
           by == Dispatch(route, found.size, n).by
           largest == Max({tally.largest, found.net})
<1>1. CountsKnown /\ EachCounted /\ InWorld
  BY DEF EvInv, StreamInv
<1>2. DOMAIN tally = DOMAIN NoTally /\ n \in Nat /\ tally.largest \in Nat
  BY <1>1 DEF CountsKnown
<1>3. PICK answer \in IF Verifies(n) THEN {"agreed", "disagreed", "failed"} ELSE {"unasked"} :
        tally' = [tally EXCEPT !.evaluated = @ + 1, !.some = n, !.largest = Max({@, found.net}), ![answer] = @ + 1]
  BY DEF Records
<1>4. taken' = [taken EXCEPT ![by] = @ + 1]
  BY DEF Records
<1>5. by \in Takers
  BY <1>1, <1>2, Dispatched
<1>6. answer \in {"agreed", "disagreed", "failed", "unasked"} /\ (answer = "unasked" <=> ~Verifies(n))
  BY <1>3
<1>7. largest \in Nat /\ found.net <= largest
  BY <1>2, LargerOfTwo
<1> HIDE DEF n, by
<1>8. /\ DOMAIN tally' = DOMAIN tally /\ tally'.evaluated = tally.evaluated + 1
      /\ tally'.err = tally.err /\ tally'.none = tally.none
      /\ tally'.some = n /\ tally'.largest = largest
      /\ tally'.unasked = IF answer = "unasked" THEN tally.unasked + 1 ELSE tally.unasked
      /\ tally'.agreed = IF answer = "agreed" THEN tally.agreed + 1 ELSE tally.agreed
      /\ tally'.disagreed = IF answer = "disagreed" THEN tally.disagreed + 1 ELSE tally.disagreed
      /\ tally'.failed = IF answer = "failed" THEN tally.failed + 1 ELSE tally.failed
  BY <1>2, <1>3, <1>6 DEF NoTally
<1> HIDE DEF largest
<1>9. /\ DOMAIN taken' = DOMAIN taken /\ taken'[by] = taken[by] + 1
      /\ \A b \in Takers : b # by => taken'[b] = taken[b]
  BY <1>1, <1>4, <1>5 DEF CountsKnown
<1>10. CountsKnown'
  <2>1. \A b \in Takers : taken'[b] \in Nat
    BY <1>1, <1>5, <1>9 DEF CountsKnown
  <2>2. {tally'.evaluated, tally'.err, tally'.none, tally'.some, tally'.largest, tally'.unasked,
         tally'.agreed, tally'.disagreed, tally'.failed} \subseteq Nat
    BY <1>1, <1>2, <1>7, <1>8 DEF CountsKnown
  <2> QED  BY <1>1, <1>8, <1>9, <2>1, <2>2 DEF CountsKnown
<1>11. n = tally.some + 1
  BY DEF n
<1>12. tally'.evaluated = tally'.err + tally'.none + tally'.some
  <2>1. tally.evaluated = tally.err + tally.none + tally.some
    BY <1>1 DEF EachCounted
  <2>2. tally.err \in Nat /\ tally.none \in Nat /\ tally.some \in Nat
    BY <1>1, TallyTypes
  <2>3. tally.evaluated + 1 = tally.err + tally.none + (tally.some + 1)
    BY <2>1, <2>2, OneLarger
  <2> QED  BY <1>8, <1>11, <2>3, Zenon
<1>13. tally'.some = taken'["native task"] + taken'["native buffer"] + taken'["jupiter"] + taken'["nobody"]
  <2> DEFINE a == taken["native task"]
             b == taken["native buffer"]
             c == taken["jupiter"]
             d == taken["nobody"]
             w == taken'["native task"]
             x == taken'["native buffer"]
             y == taken'["jupiter"]
             z == taken'["nobody"]
  <2>1. a \in Nat /\ b \in Nat /\ c \in Nat /\ d \in Nat
    BY <1>1, TallyTypes
  <2>2. tally.some = a + b + c + d
    BY <1>1 DEF EachCounted
  <2>3. by \in {"native task", "native buffer", "jupiter", "nobody"}
    BY <1>5 DEF Takers
  <2>4. OneUp(a, b, c, d, w, x, y, z)
    BY <1>9, <2>3 DEF Takers, OneUp
  <2> HIDE DEF a, b, c, d, w, x, y, z
  <2>5. SumUp(a, b, c, d, w, x, y, z)
    BY <2>1, <2>4, OneOfFour
  <2>6. tally'.some = w + x + y + z
    BY <1>8, <1>11, <2>2, <2>5 DEF SumUp
  <2> QED  BY <2>6 DEF w, x, y, z
<1>14. tally'.unasked + tally'.agreed + tally'.disagreed + tally'.failed = tally'.some
  <2> DEFINE a == tally.unasked
             b == tally.agreed
             c == tally.disagreed
             d == tally.failed
             w == tally'.unasked
             x == tally'.agreed
             y == tally'.disagreed
             z == tally'.failed
  <2>1. a \in Nat /\ b \in Nat /\ c \in Nat /\ d \in Nat
    BY <1>1, TallyTypes
  <2>2. tally.some = a + b + c + d
    BY <1>1 DEF EachCounted
  <2>4. OneUp(a, b, c, d, w, x, y, z)
    BY <1>6, <1>8 DEF OneUp
  <2> HIDE DEF a, b, c, d, w, x, y, z
  <2>5. SumUp(a, b, c, d, w, x, y, z)
    BY <2>1, <2>4, OneOfFour
  <2>6. w + x + y + z = tally'.some
    BY <1>8, <1>11, <2>2, <2>5 DEF SumUp
  <2> QED  BY <2>6 DEF w, x, y, z
<1>15. ~settings.jupiterPoll => tally'.unasked = tally'.some - tally'.some \div VerifyEvery
  <2> SUFFICES ASSUME ~settings.jupiterPoll PROVE tally'.unasked = tally'.some - tally'.some \div VerifyEvery
    OBVIOUS
  <2> DEFINE s == tally.some
             k == VerifyEvery
  <2>1. s \in Nat /\ k \in Nat \ {0}
    BY <1>1 DEF CountsKnown, EvaluationAssumption
  <2>2. Verifies(n) <=> (s + 1) % k = 0
    BY <1>11 DEF Verifies
  <2>3. tally.unasked = s - s \div k
    BY <1>1 DEF EachCounted
  <2>4. tally'.unasked = (IF (s + 1) % k = 0 THEN tally.unasked ELSE tally.unasked + 1) /\ tally'.some = s + 1
    BY <1>6, <1>8, <1>11, <2>2
  <2>5. s \div k \in Nat /\ (s + 1) \div k \in Nat
    <3>1. s + 1 \in Nat
      BY <2>1
    <3> HIDE DEF s, k
    <3> QED  BY <2>1, <3>1, Quotient
  <2>6. /\ (s + 1) % k = 0 => (s + 1) \div k = s \div k + 1
        /\ (s + 1) % k # 0 => (s + 1) \div k = s \div k
    <3> HIDE DEF s, k
    <3> QED  BY <2>1, RoundsStep
  <2> DEFINE a == s \div k
             b == (s + 1) \div k
             m == (s + 1) % k
  <2>7. tally'.unasked = (s + 1) - b
    <3>1. /\ tally'.unasked = IF m = 0 THEN s - a ELSE s - a + 1
          /\ m = 0 => b = a + 1
          /\ m # 0 => b = a
          /\ a \in Nat /\ b \in Nat
      BY <2>3, <2>4, <2>5, <2>6
    <3> HIDE DEF a, b, m, s, k
    <3> QED  BY <2>1, <3>1
  <2> QED  BY <2>4, <2>7
<1>16. EachCounted'
  BY <1>12, <1>13, <1>14, <1>15 DEF EachCounted
<1> QED  BY <1>7, <1>8, <1>10, <1>16

\* A record pays.
LEMMA RecordPays ==
  ASSUME EvaluationAssumption, EvInv, NEW route \in job, FindOptimal(route).net > 0,
         Records(route, FindOptimal(route)), UNCHANGED settings
  PROVE  RecordsPay'
<1> DEFINE found == FindOptimal(route)
           to == Dispatch(route, found.size, tally.some + 1)
<1>1. StoreTyped /\ solPrice \in Nat /\ InWorld
  BY StoreIsTyped DEF EvInv, StreamInv, FeesKnown
<1>2. Len(route) \in Nat /\ DOMAIN route = 1..Len(route)
  BY RouteShape DEF EvInv, JobKnown
<1>3. found.size \in SizeMin..SizeMax /\ found.net \in Nat /\ OutputOf(route, found.size) > found.size
  BY <1>1, <1>2, FoundPays
<1>4. found.size \in Nat
  <2>1. SizeMin \in Nat /\ SizeMax \in Nat
    BY DEF EvaluationAssumption
  <2> HIDE DEF found
  <2> QED  BY <1>3, <2>1
<1> HIDE DEF found
<1>5. tally'.largest \in Nat /\ found.net <= tally'.largest
  BY <1>3, RecordCounted DEF found
<1>6. PICK rec : /\ rec = [route |-> route, size |-> found.size, net |-> found.net, to |-> to,
                           seen |-> [i \in DOMAIN route |->
                              [pool |-> store[route[i].pool], vaults |-> vaults, fees |-> clmmFees]]]
                 /\ last' = rec
  BY DEF Records, found
<1>7. rec.route = route /\ rec.size = found.size /\ rec.net = found.net /\ rec.to = to
  BY <1>6
<1>8. SeenNow(rec)
  BY <1>2, <1>6 DEF SeenNow
<1>9. (\E i \in DOMAIN rec.route : rec.seen[i].pool.kind = "obric") \/ Gains(rec)
  <2> SUFFICES ASSUME \A i \in DOMAIN rec.route : rec.seen[i].pool.kind # "obric" PROVE Gains(rec)
    OBVIOUS
  <2> HIDE DEF to
  <2>1. Len(rec.route) \in Nat /\ \A i \in 1..Len(rec.route) : rec.seen[i].pool.kind # "obric"
    BY <1>2, <1>7
  <2>2. OutputOf(rec.route, found.size) > found.size
    BY <1>3, <1>7 DEF found
  <2> QED  BY <1>1, <1>4, <1>8, <2>1, <2>2, PayingGains
<1>10. to.by = "jupiter" =>
         /\ to.base \in Range(Bases) \ {route[1].out}
         /\ settings.solAlt /\ ~settings.usdtAlt => to.base = SOL
  <2>1. tally.some + 1 \in Nat
    BY DEF EvInv, CountsKnown
  <2> QED  BY <1>1, <2>1, Dispatched
<1> HIDE DEF to
<1>11. Bases' = Bases
  BY DEF Bases
<1>12. Gains(last)' = Gains(rec)
  BY <1>6 DEF Gains
<1>13. 0 < found.net
  BY DEF found
<1> QED  BY <1>3, <1>5, <1>6, <1>7, <1>9, <1>10, <1>11, <1>12, <1>13 DEF RecordsPay, found

\* The invariant of the task holds at the start,
LEMMA EvStarts ==
  ASSUME EvInit
  PROVE  EvInv
<1>1. StreamInv
  BY StreamStarts
<1>2. job = {} /\ tally = NoTally /\ taken = [by \in Takers \cup {"ungated"} |-> 0] /\ last = <<>>
  BY DEF EvInit
<1>3. JobKnown
  BY <1>2 DEF JobKnown
<1>4. CountsKnown
  BY <1>2 DEF CountsKnown, NoTally
<1>5. tally.evaluated = 0 /\ tally.err = 0 /\ tally.none = 0 /\ tally.some = 0 /\ tally.unasked = 0
      /\ tally.agreed = 0 /\ tally.disagreed = 0 /\ tally.failed = 0
  BY <1>2 DEF NoTally
<1>6. \A by \in Takers : taken[by] = 0
  BY <1>2
<1>7. 0 - (0 \div VerifyEvery) = 0
  <2>1. VerifyEvery \in Nat /\ VerifyEvery > 0
    BY EvaluationAssumption DEF EvaluationAssumption
  <2>2. 0 \div VerifyEvery = 0
    BY <2>1
  <2> QED  BY <2>2
<1>8. EachCounted
  <2>1. tally.evaluated = tally.err + tally.none + tally.some
    BY <1>5
  <2>2. /\ taken["native task"] = 0 /\ taken["native buffer"] = 0
        /\ taken["jupiter"] = 0 /\ taken["nobody"] = 0
    BY <1>6 DEF Takers
  <2>3. tally.unasked + tally.agreed + tally.disagreed + tally.failed = tally.some
    BY <1>5
  <2>4. tally.unasked = tally.some - tally.some \div VerifyEvery
    BY <1>5, <1>7, Zenon
  <2>5. tally.some = taken["native task"] + taken["native buffer"] + taken["jupiter"] + taken["nobody"]
    <3>1. 0 = 0 + 0 + 0 + 0
      OBVIOUS
    <3> QED  BY <1>5, <2>2, <3>1, Zenon
  <2> QED  BY <2>1, <2>3, <2>4, <2>5 DEF EachCounted
<1>9. RecordsPay
  BY <1>2 DEF RecordsPay
<1> QED  BY <1>1, <1>3, <1>4, <1>8, <1>9 DEF EvInv

\* after the evaluation of a route,
LEMMA EvalStep ==
  ASSUME EvaluationAssumption, EvInv, NEW route \in job, EvaluateRoute(route)
  PROVE  EvInv'
<1> DEFINE probe == Evaluate(route, Probe)
           found == FindOptimal(route)
<1>1. StreamInv /\ JobKnown /\ StoreTyped /\ solPrice \in Nat
  BY StoreIsTyped DEF EvInv, StreamInv, FeesKnown
<1>2. /\ job' = job \ {route}
      /\ UNCHANGED <<market, settings, chain, updates, store, vaults, clmmFees, solPrice>>
      /\ \/ Passes("err") \/ Passes("none")
         \/ found.net > 0 /\ Records(route, found)
  BY DEF EvaluateRoute
<1> HIDE DEF probe
<1>3. StreamInv'
  BY <1>1, <1>2, StreamAlone
<1>4. JobKnown'
  BY <1>1, <1>2 DEF JobKnown
<1>5. CountsKnown' /\ EachCounted' /\ RecordsPay'
  <2>1. CASE Passes("err")
    BY <1>2, <2>1, PassedOver
  <2>2. CASE Passes("none")
    BY <1>2, <2>2, PassedOver
  <2>3. CASE found.net > 0 /\ Records(route, found)
    <3>1. Len(route) \in Nat /\ DOMAIN route = 1..Len(route)
      BY <1>1, RouteShape DEF JobKnown
    <3>2. found.net \in Nat
      BY <1>1, <2>3, <3>1, FoundPays
    <3>3. CountsKnown' /\ EachCounted'
      <4> HIDE DEF found
      <4> QED  BY <1>2, <2>3, <3>2, RecordCounted
    <3>4. RecordsPay'
      BY <1>2, <2>3, RecordPays
    <3> QED  BY <3>3, <3>4
  <2> HIDE DEF found
  <2> QED  BY <1>2, <2>1, <2>2, <2>3
<1> QED  BY <1>3, <1>4, <1>5 DEF EvInv

\* and after every other step.
LEMMA EvSteps ==
  ASSUME EvInv, [EvNext]_evVars
  PROVE  EvInv'
<1> USE EvaluationAssumption
<1>0. StreamInv /\ JobKnown /\ CountsKnown /\ EachCounted /\ RecordsPay
  BY DEF EvInv
<1>1. ASSUME NEW p \in DOMAIN market, Swap(p) PROVE EvInv'
  <2>1. UNCHANGED <<settings, store, job, tally, taken, last>>
    BY <1>1 DEF Swap
  <2>2. StreamInv'
    BY <1>0, <1>1, StreamSwap
  <2>3. JobKnown'
    BY <1>0, <2>1 DEF JobKnown
  <2>4. CountsKnown' /\ EachCounted' /\ RecordsPay'
    BY <1>0, <2>1, CountsAlone
  <2> QED  BY <2>2, <2>3, <2>4 DEF EvInv
<1>2. ASSUME RefreshSolPrice PROVE EvInv'
  <2>1. UNCHANGED <<market, settings, chain, updates, store, vaults, clmmFees, job, tally, taken, last>>
    BY <1>2 DEF RefreshSolPrice
  <2>2. solPrice' \in Nat
    BY <1>0, <1>2, SolPriceType
  <2>3. StreamInv'
    BY <1>0, <2>1, <2>2, StreamAlone
  <2>4. JobKnown'
    BY <1>0, <2>1 DEF JobKnown
  <2>5. CountsKnown' /\ EachCounted' /\ RecordsPay'
    BY <1>0, <2>1, CountsAlone
  <2> QED  BY <2>3, <2>4, <2>5 DEF EvInv
<1>3. ASSUME NEW k \in DOMAIN updates, TakeVault(k) PROVE EvInv'
  <2>1. UNCHANGED <<settings, store, job, tally, taken, last>>
    BY <1>3 DEF TakeVault
  <2>2. StreamInv'
    BY <1>0, <1>3, StreamTakesVault
  <2>3. JobKnown'
    BY <1>0, <2>1 DEF JobKnown
  <2>4. CountsKnown' /\ EachCounted' /\ RecordsPay'
    BY <1>0, <2>1, CountsAlone
  <2> QED  BY <2>2, <2>3, <2>4 DEF EvInv
<1>4. ASSUME NEW k \in DOMAIN updates, TakeUnclaimed(k) PROVE EvInv'
  <2>1. UNCHANGED <<settings, store, job, tally, taken, last>>
    BY <1>4 DEF TakeUnclaimed
  <2>2. StreamInv'
    BY <1>0, <1>4, StreamTakesUnclaimed
  <2>3. JobKnown'
    BY <1>0, <2>1 DEF JobKnown
  <2>4. CountsKnown' /\ EachCounted' /\ RecordsPay'
    BY <1>0, <2>1, CountsAlone
  <2> QED  BY <2>2, <2>3, <2>4 DEF EvInv
<1>5. ASSUME NEW k \in DOMAIN updates, TakePool(k) PROVE EvInv'
  <2>1. UNCHANGED <<settings, tally, last>> /\ \/ taken' = taken
                                               \/ \E n : taken' = [taken EXCEPT !["ungated"] = n]
    BY <1>5 DEF TakePool
  <2>2. StreamInv' /\ JobKnown'
    BY <1>0, <1>5, StreamTakesPool DEF JobKnown
  <2>3. DOMAIN taken' = DOMAIN taken /\ \A by \in Takers : taken'[by] = taken[by]
    <3>1. \A by \in Takers : by # "ungated"
      BY DEF Takers
    <3>2. CASE taken' = taken
      BY <3>2
    <3>3. ASSUME NEW n, taken' = [taken EXCEPT !["ungated"] = n]
          PROVE  DOMAIN taken' = DOMAIN taken /\ \A by \in Takers : taken'[by] = taken[by]
      <4>1. \A by \in Takers : by \in DOMAIN taken
        BY <1>0 DEF CountsKnown
      <4> QED  BY <3>1, <3>3, <4>1
    <3> QED  BY <2>1, <3>2, <3>3
  <2>4. CountsKnown'
    BY <1>0, <2>1, <2>3 DEF CountsKnown
  <2>5. /\ taken'["native task"] = taken["native task"] /\ taken'["native buffer"] = taken["native buffer"]
        /\ taken'["jupiter"] = taken["jupiter"] /\ taken'["nobody"] = taken["nobody"]
    BY <2>3 DEF Takers
  <2>6. EachCounted'
    BY <1>0, <2>1, <2>5 DEF EachCounted
  <2>7. Bases' = Bases
    BY <2>1 DEF Bases
  <2>8. Gains(last)' = Gains(last)
    BY <2>1 DEF Gains
  <2>9. RecordsPay'
    BY <1>0, <2>1, <2>7, <2>8 DEF RecordsPay
  <2> QED  BY <2>2, <2>4, <2>6, <2>9 DEF EvInv
<1>6. ASSUME NEW r \in job, EvaluateRoute(r) PROVE EvInv'
  BY <1>6, EvalStep
<1>7. ASSUME UNCHANGED evVars PROVE EvInv'
  <2>1. UNCHANGED <<market, settings, chain, updates, store, vaults, clmmFees, solPrice, job, tally, taken, last>>
    BY <1>7 DEF evVars
  <2>2. StreamInv'
    BY <1>0, <2>1, StreamAlone DEF StreamInv, FeesKnown
  <2>3. JobKnown'
    BY <1>0, <2>1 DEF JobKnown
  <2>4. CountsKnown' /\ EachCounted' /\ RecordsPay'
    BY <1>0, <2>1, CountsAlone
  <2> QED  BY <2>2, <2>3, <2>4 DEF EvInv
<1> QED  BY <1>1, <1>2, <1>3, <1>4, <1>5, <1>6, <1>7 DEF EvNext

\* What the scout knows when the stream has nothing left.
LEMMA KnowsChain ==
  ASSUME StreamInv
  PROVE  CaughtUp
<1> SUFFICES ASSUME updates = <<>>
             PROVE  /\ \A p \in DOMAIN store : store[p] = chain[p].data
                    /\ \A v \in DOMAIN vaults : vaults[v] = AllAmounts[v]
  BY DEF CaughtUp
<1>1. MarketFacts /\ ChainKnown /\ StoreKnown /\ VaultsKnown
  BY WorldMarket DEF StreamInv
<1>2. DOMAIN updates = {}
  OBVIOUS
<1>3. \A p \in DOMAIN store : store[p] = chain[p].data
  BY <1>1, <1>2 DEF StoreKnown
<1>4. \A p \in DOMAIN chain : DOMAIN Amounts(chain[p]) = VaultsAt(p)
  BY <1>1, AnnouncedOf DEF ChainKnown, AnnouncedFacts
<1>5. ASSUME NEW v \in DOMAIN vaults PROVE vaults[v] = AllAmounts[v]
  <2>1. PICK p \in DOMAIN market : v \in VaultsAt(p) /\ vaults[v] = Amounts(chain[p])[v]
    BY <1>1, <1>2 DEF VaultsKnown
  <2>2. p \in DOMAIN chain /\ v \in DOMAIN Amounts(chain[p])
    BY <1>1, <1>4, <2>1 DEF ChainKnown
  <2>3. OwnerOf(v) \in DOMAIN chain /\ v \in DOMAIN Amounts(chain[OwnerOf(v)])
    BY <2>2 DEF OwnerOf
  <2>4. OwnerOf(v) = p
    BY <1>1, <1>4, <2>1, <2>2, <2>3 DEF ChainKnown, MarketFacts
  <2>5. AllAmounts[v] = Amounts(chain[OwnerOf(v)])[v]
    BY <2>2 DEF AllAmounts
  <2> QED  BY <2>1, <2>4, <2>5
<1> QED  BY <1>3, <1>5

---------------------------------------------------------------------------
\* The formulas give an amount wherever they do not refuse.
LEMMA ConstantProductDefined ==
  ASSUME NEW x \in Nat, NEW rIn \in Nat \ {0}, NEW rOut \in Nat \ {0}, NEW fee \in Nat, NEW unit \in Nat \ {0},
         fee <= unit
  PROVE  ConstantProduct(x, rIn, rOut, fee, unit) \in Nat
<1> DEFINE post == x * (unit - fee)
           out  == (post * rOut) \div (rIn * unit + post)
<1>1. post \in Nat
  <2>1. unit - fee \in Nat
    OBVIOUS
  <2> DEFINE keep == unit - fee
  <2> HIDE DEF keep
  <2> QED  BY <2>1, Products DEF keep
<1>2. rIn * unit \in Nat /\ rIn * unit > 0
  BY Products
<1> HIDE DEF post
<1>3. post * rOut \in Nat /\ rIn * unit + post \in Nat \ {0}
  BY <1>1, <1>2, Products
<1> DEFINE top == post * rOut
           bottom == rIn * unit + post
<1>4. top \in Nat /\ bottom \in Nat \ {0}
  BY <1>3
<1> HIDE DEF top, bottom
<1>5. top \div bottom \in Nat
  BY <1>4, Quotient
<1>6. out \in Nat
  BY <1>5 DEF top, bottom
<1> HIDE DEF out
<1>7. ConstantProduct(x, rIn, rOut, fee, unit) \in {0, out}
  BY DEF ConstantProduct, out, post
<1> QED  BY <1>6, <1>7

\* So does the formula of the CPMM,
LEMMA CpmmDefined ==
  ASSUME NEW x \in Nat, NEW rIn \in Nat \ {0}, NEW rOut \in Nat \ {0}
  PROVE  CpmmQuote(x, rIn, rOut) \in Nat
<1> DEFINE post == (x * (Bps - CpmmFee)) \div Bps
           out  == (rOut * post) \div (rIn + post)
<1>1. post \in Nat
  <2>1. PICK keep \in Nat : Bps - CpmmFee = keep
    BY QuoterAssumption
  <2>2. Bps \in Nat \ {0} /\ x * keep \in Nat
    BY QuoterAssumption, Products
  <2> DEFINE top == x * keep
  <2>3. top \in Nat
    BY <2>2
  <2> HIDE DEF top
  <2>4. top \div Bps \in Nat
    BY <2>2, <2>3, Quotient
  <2> QED  BY <2>1, <2>4 DEF top
<1> HIDE DEF post
<1>2. rOut * post \in Nat /\ rIn + post \in Nat \ {0}
  BY <1>1, Products
<1> DEFINE top == rOut * post
           bottom == rIn + post
<1>3. top \in Nat /\ bottom \in Nat \ {0}
  BY <1>2
<1> HIDE DEF top, bottom
<1>4. top \div bottom \in Nat
  BY <1>3, Quotient
<1>5. out \in Nat
  BY <1>4 DEF top, bottom
<1> HIDE DEF out
<1>6. CpmmQuote(x, rIn, rOut) \in {0, out}
  BY DEF CpmmQuote, out, post
<1> QED  BY <1>5, <1>6

\* and a fixed price.
LEMMA AtPriceDefined ==
  ASSUME NEW x \in Nat, NEW price, price.n \in Nat \ {0}, price.d \in Nat \ {0},
         NEW fee \in Nat, NEW unit \in Nat \ {0}, fee <= unit
  PROVE  AtPrice(x, price, fee, unit) \in Nat
<1> DEFINE out == (x * price.n * (unit - fee)) \div (price.d * unit)
<1>1. PICK n \in Nat, d \in Nat, keep \in Nat : price.n = n /\ price.d = d /\ unit - fee = keep /\ d > 0
  OBVIOUS
<1>2. x * n \in Nat /\ d * unit \in Nat /\ d * unit > 0
  BY <1>1, Products
<1>3. x * n * keep \in Nat
  BY <1>2, Products
<1> DEFINE top == x * n * keep
           bottom == d * unit
<1>4. top \in Nat /\ bottom \in Nat \ {0}
  BY <1>2, <1>3
<1> HIDE DEF top, bottom
<1>5. top \div bottom \in Nat
  BY <1>4, Quotient
<1>6. out \in Nat
  BY <1>1, <1>5 DEF top, bottom
<1> HIDE DEF out
<1>7. AtPrice(x, price, fee, unit) \in {0, out}
  BY DEF AtPrice, out
<1> QED  BY <1>6, <1>7

\* Where they refuse one unit.
LEMMA ProductRefuses ==
  ASSUME NEW rIn \in Nat, NEW rOut \in Nat, NEW fee \in Nat, NEW unit \in Nat \ {0},
         ConstantProduct(1, rIn, rOut, fee, unit) # Err
  PROVE  rIn > 0 /\ rOut > 0 /\ fee <= unit
<1>1. ~(rIn = 0 \/ rOut = 0 \/ fee > unit)
  BY DEF ConstantProduct
<1> QED  BY <1>1

\* The CPMM refuses an empty side,
LEMMA CpmmRefuses ==
  ASSUME NEW rIn \in Nat, NEW rOut \in Nat, CpmmQuote(1, rIn, rOut) # Err
  PROVE  rIn > 0 /\ rOut > 0
<1>1. ~(rIn = 0 \/ rOut = 0)
  BY DEF CpmmQuote
<1> QED  BY <1>1

\* and a fixed price one of nothing.
LEMMA PriceRefuses ==
  ASSUME NEW price, price.n \in Nat, price.d \in Nat, NEW fee \in Nat, NEW unit \in Nat \ {0},
         AtPrice(1, price, fee, unit) # Err
  PROVE  price.n > 0 /\ price.d > 0 /\ fee <= unit
<1>1. ~(price.n = 0 \/ price.d = 0 \/ fee > unit)
  BY DEF AtPrice
<1> QED  BY <1>1

\* A price and what is seen from the other side.
LEMMA FlippedPrice ==
  ASSUME NEW r
  PROVE  /\ Towards(r, TRUE) = r
         /\ Towards(r, FALSE).n = r.d /\ Towards(r, FALSE).d = r.n
BY DEF Towards, Flip

\* What a DLMM pool pays is what its bin's price says.
LEMMA DlmmByPrice ==
  ASSUME NEW pool \in ParsedPools, pool.kind = "dlmm", NEW forward \in BOOLEAN, NEW x \in Nat,
         DlmmPoolQuote(pool, forward, x) # Err
  PROVE  /\ x > 0 => pool.step > 0 /\ DlmmFee(pool) < DlmmUnit
         /\ DlmmPoolQuote(pool, forward, x)
              = AtPrice(x, Towards(BinPrice(pool.step, pool.id), forward), DlmmFee(pool), DlmmUnit)
<1>1. pool.step \in Nat /\ DlmmFee(pool) \in Nat /\ DlmmUnit \in Nat
  BY BinTypes, ParsedFields, QuoterAssumption
<1>2. ~(x > 0 /\ (pool.step = 0 \/ DlmmFee(pool) >= DlmmUnit))
  BY DEF DlmmPoolQuote, DlmmQuote
<1>3. x > 0 => pool.step > 0 /\ DlmmFee(pool) < DlmmUnit
  BY <1>1, <1>2
<1> QED  BY <1>2, <1>3 DEF DlmmPoolQuote, DlmmQuote

\* The curve that answers one unit answers every input, in both directions.
LEMMA PmmDefined ==
  ASSUME NEW pool \in ParsedPools, pool.kind = "obric", NEW reserve \in Nat,
         PmmQuote(1, pool, reserve, TRUE) # Err, NEW x \in Nat, NEW forward \in BOOLEAN
  PROVE  PmmQuote(x, pool, reserve, forward) \in Nat /\ PmmBase(pool, reserve) \in Nat \ {0}
<1> DEFINE base == PmmBase(pool, reserve)
<1>0. 1 \in Nat \ {0} /\ TRUE \in BOOLEAN
  OBVIOUS
<1>1. /\ base \in Nat \ {0} /\ pool.conc > 0 /\ pool.fee < FeeUnit /\ pool.multY > 0
      /\ PmmProduct(pool) \in Nat /\ PmmProduct(pool) \div base \in Nat
  BY <1>0, PmmFacts
<1>2. /\ pool.conc \in Nat /\ pool.multY \in Nat /\ pool.fee \in Nat /\ FeeUnit \in Nat
  BY ParsedFields, QuoterAssumption
<1>3. CASE x = 0
  BY <1>1, <1>3 DEF PmmQuote
<1>4. CASE x > 0
  <2> DEFINE net   == PmmNet(pool, x)
             k     == PmmProduct(pool)
             other == k \div base
             out   == PmmQuote(x, pool, reserve, forward)
             there == PmmNet(pool, 1)
  <2>1. out = IF forward THEN NonNegative(other - k \div (base + net))
              ELSE IF other + net = 0 THEN 0 ELSE NonNegative(base - k \div (other + net))
    BY <1>1, <1>2, <1>4 DEF PmmQuote, PmmNet
  <2>2. k \in Nat /\ other \in Nat
    BY <1>1
  <2>3. net \in Nat
    <3>1. PICK keep \in Nat : FeeUnit - pool.fee = keep
      BY <1>1, <1>2
    <3>2. x * keep \in Nat /\ FeeUnit \in Nat \ {0}
      BY QuoterAssumption, Products
    <3> DEFINE top == x * keep
    <3>3. top \in Nat
      BY <3>2
    <3> HIDE DEF top
    <3>4. top \div FeeUnit \in Nat
      BY <3>2, <3>3, Quotient
    <3> QED  BY <3>1, <3>4 DEF PmmNet, top
  <2> HIDE DEF net, k, base, other, out
  <2>4. k \div (base + net) \in Nat /\ NonNegative(other - k \div (base + net)) \in Nat
    <3>1. base + net \in Nat \ {0}
      BY <1>1, <2>3
    <3>2. k \div (base + net) \in Nat
      BY <2>2, <3>1, Quotient
    <3> QED  BY <2>2, <3>2, NonNegativeType
  <2>5. ASSUME other + net # 0 PROVE NonNegative(base - k \div (other + net)) \in Nat
    <3>1. other + net \in Nat \ {0}
      BY <2>2, <2>3, <2>5
    <3>2. k \div (other + net) \in Nat
      BY <2>2, <3>1, Quotient
    <3> QED  BY <1>1, <3>2, NonNegativeType
  <2>6. out \in Nat
    BY <2>1, <2>4, <2>5
  <2> QED  BY <1>1, <2>6 DEF out, base
<1> QED  BY <1>3, <1>4

\* A pool that answers one unit of its first mint answers every input of both.
Answers(pool, amounts, fees) ==
  \A mint \in {pool.a, pool.b}, x \in Nat : Quote(pool, amounts, fees, mint, x) \in Nat

\* An answer depends on neither the direction nor the size.
LEMMA QuotesBothWays ==
  ASSUME NEW pool \in ParsedPools, pool.a # pool.b, NEW amounts, NEW fees, Looked(amounts, fees),
         Quote(pool, amounts, fees, pool.a, 1) # Err
  PROVE  /\ Answers(pool, amounts, fees)
         /\ pool.kind \in {"amm_v4", "cpmm", "obric"} => Known(pool, amounts)
<1> SUFFICES ASSUME NEW mint \in {pool.a, pool.b}, NEW x \in Nat
             PROVE  /\ Quote(pool, amounts, fees, mint, x) \in Nat
                    /\ pool.kind \in {"amm_v4", "cpmm", "obric"} => Known(pool, amounts)
  BY DEF Answers
<1> DEFINE one == Quote(pool, amounts, fees, pool.a, 1)
           out == Quote(pool, amounts, fees, mint, x)
           forward == mint = pool.a
<1>1. forward \in BOOLEAN /\ TRUE \in BOOLEAN /\ FALSE \in BOOLEAN /\ FeeUnit \in Nat \ {0} /\ DlmmUnit \in Nat \ {0}
  BY QuoterAssumption
<1>2. CASE pool.kind = "amm_v4"
  <2>1. one = AmmV4Quote(pool, amounts, TRUE, 1) /\ out = AmmV4Quote(pool, amounts, forward, x)
    BY <1>2 DEF Quote
  <2> DEFINE r == Sides(pool, amounts, TRUE)
             s == Sides(pool, amounts, forward)
  <2>2. Known(pool, amounts) /\ one = ConstantProduct(1, r[1], r[2], pool.fee, pool.unit)
    BY <2>1 DEF AmmV4Quote
  <2>3. amounts[pool.va] \in Nat /\ amounts[pool.vb] \in Nat
    BY <2>2 DEF Known, Looked
  <2>4. r[1] = amounts[pool.va] /\ r[2] = amounts[pool.vb]
    BY <1>1, SidesOf
  <2>5. {s[1], s[2]} = {amounts[pool.va], amounts[pool.vb]}
    <3> HIDE DEF forward
    <3> QED  BY <1>1, SidesOf
  <2>6. out = ConstantProduct(x, s[1], s[2], pool.fee, pool.unit)
    BY <2>1, <2>2 DEF AmmV4Quote
  <2>7. pool.fee \in Nat /\ pool.unit \in Nat \ {0}
    BY <1>2, ParsedFields
  <2> HIDE DEF r, s, forward, one
  <2> DEFINE fee == pool.fee
             unit == pool.unit
             rIn == r[1]
             rOut == r[2]
             sIn == s[1]
             sOut == s[2]
  <2>8. /\ rIn \in Nat /\ rOut \in Nat /\ fee \in Nat /\ unit \in Nat \ {0}
        /\ ConstantProduct(1, rIn, rOut, fee, unit) # Err
        /\ out = ConstantProduct(x, sIn, sOut, fee, unit)
    BY <2>2, <2>3, <2>4, <2>6, <2>7 DEF one
  <2>9. sIn \in {rIn, rOut} /\ sOut \in {rIn, rOut}
    BY <2>4, <2>5
  <2> HIDE DEF fee, unit, rIn, rOut, sIn, sOut, out
  <2>10. rIn > 0 /\ rOut > 0 /\ fee <= unit
    BY <2>8, ProductRefuses
  <2>11. sIn \in Nat \ {0} /\ sOut \in Nat \ {0}
    BY <2>8, <2>9, <2>10
  <2>12. out \in Nat
    BY <2>8, <2>10, <2>11, ConstantProductDefined
  <2> QED  BY <2>2, <2>12 DEF out
<1>3. CASE pool.kind = "cpmm"
  <2>1. one = CpmmPoolQuote(pool, amounts, TRUE, 1) /\ out = CpmmPoolQuote(pool, amounts, forward, x)
    BY <1>3 DEF Quote
  <2> DEFINE r == Sides(pool, amounts, TRUE)
             s == Sides(pool, amounts, forward)
  <2>2. Known(pool, amounts) /\ one = CpmmQuote(1, r[1], r[2])
    BY <2>1 DEF CpmmPoolQuote
  <2>3. amounts[pool.va] \in Nat /\ amounts[pool.vb] \in Nat
    BY <2>2 DEF Known, Looked
  <2>4. r[1] = amounts[pool.va] /\ r[2] = amounts[pool.vb]
    BY <1>1, SidesOf
  <2>5. {s[1], s[2]} = {amounts[pool.va], amounts[pool.vb]}
    <3> HIDE DEF forward
    <3> QED  BY <1>1, SidesOf
  <2>6. out = CpmmQuote(x, s[1], s[2])
    BY <2>1, <2>2 DEF CpmmPoolQuote
  <2> HIDE DEF r, s, forward, one
  <2> DEFINE rIn == r[1]
             rOut == r[2]
             sIn == s[1]
             sOut == s[2]
  <2>8. /\ rIn \in Nat /\ rOut \in Nat /\ CpmmQuote(1, rIn, rOut) # Err
        /\ out = CpmmQuote(x, sIn, sOut)
    BY <2>2, <2>3, <2>4, <2>6 DEF one
  <2>9. sIn \in {rIn, rOut} /\ sOut \in {rIn, rOut}
    BY <2>4, <2>5
  <2> HIDE DEF rIn, rOut, sIn, sOut, out
  <2>10. rIn > 0 /\ rOut > 0
    BY <2>8, CpmmRefuses
  <2>11. sIn \in Nat \ {0} /\ sOut \in Nat \ {0}
    BY <2>8, <2>9, <2>10
  <2>12. out \in Nat
    BY <2>8, <2>11, CpmmDefined
  <2> QED  BY <2>2, <2>12 DEF out
<1>4. CASE pool.kind = "bonkswap"
  <2> DEFINE rIn == pool.rx
             rOut == pool.ry
             sIn == IF forward THEN pool.rx ELSE pool.ry
             sOut == IF forward THEN pool.ry ELSE pool.rx
             fee == pool.fee
             unit == pool.unit
  <2>1. one = ConstantProduct(1, rIn, rOut, fee, unit)
    BY <1>4 DEF Quote, BonkswapQuote
  <2>2. out = ConstantProduct(x, sIn, sOut, fee, unit)
    BY <1>4 DEF Quote, BonkswapQuote
  <2>3. rIn \in Nat /\ rOut \in Nat /\ fee \in Nat /\ unit \in Nat \ {0}
    BY <1>4, ParsedFields
  <2>4. sIn \in {rIn, rOut} /\ sOut \in {rIn, rOut}
    OBVIOUS
  <2>5. ConstantProduct(1, rIn, rOut, fee, unit) # Err
    BY <2>1
  <2> HIDE DEF fee, unit, rIn, rOut, sIn, sOut, out, one
  <2>10. rIn > 0 /\ rOut > 0 /\ fee <= unit
    BY <2>3, <2>5, ProductRefuses
  <2>11. sIn \in Nat \ {0} /\ sOut \in Nat \ {0}
    BY <2>3, <2>4, <2>10
  <2>12. out \in Nat
    BY <2>2, <2>3, <2>10, <2>11, ConstantProductDefined
  <2> QED  BY <1>4, <2>12 DEF out
<1>5. ASSUME NEW price, price.n \in Nat, price.d \in Nat, NEW fee \in Nat, NEW unit \in Nat \ {0},
             one = AtPrice(1, price, fee, unit), out = AtPrice(x, Towards(price, forward), fee, unit)
      PROVE  out \in Nat
  <2>1. AtPrice(1, price, fee, unit) # Err
    BY <1>5
  <2> HIDE DEF one, out, forward
  <2>2. price.n > 0 /\ price.d > 0 /\ fee <= unit
    BY <1>5, <2>1, PriceRefuses
  <2>3. Towards(price, forward).n \in Nat \ {0} /\ Towards(price, forward).d \in Nat \ {0}
    <3>1. CASE forward
      BY <1>5, <2>2, <3>1 DEF Towards
    <3>2. CASE ~forward
      BY <1>5, <2>2, <3>2 DEF Towards, Flip
    <3> QED  BY <3>1, <3>2
  <2> DEFINE p == Towards(price, forward)
  <2>4. p.n \in Nat \ {0} /\ p.d \in Nat \ {0}
    BY <2>3
  <2> HIDE DEF p
  <2>5. AtPrice(x, p, fee, unit) \in Nat
    BY <1>5, <2>2, <2>4, AtPriceDefined
  <2> QED  BY <1>5, <2>5 DEF p
<1>6. CASE pool.kind = "whirlpool"
  <2>1. pool.root \in Ratios /\ pool.fee \in Nat
    BY <1>1, <1>6, ParsedFields
  <2>2. Square(pool.root).n \in Nat /\ Square(pool.root).d \in Nat
    BY <1>1, <2>1, PriceTypes, FlippedPrice
  <2>3. one = AtPrice(1, Square(pool.root), pool.fee, FeeUnit)
    BY <1>6, FlippedPrice DEF Quote, WhirlpoolQuote
  <2>4. out = AtPrice(x, Towards(Square(pool.root), forward), pool.fee, FeeUnit)
    BY <1>6 DEF Quote, WhirlpoolQuote
  <2> HIDE DEF one, out, forward
  <2> QED  BY <1>1, <1>5, <1>6, <2>1, <2>2, <2>3, <2>4 DEF out
<1>7. CASE pool.kind = "clmm"
  <2>1. pool.root \in Ratios
    BY <1>7, ParsedFields
  <2>2. Square(pool.root).n \in Nat /\ Square(pool.root).d \in Nat
    BY <1>1, <2>1, PriceTypes, FlippedPrice
  <2>3. one = ClmmQuote(pool, fees, TRUE, 1) /\ out = ClmmQuote(pool, fees, forward, x)
    BY <1>7 DEF Quote
  <2>4. pool.name \in DOMAIN fees /\ one = AtPrice(1, Square(pool.root), fees[pool.name], FeeUnit)
    BY <2>3, FlippedPrice DEF ClmmQuote
  <2>5. out = AtPrice(x, Towards(Square(pool.root), forward), fees[pool.name], FeeUnit)
    BY <2>3, <2>4 DEF ClmmQuote
  <2>6. fees[pool.name] \in Nat
    BY <2>4 DEF Looked
  <2> HIDE DEF one, out, forward
  <2> QED  BY <1>1, <1>5, <1>7, <2>2, <2>4, <2>5, <2>6 DEF out
<1>8. CASE pool.kind = "lifinity"
  <2>1. pool.price.n \in Nat /\ pool.price.d \in Nat /\ pool.fee \in Nat /\ pool.unit \in Nat \ {0}
    BY <1>8, ParsedFields, RatioFields
  <2>2. one = AtPrice(1, pool.price, pool.fee, pool.unit)
    BY <1>8, FlippedPrice DEF Quote, LifinityQuote
  <2>3. out = AtPrice(x, Towards(pool.price, forward), pool.fee, pool.unit)
    BY <1>8 DEF Quote, LifinityQuote
  <2> HIDE DEF one, out, forward
  <2> QED  BY <1>1, <1>5, <1>8, <2>1, <2>2, <2>3 DEF out
<1>9. CASE pool.kind = "dlmm"
  <2> DEFINE price == BinPrice(pool.step, pool.id)
  <2>1. one = DlmmPoolQuote(pool, TRUE, 1) /\ out = DlmmPoolQuote(pool, forward, x)
    BY <1>9 DEF Quote
  <2>2. price.n \in Nat /\ price.d \in Nat /\ DlmmFee(pool) \in Nat
    BY <1>1, <1>9, BinTypes, FlippedPrice
  <2>3. pool.step > 0 /\ DlmmFee(pool) < DlmmUnit /\ one = AtPrice(1, Towards(price, TRUE), DlmmFee(pool), DlmmUnit)
    <3>1. DlmmPoolQuote(pool, TRUE, 1) # Err
      BY <2>1, Zenon
    <3>2. 1 \in Nat /\ 1 > 0
      OBVIOUS
    <3> HIDE DEF one, price
    <3> QED  BY <1>1, <1>9, <2>1, <3>1, <3>2, DlmmByPrice DEF price
  <2>4. one = AtPrice(1, price, DlmmFee(pool), DlmmUnit)
    BY <2>3, FlippedPrice
  <2>5. out = AtPrice(x, Towards(price, forward), DlmmFee(pool), DlmmUnit)
    <3>1. pool.step \in Nat
      BY <1>9, ParsedFields
    <3>2. pool.step # 0 /\ ~(DlmmFee(pool) >= DlmmUnit)
      BY <1>1, <2>2, <2>3, <3>1
    <3> QED  BY <2>1, <3>2 DEF DlmmPoolQuote, DlmmQuote
  <2> HIDE DEF one, out, forward, price
  <2> QED  BY <1>1, <1>5, <1>9, <2>2, <2>4, <2>5 DEF out
<1>10. CASE pool.kind = "obric"
  <2>1. one = ObricQuote(pool, amounts, TRUE, 1) /\ out = ObricQuote(pool, amounts, forward, x)
    BY <1>10 DEF Quote
  <2>2. Known(pool, amounts) /\ one = PmmQuote(1, pool, amounts[pool.va], TRUE)
    BY <2>1 DEF ObricQuote
  <2>3. out = PmmQuote(x, pool, amounts[pool.va], forward)
    BY <2>1, <2>2 DEF ObricQuote
  <2>4. amounts[pool.va] \in Nat
    BY <2>2 DEF Known, Looked
  <2>5. PmmQuote(1, pool, amounts[pool.va], TRUE) # Err
    BY <2>2
  <2> HIDE DEF one, out, forward
  <2>6. out \in Nat
    BY <1>1, <1>10, <2>3, <2>4, <2>5, PmmDefined
  <2> QED  BY <2>2, <2>6 DEF out
<1> HIDE DEF out, one
<1>11. \/ pool.kind = "amm_v4" \/ pool.kind = "cpmm" \/ pool.kind = "bonkswap" \/ pool.kind = "whirlpool"
       \/ pool.kind = "clmm" \/ pool.kind = "dlmm" \/ pool.kind = "lifinity" \/ pool.kind = "obric"
  BY ParsedFields
<1> QED  BY <1>2, <1>3, <1>4, <1>6, <1>7, <1>8, <1>9, <1>10, <1>11 DEF out

\* The larger of it and 0, by cases.
LEMMA NonNegativeIs ==
  ASSUME NEW n \in Int
  PROVE  NonNegative(n) = IF n > 0 THEN n ELSE 0
<1> DEFINE S == {n, 0}
<1>1. NonNegative(n) = CHOOSE m \in S : \A o \in S : m >= o
  BY Zenon DEF NonNegative, Max
<1>2. \E m \in S : \A o \in S : m >= o
  OBVIOUS
<1> DEFINE m == CHOOSE m \in S : \A o \in S : m >= o
<1>3. m \in S /\ \A o \in S : m >= o
  BY <1>2
<1> HIDE DEF m
<1>4. m = IF n > 0 THEN n ELSE 0
  BY <1>3
<1> QED  BY <1>1, <1>4 DEF m

\* A larger share of the curve leaves less.
LEMMA CurveFalls ==
  ASSUME NEW k \in Nat, NEW b \in Nat \ {0}, NEW c \in Nat, b <= c
  PROVE  k \div c \in Nat /\ k \div b \in Nat /\ k \div c <= k \div b
<1>1. c \in Nat \ {0}
  OBVIOUS
<1>2. b * k <= c * k /\ b * k = k * b /\ c * k = k * c
  BY ScaleUp, Products
<1>3. k * b <= k * c
  BY <1>2
<1> QED  BY <1>1, <1>3, Quotient, QuotientGrows

\* The curve k = base * other is convex: moving other by less than it fell for n
\* moves base by no more than n.
LEMMA CurveSlope ==
  ASSUME NEW k \in Nat, NEW b \in Nat \ {0}, NEW n \in Nat, n < b, NEW o \in Nat, NEW q \in Nat,
         o * b <= k, k <= (q + 1) * (b + n), q + 1 <= 2 * o
  PROVE  (2 * o - (q + 1)) * (b - n) <= k
<1> DEFINE e == b + n
           c == b - n
           r == q + 1
           t == 2 * o - r
           f == b + 2 * n
<1>1. e \in Nat \ {0} /\ c \in Nat \ {0} /\ r \in Nat /\ t \in Nat /\ f \in Nat
  OBVIOUS
<1>2. o * b <= k /\ k <= r * e /\ o * b \in Nat /\ r * e \in Nat
  BY <1>1, Products
<1>3. (o * b) * e <= k * e
  <2> HIDE DEF e
  <2> QED  BY <1>1, <1>2, ScaleUp
<1>4. k * b <= (r * e) * b
  <2> HIDE DEF e, r
  <2> QED  BY <1>1, <1>2, ScaleUp
<1>5. t * (b * e) = 2 * ((o * b) * e) - (r * e) * b
  <2> HIDE DEF e, r
  <2> QED  BY <1>1
<1>6. 2 * (k * e) - k * b = k * f
  OBVIOUS
<1>7. t * (b * e) <= k * f
  <2> DEFINE u == (o * b) * e
             v == k * e
             w == k * b
             z == (r * e) * b
  <2>1. u \in Nat /\ v \in Nat /\ w \in Nat /\ z \in Nat
    <3> HIDE DEF e, r
    <3> QED  BY <1>1, <1>2, Products
  <2>2. u <= v /\ w <= z /\ t * (b * e) = 2 * u - z /\ 2 * v - w = k * f
    BY <1>3, <1>4, <1>5, <1>6
  <2> HIDE DEF u, v, w, z, e, r, t, f
  <2> QED  BY <2>1, <2>2
<1>8. f * c <= b * e
  <2>1. f * c = b * e - 2 * (n * n)
    OBVIOUS
  <2>2. n * n \in Nat
    BY Products
  <2>3. b * e \in Nat
    BY <1>1, Products
  <2> HIDE DEF f, c, e
  <2> QED  BY <2>1, <2>2, <2>3
<1>9. (t * (b * e)) * c <= (k * f) * c
  <2>1. t * (b * e) \in Nat /\ k * f \in Nat
    <3> HIDE DEF e, r, t, f
    <3>1. b * e \in Nat
      BY <1>1, Products
    <3> QED  BY <1>1, <3>1, Products
  <2> HIDE DEF e, r, t, f, c
  <2> QED  BY <1>1, <1>7, <2>1, ScaleUp
<1> HIDE DEF e, r, t, f, c
<1>10. (f * c) * k <= (b * e) * k
  <2>1. f * c \in Nat /\ b * e \in Nat
    BY <1>1, Products
  <2> QED  BY <1>8, <2>1, ScaleUp
<1>11. (t * c) * (b * e) <= k * (b * e)
  <2>1. (t * (b * e)) * c = (t * c) * (b * e) /\ (k * f) * c = (f * c) * k /\ (b * e) * k = k * (b * e)
    BY <1>1
  <2>2. (t * c) * (b * e) <= (f * c) * k
    BY <1>9, <2>1
  <2> DEFINE u == (t * c) * (b * e)
             v == (f * c) * k
             w == k * (b * e)
  <2>3. u \in Nat /\ v \in Nat /\ w \in Nat
    <3>1. t * c \in Nat /\ b * e \in Nat /\ f * c \in Nat
      BY <1>1, Products
    <3> QED  BY <3>1, Products
  <2>4. u <= v /\ v <= w
    BY <1>10, <2>1, <2>2
  <2> HIDE DEF u, v, w
  <2>5. u <= w
    BY <2>3, <2>4
  <2> QED  BY <2>5 DEF u, w
<1>12. t * c \in Nat /\ b * e \in Nat \ {0}
  BY <1>1, Products
<1>13. t * c <= k
  BY <1>11, <1>12, ScaleDown
<1> QED  BY <1>13 DEF t, c, r

\* Whoever sells what n units of base bought, but one, gets no more than n.
LEMMA CurveBack ==
  ASSUME NEW k \in Nat, NEW b \in Nat \ {0}, NEW n \in Nat, NEW m \in Nat,
         m < k \div b - k \div (b + n), NEW s \in Nat \ {0}, s = k \div b + m
  PROVE  b - k \div s <= n
<1> DEFINE o == k \div b
           q == k \div (b + n)
           back == k \div s
<1>1. /\ o \in Nat /\ o * b <= k
      /\ q \in Nat /\ k < q * (b + n) + (b + n)
      /\ back \in Nat /\ k < back * s + s
  <2>1. b + n \in Nat \ {0}
    OBVIOUS
  <2> QED  BY <2>1, Quotient
<1> HIDE DEF o, q, back
<1>2. m < o - q /\ s = o + m
  BY DEF o, q
<1>3. CASE b <= n
  <2>1. b - back <= n
    BY <1>1, <1>3
  <2> QED  BY <2>1 DEF back
<1>4. CASE n < b
  <2> DEFINE t == 2 * o - (q + 1)
             c == b - n
  <2>1. k <= (q + 1) * (b + n)
    <3>1. (q + 1) * (b + n) = q * (b + n) + (b + n)
      BY <1>1
    <3>2. q * (b + n) \in Nat
      BY <1>1, Products
    <3> QED  BY <1>1, <3>1, <3>2
  <2>2. q + 1 <= 2 * o
    BY <1>1, <1>2
  <2>3. t * c <= k
    BY <1>1, <1>4, <2>1, <2>2, CurveSlope
  <2>4. s <= t /\ t \in Nat /\ c \in Nat
    BY <1>1, <1>2, <1>4, <2>2
  <2> HIDE DEF t
  <2>5. s * c <= k
    <3> HIDE DEF c
    <3>1. s * c <= t * c /\ s * c \in Nat /\ t * c \in Nat
      BY <2>4, ScaleUp, Products
    <3> QED  BY <2>3, <3>1
  <2>6. c <= back
    <3> SUFFICES ASSUME back + 1 <= c PROVE FALSE
      BY <1>1, <2>4
    <3>1. (back + 1) * s <= c * s
      <4> HIDE DEF c
      <4> QED  BY <1>1, <2>4, ScaleUp
    <3>2. (back + 1) * s = back * s + s /\ c * s = s * c
      <4> HIDE DEF c
      <4> QED  BY <1>1, <2>4
    <3> DEFINE u == back * s
               v == s * c
    <3>3. u \in Nat /\ v \in Nat
      <4> HIDE DEF c
      <4> QED  BY <1>1, <2>4, Products
    <3>4. u + s <= v /\ v <= k /\ k < u + s
      BY <1>1, <2>5, <3>1, <3>2
    <3> HIDE DEF u, v
    <3> QED  BY <3>3, <3>4
  <2>7. b - back <= n
    BY <1>1, <1>4, <2>6
  <2> QED  BY <2>7 DEF back
<1> QED  BY <1>3, <1>4

\* Obric's answers, for a pool that gives one.
ObricForm(pool, reserve, net, forward) ==
  LET k     == PmmProduct(pool)
      base  == PmmBase(pool, reserve)
      other == k \div base
  IN  IF forward THEN NonNegative(other - k \div (base + net))
      ELSE IF other + net = 0 THEN 0 ELSE NonNegative(base - k \div (other + net))

ObricAnswers(pool, amounts, fees) ==
  /\ Known(pool, amounts) /\ amounts[pool.va] \in Nat
  /\ PmmProduct(pool) \in Nat /\ PmmBase(pool, amounts[pool.va]) \in Nat \ {0}
  /\ \A x \in Nat \ {0} :
       /\ PmmNet(pool, x) \in Nat /\ PmmNet(pool, x) <= x
       /\ \A mint \in {pool.a, pool.b} :
            Quote(pool, amounts, fees, mint, x)
              = ObricForm(pool, amounts[pool.va], PmmNet(pool, x), mint = pool.a)
  /\ \A mint \in {pool.a, pool.b} : Quote(pool, amounts, fees, mint, 0) = 0

\* An Obric pool that answers one unit gives every answer by its curve.
LEMMA ObricAnswered ==
  ASSUME NEW pool \in ParsedPools, pool.kind = "obric", pool.a # pool.b, NEW amounts, NEW fees,
         Looked(amounts, fees), Quote(pool, amounts, fees, pool.a, 1) # Err
  PROVE  ObricAnswers(pool, amounts, fees)
<1> DEFINE reserve == amounts[pool.va]
<1>1. Answers(pool, amounts, fees) /\ Known(pool, amounts)
  BY QuotesBothWays
<1>2. reserve \in Nat
  BY <1>1 DEF Known, Looked
<1>3. ASSUME NEW mint \in {pool.a, pool.b}, NEW x \in Nat
      PROVE  /\ Quote(pool, amounts, fees, mint, x) = PmmQuote(x, pool, reserve, mint = pool.a)
             /\ Quote(pool, amounts, fees, mint, x) \in Nat
  <2>1. Quote(pool, amounts, fees, mint, x) = ObricQuote(pool, amounts, mint = pool.a, x)
    BY DEF Quote
  <2> QED  BY <1>1, <2>1 DEF ObricQuote, Answers
<1> HIDE DEF reserve
<1>4. ASSUME NEW mint \in {pool.a, pool.b}, NEW x \in Nat \ {0}
      PROVE  /\ PmmNet(pool, x) \in Nat /\ PmmNet(pool, x) <= x
             /\ PmmProduct(pool) \in Nat /\ PmmBase(pool, reserve) \in Nat \ {0}
             /\ Quote(pool, amounts, fees, mint, x) = ObricForm(pool, reserve, PmmNet(pool, x), mint = pool.a)
  <2> DEFINE forward == mint = pool.a
  <2>1. forward \in BOOLEAN
    OBVIOUS
  <2>2. Quote(pool, amounts, fees, mint, x) = PmmQuote(x, pool, reserve, forward)
        /\ Quote(pool, amounts, fees, mint, x) \in Nat
    BY <1>3
  <2> HIDE DEF forward
  <2>3. PmmQuote(x, pool, reserve, forward) # Err
    BY <2>2 DEF Err
  <2>4. /\ PmmNet(pool, x) \in Nat /\ PmmNet(pool, x) <= x
        /\ PmmProduct(pool) \in Nat /\ PmmBase(pool, reserve) \in Nat \ {0}
        /\ PmmQuote(x, pool, reserve, forward) = ObricForm(pool, reserve, PmmNet(pool, x), forward)
    BY <1>2, <2>1, <2>3, PmmFacts DEF ObricForm
  <2> QED  BY <2>2, <2>4 DEF forward
<1>5. ASSUME NEW mint \in {pool.a, pool.b} PROVE Quote(pool, amounts, fees, mint, 0) = 0
  <2>1. Quote(pool, amounts, fees, mint, 0) \in Nat
    BY <1>3
  <2>2. Quote(pool, amounts, fees, mint, 0) \in {0, Err}
    BY QuoteType
  <2> QED  BY <2>1, <2>2 DEF Err
<1>6. 1 \in Nat \ {0}
  OBVIOUS
<1>7. PmmProduct(pool) \in Nat /\ PmmBase(pool, reserve) \in Nat \ {0}
  BY <1>4, <1>6
<1> QED  BY <1>1, <1>2, <1>4, <1>5, <1>7 DEF ObricAnswers, reserve

\* More in, more left after the fee.
LEMMA NetGrows ==
  ASSUME NEW pool \in ParsedPools, pool.kind = "obric", NEW x \in Nat, NEW y \in Nat, x <= y,
         pool.fee < FeeUnit
  PROVE  PmmNet(pool, x) <= PmmNet(pool, y)
<1>1. PICK keep \in Nat : FeeUnit - pool.fee = keep
  BY ParsedFields, QuoterAssumption
<1>2. FeeUnit \in Nat \ {0} /\ x * keep \in Nat /\ y * keep \in Nat /\ x * keep <= y * keep
  BY QuoterAssumption, Products, ScaleUp
<1> DEFINE u == x * keep
           v == y * keep
<1>3. u \in Nat /\ v \in Nat /\ u <= v
  BY <1>2
<1> HIDE DEF u, v
<1>4. u * FeeUnit <= v * FeeUnit
  BY <1>2, <1>3, ScaleUp
<1>5. u \div FeeUnit <= v \div FeeUnit
  BY <1>2, <1>3, <1>4, QuotientGrows
<1> QED  BY <1>1, <1>5 DEF PmmNet, u, v

\* What is left of a difference grows with it.
LEMMA LeftGrows ==
  ASSUME NEW a \in Int, NEW b \in Int, a <= b
  PROVE  NonNegative(a) <= NonNegative(b)
BY NonNegativeIs

\* More net, more out.
LEMMA FormGrows ==
  ASSUME NEW pool, NEW reserve, PmmProduct(pool) \in Nat, PmmBase(pool, reserve) \in Nat \ {0},
         NEW n \in Nat, NEW m \in Nat, n <= m, NEW forward \in BOOLEAN
  PROVE  ObricForm(pool, reserve, n, forward) <= ObricForm(pool, reserve, m, forward)
<1> DEFINE k     == PmmProduct(pool)
           base  == PmmBase(pool, reserve)
           other == k \div base
<1>1. k \in Nat /\ base \in Nat \ {0}
  OBVIOUS
<1>2. ObricForm(pool, reserve, n, forward)
        = (IF forward THEN NonNegative(other - k \div (base + n))
           ELSE IF other + n = 0 THEN 0 ELSE NonNegative(base - k \div (other + n)))
  BY DEF ObricForm
<1>3. ObricForm(pool, reserve, m, forward)
        = (IF forward THEN NonNegative(other - k \div (base + m))
           ELSE IF other + m = 0 THEN 0 ELSE NonNegative(base - k \div (other + m)))
  BY DEF ObricForm
<1> HIDE DEF k, base
<1>4. other \in Nat
  BY <1>1, Quotient
<1> HIDE DEF other
<1>5. CASE forward
  <2>1. base + n \in Nat \ {0} /\ base + m \in Nat /\ base + n <= base + m
    BY <1>1
  <2> DEFINE p == k \div (base + n)
             q == k \div (base + m)
  <2>2. p \in Nat /\ q \in Nat /\ q <= p
    BY <1>1, <2>1, CurveFalls
  <2> HIDE DEF p, q
  <2>3. other - p \in Int /\ other - q \in Int /\ other - p <= other - q
    BY <1>4, <2>2
  <2>4. NonNegative(other - p) <= NonNegative(other - q)
    BY <2>3, LeftGrows
  <2> QED  BY <1>2, <1>3, <1>5, <2>4 DEF p, q
<1>6. CASE ~forward /\ other + n = 0
  <2>1. ObricForm(pool, reserve, n, forward) = 0
    BY <1>2, <1>6
  <2>2. ASSUME other + m # 0 PROVE NonNegative(base - k \div (other + m)) >= 0
    <3>1. other + m \in Nat \ {0}
      BY <1>4, <2>2
    <3> DEFINE q == k \div (other + m)
    <3>2. q \in Nat
      BY <1>1, <3>1, Quotient
    <3> HIDE DEF q
    <3>3. base - q \in Int
      BY <1>1, <3>2
    <3>4. NonNegative(base - q) \in Nat
      BY <3>3, NonNegativeType
    <3> QED  BY <3>4 DEF q
  <2> QED  BY <1>3, <1>6, <2>1, <2>2
<1>7. CASE ~forward /\ other + n # 0
  <2>1. other + n \in Nat \ {0} /\ other + m \in Nat /\ other + n <= other + m /\ other + m # 0
    BY <1>4, <1>7
  <2> DEFINE p == k \div (other + n)
             q == k \div (other + m)
  <2>2. p \in Nat /\ q \in Nat /\ q <= p
    BY <1>1, <2>1, CurveFalls
  <2> HIDE DEF p, q
  <2>3. base - p \in Int /\ base - q \in Int /\ base - p <= base - q
    BY <1>1, <2>2
  <2>4. NonNegative(base - p) <= NonNegative(base - q)
    BY <2>3, LeftGrows
  <2> QED  BY <1>2, <1>3, <1>7, <2>1, <2>4 DEF p, q
<1> QED  BY <1>5, <1>6, <1>7

\* Whoever sells one unit less than an Obric pool paid gets back no more than he put in.
LEMMA ObricBack ==
  ASSUME NEW pool \in ParsedPools, pool.kind = "obric", pool.a # pool.b, NEW amounts, NEW fees,
         Looked(amounts, fees), Quote(pool, amounts, fees, pool.a, 1) # Err, NEW x \in Nat
  PROVE  Quote(pool, amounts, fees, pool.b, NonNegative(Quote(pool, amounts, fees, pool.a, x) - 1)) <= x
<1> DEFINE reserve == amounts[pool.va]
           k     == PmmProduct(pool)
           base  == PmmBase(pool, reserve)
           other == k \div base
           there == Quote(pool, amounts, fees, pool.a, x)
           z     == NonNegative(there - 1)
           back  == Quote(pool, amounts, fees, pool.b, z)
           n     == PmmNet(pool, x)
           m     == PmmNet(pool, z)
<1>1. ObricAnswers(pool, amounts, fees) /\ Answers(pool, amounts, fees)
  BY ObricAnswered, QuotesBothWays
<1>2. there \in Nat
  BY <1>1 DEF Answers
<1> HIDE DEF there
<1>3. z = IF there - 1 > 0 THEN there - 1 ELSE 0
  BY <1>2, NonNegativeIs
<1>4. z \in Nat
  BY <1>2, <1>3
<1> HIDE DEF z
<1>5. CASE z = 0
  <2>1. Quote(pool, amounts, fees, pool.b, 0) = 0
    BY <1>1 DEF ObricAnswers
  <2>2. back = 0
    BY <1>5, <2>1
  <2> QED  BY <2>2 DEF back, there, z
<1>6. CASE z # 0
  <2>1. there = z + 1 /\ z \in Nat \ {0}
    BY <1>2, <1>3, <1>4, <1>6
  <2>2. x \in Nat \ {0}
    <3>1. Quote(pool, amounts, fees, pool.a, 0) = 0
      BY <1>1 DEF ObricAnswers
    <3>2. CASE x = 0
      BY <1>4, <2>1, <3>1, <3>2 DEF there
    <3> QED  BY <3>2
  <2>3. k \in Nat /\ base \in Nat \ {0} /\ n \in Nat /\ n <= x /\ m \in Nat /\ m <= z
    BY <1>1, <2>1, <2>2 DEF ObricAnswers
  <2>4. there = ObricForm(pool, reserve, n, TRUE) /\ back = ObricForm(pool, reserve, m, FALSE)
    <3>1. (pool.a = pool.a) = TRUE /\ (pool.b = pool.a) = FALSE
      OBVIOUS
    <3> HIDE DEF reserve, n, m, back
    <3> QED  BY <1>1, <2>1, <2>2, <3>1 DEF ObricAnswers, there, back, reserve, n, m
  <2>5. there = NonNegative(other - k \div (base + n))
    BY <2>4 DEF ObricForm
  <2>6. back = IF other + m = 0 THEN 0 ELSE NonNegative(base - k \div (other + m))
    BY <2>4 DEF ObricForm
  <2> HIDE DEF k, base, n, m, back
  <2>7. other \in Nat /\ k \div (base + n) \in Nat
    <3>1. base + n \in Nat \ {0}
      BY <2>3
    <3> QED  BY <2>3, <3>1, Quotient
  <2> DEFINE q == k \div (base + n)
             o == k \div base
  <2>8. o \in Nat /\ q \in Nat /\ there = NonNegative(o - q)
    BY <2>5, <2>7
  <2> HIDE DEF o, q
  <2>9. z + 1 = o - q
    BY <2>1, <2>8, NonNegativeIs
  <2>10. m < o - q
    BY <2>1, <2>3, <2>9
  <2>11. CASE o + m = 0
    <3>1. back = 0
      BY <2>6, <2>11 DEF o
    <3> QED  BY <3>1 DEF back, there, z
  <2>12. CASE o + m # 0
    <3> DEFINE s == o + m
    <3>1. s \in Nat \ {0} /\ s = k \div base + m
      BY <2>3, <2>8, <2>12 DEF o
    <3>2. m < k \div base - k \div (base + n)
      BY <2>10 DEF o, q
    <3> HIDE DEF s
    <3>3. base - k \div s <= n /\ k \div s \in Nat
      BY <2>3, <3>1, <3>2, CurveBack, Quotient
    <3> DEFINE p == k \div s
    <3>4. p \in Nat /\ base - p <= n
      BY <3>3
    <3>5. back = NonNegative(base - p)
      BY <2>6, <2>12 DEF o, s
    <3> HIDE DEF p
    <3>6. back <= x
      BY <2>3, <3>4, <3>5, NonNegativeIs
    <3> QED  BY <3>6 DEF back, there, z
  <2> QED  BY <2>11, <2>12
<1> QED  BY <1>5, <1>6

\* What it pays of its base is no more than the base it works with.
LEMMA ObricBelowBase ==
  ASSUME NEW pool \in ParsedPools, pool.kind = "obric", pool.a # pool.b, NEW amounts, NEW fees,
         Looked(amounts, fees), Quote(pool, amounts, fees, pool.a, 1) # Err, NEW x \in Nat
  PROVE  Quote(pool, amounts, fees, pool.b, x) <= PmmBase(pool, amounts[pool.va])
<1> DEFINE reserve == amounts[pool.va]
           k     == PmmProduct(pool)
           base  == PmmBase(pool, reserve)
           other == k \div base
           out   == Quote(pool, amounts, fees, pool.b, x)
           n     == PmmNet(pool, x)
<1>1. ObricAnswers(pool, amounts, fees)
  BY ObricAnswered
<1>2. k \in Nat /\ base \in Nat \ {0}
  BY <1>1 DEF ObricAnswers
<1>3. CASE x = 0
  <2>1. out = 0
    BY <1>1, <1>3 DEF ObricAnswers
  <2> HIDE DEF out, base
  <2>2. out <= base
    BY <1>2, <2>1
  <2> QED  BY <2>2 DEF out, base
<1>4. CASE x # 0
  <2>1. n \in Nat /\ out = ObricForm(pool, reserve, n, FALSE)
    <3>1. (pool.b = pool.a) = FALSE /\ x \in Nat \ {0}
      BY <1>4
    <3> HIDE DEF reserve, n, out
    <3> QED  BY <1>1, <3>1 DEF ObricAnswers, reserve, n, out
  <2>2. out = IF other + n = 0 THEN 0 ELSE NonNegative(base - k \div (other + n))
    BY <2>1 DEF ObricForm
  <2> HIDE DEF k, base, n, out
  <2>3. other \in Nat
    BY <1>2, Quotient
  <2> HIDE DEF other
  <2>4. ASSUME other + n # 0 PROVE NonNegative(base - k \div (other + n)) <= base
    <3>1. other + n \in Nat \ {0}
      BY <2>1, <2>3, <2>4
    <3> DEFINE p == k \div (other + n)
    <3>2. p \in Nat
      BY <1>2, <3>1, Quotient
    <3> HIDE DEF p
    <3>3. NonNegative(base - p) <= base
      BY <1>2, <3>2, NonNegativeIs
    <3> QED  BY <3>3 DEF p
  <2>5. out <= base
    BY <1>2, <2>2, <2>4
  <2> QED  BY <2>5 DEF out, base
<1> QED  BY <1>3, <1>4

\* What the parsers made is quoted by its reserves or its price, unless it is a DLMM or an Obric pool.
LEMMA ParsedIsQuoted ==
  ASSUME NEW pool \in ParsedPools, pool.kind \notin {"dlmm", "obric"}, pool.a # pool.b, NEW amounts, NEW fees,
         Looked(amounts, fees)
  PROVE  QuotedPool(pool, amounts, fees)
<1>1. pool.kind \in {"amm_v4", "cpmm", "bonkswap", "whirlpool", "clmm", "lifinity"}
  BY ParsedFields
<1>2. pool.kind \in {"amm_v4", "cpmm"} /\ Known(pool, amounts) => amounts[pool.va] \in Nat /\ amounts[pool.vb] \in Nat
  BY DEF Known, Looked
<1>3. pool.kind = "clmm" /\ pool.name \in DOMAIN fees => fees[pool.name] \in Nat
  BY DEF Looked
<1>4. pool.kind \in {"whirlpool", "clmm"} => pool.root.n \in Nat /\ pool.root.d \in Nat
  BY ParsedFields, RatioFields
<1>5. pool.kind = "lifinity" => pool.price.n \in Nat /\ pool.price.d \in Nat
  BY ParsedFields, RatioFields
<1>6. pool.kind = "whirlpool" => pool.fee \in Nat
  <2>1. FeeUnit \in Nat
    BY QuoterAssumption
  <2>2. pool.kind = "whirlpool" => pool.fee \in 0..FeeUnit
    BY ParsedFields
  <2> QED  BY <2>1, <2>2
<1>7. /\ pool.kind = "bonkswap" => pool.rx \in Nat /\ pool.ry \in Nat
      /\ pool.kind \in {"amm_v4", "bonkswap", "lifinity"} => pool.fee \in Nat /\ pool.unit \in Nat \ {0}
  BY ParsedFields
<1> QED  BY <1>1, <1>2, <1>3, <1>4, <1>5, <1>6, <1>7 DEF QuotedPool

\* A fixed price, there and back.
LEMMA WorthBack ==
  ASSUME NEW x \in Nat, NEW there, NEW back, NEW p, p.n \in Nat, p.d \in Nat, NEW q, q.n = p.d, q.d = p.n,
         there # Err, Worth(there, x, p), Worth(back, there, q)
  PROVE  back <= x
<1> DEFINE n == p.n
           d == p.d
<1>1. there \in Nat /\ there * d <= x * n /\ (x = 0 => there = 0) /\ (x > 0 => n > 0)
  BY DEF Worth
<1>2. CASE back = Err
  BY <1>2 DEF Err
<1>3. CASE back # Err
  <2>1. back \in Nat /\ back * n <= there * d /\ (there = 0 => back = 0)
    BY <1>3 DEF Worth
  <2>2. n \in Nat /\ d \in Nat
    OBVIOUS
  <2> HIDE DEF n, d
  <2>3. CASE x = 0
    BY <1>1, <2>1, <2>3
  <2>4. CASE x > 0
    <3>1. back * n \in Nat /\ there * d \in Nat /\ x * n \in Nat /\ n \in Nat \ {0}
      BY <1>1, <2>1, <2>2, <2>4, Products
    <3>2. back * n <= x * n
      BY <1>1, <2>1, <3>1
    <3> QED  BY <2>1, <3>1, <3>2, ScaleDown
  <2> QED  BY <2>3, <2>4
<1> QED  BY <1>2, <1>3

\* The price of a DLMM pool, seen from the mint that comes in.
BinSeen(pool, mint) == Towards(BinPrice(pool.step, pool.id), mint = pool.a)

\* A DLMM pool that answers one unit answers at the price of its bin.
LEMMA DlmmQuoted ==
  ASSUME NEW pool \in ParsedPools, pool.kind = "dlmm", pool.a # pool.b, NEW amounts, NEW fees,
         Looked(amounts, fees), Quote(pool, amounts, fees, pool.a, 1) # Err,
         NEW mint \in {pool.a, pool.b}, NEW x \in Nat
  PROVE  /\ Quote(pool, amounts, fees, mint, x) = AtPrice(x, BinSeen(pool, mint), DlmmFee(pool), DlmmUnit)
         /\ Quote(pool, amounts, fees, mint, x) \in Nat
         /\ BinSeen(pool, mint).n \in Nat /\ BinSeen(pool, mint).d \in Nat
         /\ DlmmFee(pool) \in Nat /\ DlmmUnit \in Nat \ {0}
<1> DEFINE forward == mint = pool.a
           out == Quote(pool, amounts, fees, mint, x)
<1>1. out \in Nat
  BY QuotesBothWays DEF Answers
<1>2. out = DlmmPoolQuote(pool, forward, x)
  BY DEF Quote
<1>3. forward \in BOOLEAN /\ DlmmUnit \in Nat \ {0}
  BY QuoterAssumption
<1>4. BinSeen(pool, mint) = Towards(BinPrice(pool.step, pool.id), forward)
  BY DEF BinSeen
<1> HIDE DEF forward, out
<1>5. DlmmPoolQuote(pool, forward, x) # Err
  BY <1>1, <1>2 DEF Err
<1>6. out = AtPrice(x, Towards(BinPrice(pool.step, pool.id), forward), DlmmFee(pool), DlmmUnit)
  BY <1>2, <1>3, <1>5, DlmmByPrice
<1>7. /\ Towards(BinPrice(pool.step, pool.id), forward).n \in Nat
      /\ Towards(BinPrice(pool.step, pool.id), forward).d \in Nat /\ DlmmFee(pool) \in Nat
  BY <1>3, BinTypes
<1> QED  BY <1>1, <1>3, <1>4, <1>6, <1>7 DEF out

\* A bin pays back no more than was put in.
LEMMA DlmmBack ==
  ASSUME NEW pool \in ParsedPools, pool.kind = "dlmm", pool.a # pool.b, NEW amounts, NEW fees,
         Looked(amounts, fees), Quote(pool, amounts, fees, pool.a, 1) # Err, NEW x \in Nat
  PROVE  Quote(pool, amounts, fees, pool.b, Quote(pool, amounts, fees, pool.a, x)) <= x
<1> DEFINE p     == BinSeen(pool, pool.a)
           q     == BinSeen(pool, pool.b)
           there == Quote(pool, amounts, fees, pool.a, x)
           back  == Quote(pool, amounts, fees, pool.b, there)
           fee   == DlmmFee(pool)
<1>1. pool.a \in {pool.a, pool.b} /\ pool.b \in {pool.a, pool.b}
  OBVIOUS
<1>2. /\ there = AtPrice(x, p, fee, DlmmUnit) /\ there \in Nat
      /\ p.n \in Nat /\ p.d \in Nat /\ fee \in Nat /\ DlmmUnit \in Nat \ {0}
  BY <1>1, DlmmQuoted
<1> HIDE DEF there
<1>3. back = AtPrice(there, q, fee, DlmmUnit) /\ q.n \in Nat /\ q.d \in Nat
  BY <1>1, <1>2, DlmmQuoted
<1>4. q.n = p.d /\ q.d = p.n
  <2>1. (pool.a = pool.a) = TRUE /\ (pool.b = pool.a) = FALSE
    OBVIOUS
  <2>2. p = Towards(BinPrice(pool.step, pool.id), TRUE) /\ q = Towards(BinPrice(pool.step, pool.id), FALSE)
    BY <2>1 DEF BinSeen
  <2> QED  BY <2>2, FlippedPrice
<1> HIDE DEF p, q, fee, back
<1>5. Worth(there, x, p) /\ Worth(back, there, q)
  BY <1>2, <1>3, AtPriceSound
<1>6. there # Err
  BY <1>2 DEF Err
<1>7. back <= x
  BY <1>2, <1>3, <1>4, <1>5, <1>6, WorthBack
<1> QED  BY <1>7 DEF there, back

\* No pool of any venue pays back more than was put in.
THEOREM NoVenuePaysItsReturn ==
  ASSUME NEW pool \in ParsedPools, pool.a # pool.b, NEW amounts, NEW fees, Looked(amounts, fees),
         Quote(pool, amounts, fees, pool.a, 1) # Err, NEW x \in Nat
  PROVE  LET y == Quote(pool, amounts, fees, pool.a, x) IN
         Quote(pool, amounts, fees, pool.b, IF pool.kind = "obric" THEN NonNegative(y - 1) ELSE y) <= x
<1>1. CASE pool.kind = "obric"
  BY <1>1, ObricBack
<1>2. CASE pool.kind = "dlmm"
  BY <1>2, DlmmBack
<1>3. CASE pool.kind \notin {"dlmm", "obric"}
  <2>1. QuotedPool(pool, amounts, fees)
    BY <1>3, ParsedIsQuoted
  <2>2. Quote(pool, amounts, fees, pool.a, x) # Err
    BY QuotesBothWays DEF Answers, Err
  <2> QED  BY <1>3, <2>1, <2>2, NoGainThereAndBack
<1> QED  BY <1>1, <1>2, <1>3

\* A larger input never pays less, at any venue.
THEOREM MoreInMoreOutAnywhere ==
  ASSUME NEW pool \in ParsedPools, pool.a # pool.b, NEW amounts, NEW fees, Looked(amounts, fees),
         Quote(pool, amounts, fees, pool.a, 1) # Err, NEW mint \in {pool.a, pool.b},
         NEW x \in Nat, NEW y \in Nat, x <= y
  PROVE  Quote(pool, amounts, fees, mint, x) <= Quote(pool, amounts, fees, mint, y)
<1> DEFINE less == Quote(pool, amounts, fees, mint, x)
           more == Quote(pool, amounts, fees, mint, y)
           forward == mint = pool.a
<1>1. less \in Nat /\ more \in Nat
  BY QuotesBothWays DEF Answers
<1>2. CASE pool.kind = "obric"
  <2>1. ObricAnswers(pool, amounts, fees)
    BY <1>2, ObricAnswered
  <2>2. CASE x = 0
    <3>1. less = 0
      BY <2>1, <2>2 DEF ObricAnswers
    <3> HIDE DEF less, more
    <3>2. less <= more
      BY <1>1, <3>1
    <3> QED  BY <3>2 DEF less, more
  <2>3. CASE x # 0
    <3> DEFINE n == PmmNet(pool, x)
               m == PmmNet(pool, y)
               reserve == amounts[pool.va]
    <3>1. x \in Nat \ {0} /\ y \in Nat \ {0} /\ forward \in BOOLEAN
      BY <2>3
    <3>2. /\ n \in Nat /\ m \in Nat
          /\ PmmProduct(pool) \in Nat /\ PmmBase(pool, reserve) \in Nat \ {0}
          /\ less = ObricForm(pool, reserve, n, forward) /\ more = ObricForm(pool, reserve, m, forward)
      <4> HIDE DEF n, m, reserve, forward, less, more
      <4> QED  BY <2>1, <3>1 DEF ObricAnswers, n, m, reserve, forward, less, more
    <3>3. pool.fee < FeeUnit
      <4>1. PmmQuote(1, pool, reserve, TRUE) # Err
        <5>1. Quote(pool, amounts, fees, pool.a, 1) = ObricQuote(pool, amounts, TRUE, 1)
          BY <1>2 DEF Quote
        <5>2. Known(pool, amounts)
          BY <2>1 DEF ObricAnswers
        <5> QED  BY <5>1, <5>2, Zenon DEF ObricQuote
      <4>2. 1 \in Nat \ {0} /\ TRUE \in BOOLEAN /\ reserve \in Nat
        BY <2>1 DEF ObricAnswers
      <4> HIDE DEF reserve
      <4> QED  BY <1>2, <4>1, <4>2, PmmFacts
    <3>4. n <= m
      BY <1>2, <3>3, NetGrows
    <3> HIDE DEF n, m, reserve, forward, less, more
    <3>5. less <= more
      BY <3>1, <3>2, <3>4, FormGrows
    <3> QED  BY <3>5 DEF less, more
  <2> QED  BY <2>2, <2>3
<1>3. CASE pool.kind = "dlmm"
  <2> DEFINE price == BinSeen(pool, mint)
             fee   == DlmmFee(pool)
  <2>1. /\ less = AtPrice(x, price, fee, DlmmUnit) /\ more = AtPrice(y, price, fee, DlmmUnit)
        /\ price.n \in Nat /\ price.d \in Nat /\ fee \in Nat /\ DlmmUnit \in Nat \ {0}
    BY <1>3, DlmmQuoted
  <2> HIDE DEF price, fee, less, more
  <2>2. AtPrice(y, price, fee, DlmmUnit) # Err
    BY <1>1, <2>1 DEF Err
  <2>3. less <= more
    BY <1>1, <2>1, <2>2, AtPriceGrows
  <2> QED  BY <2>3 DEF less, more
<1>4. CASE pool.kind \notin {"dlmm", "obric"}
  <2>1. QuotedPool(pool, amounts, fees)
    BY <1>4, ParsedIsQuoted
  <2>2. Quote(pool, amounts, fees, mint, y) # Err
    BY <1>1 DEF Err
  <2> QED  BY <2>1, <2>2, MoreInMoreOut
<1> QED  BY <1>2, <1>3, <1>4

\* A pool with vaults keeps some of each, unless it has none.
LEMMA VaultsKeepSome ==
  ASSUME NEW pool \in ParsedPools, pool.kind \in {"amm_v4", "cpmm"}, pool.a # pool.b, NEW amounts, NEW fees,
         Looked(amounts, fees), Quote(pool, amounts, fees, pool.a, 1) # Err, NEW x \in Nat
  PROVE  /\ Quote(pool, amounts, fees, pool.a, x) < Max({1, amounts[pool.vb]})
         /\ Quote(pool, amounts, fees, pool.b, x) < Max({1, amounts[pool.va]})
<1>1. Answers(pool, amounts, fees) /\ Known(pool, amounts)
  BY QuotesBothWays
<1>2. amounts[pool.va] \in Nat /\ amounts[pool.vb] \in Nat
  BY <1>1 DEF Known, Looked
<1>3. QuotedPool(pool, amounts, fees)
  BY ParsedIsQuoted
<1>4. /\ Reserves(pool, amounts, pool.a)[2] = amounts[pool.vb]
      /\ Reserves(pool, amounts, pool.b)[2] = amounts[pool.va]
  BY SidesSwap
<1>5. ASSUME NEW mint \in {pool.a, pool.b} 
      PROVE  Quote(pool, amounts, fees, mint, x) < Max({1, Reserves(pool, amounts, mint)[2]})
  <2> DEFINE out == Quote(pool, amounts, fees, mint, x)
             r   == Reserves(pool, amounts, mint)[2]
  <2>1. out \in Nat /\ out # Err /\ r \in Nat
    <3>1. out \in Nat
      BY <1>1 DEF Answers
    <3> HIDE DEF out
    <3> QED  BY <1>2, <1>4, <3>1 DEF Err
  <2>2. Max({1, r}) \in Nat /\ 1 <= Max({1, r}) /\ r <= Max({1, r})
    <3> HIDE DEF r
    <3> QED  BY <2>1, LargerOfTwo
  <2>3. x > 0 => out < r
    BY <1>3, <2>1, ReservesKeepTheirProduct
  <2>4. x = 0 => out = 0
    BY <2>1, QuoteType
  <2> HIDE DEF out, r
  <2> DEFINE m == Max({1, r})
  <2> HIDE DEF m
  <2>5. out < m
    BY <2>1, <2>2, <2>3, <2>4 DEF m
  <2> QED  BY <2>5 DEF out, r, m
<1> QED  BY <1>4, <1>5

\* Inside one tick: no more than its liquidity holds.
LEMMA TickKeeps ==
  ASSUME NEW x \in Nat, NEW liq \in Nat \ {0}, NEW n \in Nat \ {0}, NEW d \in Nat \ {0},
         NEW keep \in Nat, NEW unit \in Nat \ {0}
  PROVE  (liq * x * keep * n * n) \div (d * (liq * unit * d + x * keep * n)) <= (liq * n) \div d
<1> DEFINE moved == x * keep * n
           depth == liq * unit * d
           held  == liq * n
           top   == liq * x * keep * n * n
           under == d * (depth + moved)
<1>1. moved \in Nat /\ depth \in Nat \ {0} /\ held \in Nat
  BY Products
<1>2. top = held * moved
  OBVIOUS
<1> HIDE DEF moved, depth, held, top
<1>3. depth + moved \in Nat \ {0} /\ top \in Nat
  BY <1>1, <1>2, Products
<1> DEFINE all == depth + moved
<1>4. all \in Nat \ {0} /\ moved <= all
  BY <1>1
<1> HIDE DEF all
<1>5. under = d * all /\ under \in Nat \ {0}
  <2>1. under = d * all
    BY DEF all
  <2>2. d * all \in Nat /\ d * all > 0
    BY <1>4, Products
  <2> QED  BY <2>1, <2>2
<1> HIDE DEF under
<1>6. top * d <= held * under
  <2>1. moved * (held * d) <= all * (held * d)
    <3>1. held * d \in Nat
      BY <1>1, Products
    <3> QED  BY <1>1, <1>4, <3>1, ScaleUp
  <2>2. top * d = moved * (held * d) /\ held * under = all * (held * d)
    BY <1>1, <1>2, <1>4, <1>5
  <2> QED  BY <2>1, <2>2
<1>7. top \div under <= held \div d
  BY <1>1, <1>3, <1>5, <1>6, QuotientGrows
<1> QED  BY <1>7 DEF top, under, all, depth, moved, held

\* A quote with price impact is no more than the tick holds, and than it may leave.
LEMMA TickBounded ==
  ASSUME NEW pool, TickPool(pool), pool.root.n > 0, NEW x \in Nat, NEW fee \in 0..FeeUnit, NEW forward \in BOOLEAN
  PROVE  LET root == Towards(pool.root, forward) IN
         /\ SwapQuote(x, pool, fee, forward) <= (pool.liq * root.n) \div root.d
         /\ MovesTooFar(x, pool.liq, root, FeeUnit - fee, FeeUnit, forward) =>
              SwapQuote(x, pool, fee, forward) <= NonNegative(pool.liq * root.n - LeaveUnits * root.d) \div root.d
<1> DEFINE root == Towards(pool.root, forward)
           n == root.n
           d == root.d
           keep == FeeUnit - fee
           liq == pool.liq
           out == SwapQuote(x, pool, fee, forward)
           held == (liq * n) \div d
           most == NonNegative(liq * n - LeaveUnits * d) \div d
<1>1. FeeUnit \in Nat \ {0} /\ LeaveUnits \in Nat
  BY QuoterAssumption
<1>2. keep \in Nat
  BY <1>1
<1>3. \/ n = pool.root.n /\ d = pool.root.d
      \/ n = pool.root.d /\ d = pool.root.n
  BY DEF Towards, Flip
<1>4. n \in Nat \ {0} /\ d \in Nat \ {0} /\ liq \in Nat
  BY <1>3 DEF TickPool
<1>5. held \in Nat /\ most \in Nat /\ most = MostInTick(liq, root)
  <2>1. most = MostInTick(liq, root)
    BY DEF MostInTick
  <2> HIDE DEF n, d, liq
  <2>2. liq * n \in Nat /\ LeaveUnits * d \in Nat
    BY <1>1, <1>4, Products
  <2>3. NonNegative(liq * n - LeaveUnits * d) \in Nat
    BY <2>2, NonNegativeType
  <2>4. held \in Nat /\ most \in Nat
    BY <1>4, <2>2, <2>3, Quotient
  <2> QED  BY <2>1, <2>4
<1>6. CASE x = 0
  <2>1. out = 0
    BY <1>6 DEF SwapQuote
  <2> HIDE DEF out, held, most
  <2>2. out <= held /\ out <= most
    BY <1>5, <2>1
  <2> QED  BY <2>2 DEF out, held, most
<1>7. CASE x > 0 /\ liq = 0
  <2>1. out = Err
    BY <1>7 DEF SwapQuote
  <2> HIDE DEF out, held, most
  <2>2. out <= held /\ out <= most
    BY <1>5, <2>1 DEF Err
  <2> QED  BY <2>2 DEF out, held, most
<1>8. CASE x > 0 /\ liq > 0
  <2> DEFINE tick == SingleTick(x, liq, root, keep, FeeUnit)
             far  == MovesTooFar(x, liq, root, keep, FeeUnit, forward)
  <2>1. liq \in Nat \ {0}
    BY <1>4, <1>8
  <2>2. out = IF far THEN Min({tick, MostInTick(liq, root)}) ELSE tick
    BY <1>8 DEF SwapQuote, TickPool
  <2>3. tick = (liq * x * keep * n * n) \div (d * (liq * FeeUnit * d + x * keep * n))
    BY DEF SingleTick
  <2> HIDE DEF n, d, keep, liq, tick, far, out, root, held, most
  <2>4. tick <= held
    BY <1>1, <1>2, <1>4, <2>1, <2>3, TickKeeps DEF held
  <2>5. tick \in Nat
    BY <1>1, <1>2, <1>4, <2>1, <2>3, TickBelowPrice
  <2>6. far => Min({tick, most}) <= tick /\ Min({tick, most}) <= most /\ Min({tick, most}) \in {tick, most}
    BY <1>5, <2>5, SmallerOf
  <2>7. out <= held /\ (far => out <= most)
    BY <1>5, <2>2, <2>4, <2>5, <2>6
  <2> QED  BY <2>7 DEF out, held, most, far, root, n, d, keep, liq
<1> HIDE DEF out, held, most, root, n, d, keep
<1>9. x = 0 \/ x > 0
  OBVIOUS
<1>10. liq = 0 \/ liq > 0
  BY <1>4
<1> QED  BY <1>6, <1>7, <1>8, <1>9, <1>10

---------------------------------------------------------------------------
\* Two oracles. The amount in the middle, moved by the exponents there and back.
LEMMA ThereAndBackScaled ==
  ASSUME NEW x \in Nat, NEW p \in Nat \ {0}, NEW q \in Nat \ {0}, NEW t \in Nat \ {0}, NEW out \in Nat
  PROVE  /\ out <= ((x * p) \div q) * t => ((out * q) \div p) \div t <= x
         /\ out <= ((x * p) \div q) \div t => ((out * q) \div p) * t <= x
<1> DEFINE mid  == (x * p) \div q
           back == (out * q) \div p
<1>1. /\ x * p \in Nat /\ out * q \in Nat /\ mid \in Nat /\ back \in Nat
      /\ mid * q <= x * p /\ back * p <= out * q
  <2> DEFINE u == x * p
             v == out * q
  <2>1. u \in Nat /\ v \in Nat
    BY Products
  <2> HIDE DEF u, v
  <2>2. u \div q \in Nat /\ v \div p \in Nat /\ (u \div q) * q <= u /\ (v \div p) * p <= v
    BY <2>1, Quotient
  <2> QED  BY <2>1, <2>2 DEF u, v
<1> HIDE DEF mid, back
<1>2. ASSUME out <= mid * t PROVE back \div t <= x
  <2>1. out * q <= (mid * t) * q
    <3>1. mid * t \in Nat
      BY <1>1, Products
    <3> QED  BY <1>2, <3>1, ScaleUp
  <2>2. (mid * q) * t <= (x * p) * t
    <3>1. mid * q \in Nat
      BY <1>1, Products
    <3> QED  BY <1>1, <3>1, ScaleUp
  <2>3. back * p <= (x * t) * p
    <3>1. (mid * t) * q = (mid * q) * t /\ (x * p) * t = (x * t) * p
      BY <1>1
    <3> DEFINE u == back * p
               v == out * q
               w == (mid * q) * t
               z == (x * t) * p
    <3>2. u <= v /\ v <= w /\ w <= z
      BY <1>1, <2>1, <2>2, <3>1
    <3>3. u \in Nat /\ v \in Nat /\ w \in Nat /\ z \in Nat
      <4>1. mid * q \in Nat /\ x * t \in Nat
        BY <1>1, Products
      <4> QED  BY <1>1, <4>1, Products
    <3> HIDE DEF u, v, w, z
    <3>4. u <= z
      BY <3>2, <3>3
    <3> QED  BY <3>4 DEF u, z
  <2>4. x * t \in Nat
    BY Products
  <2>5. back <= x * t
    BY <1>1, <2>3, <2>4, ScaleDown
  <2> QED  BY <1>1, <2>5, QuotientBelow
<1>3. ASSUME out <= mid \div t PROVE back * t <= x
  <2>1. mid \div t \in Nat /\ (mid \div t) * t <= mid
    BY <1>1, Quotient
  <2> DEFINE m == mid \div t
  <2>2. m \in Nat /\ m * t <= mid /\ out <= m
    BY <1>3, <2>1
  <2> HIDE DEF m
  <2>3. out * t <= m * t /\ out * t \in Nat /\ m * t \in Nat
    BY <2>2, ScaleUp, Products
  <2>4. out * t <= mid
    BY <1>1, <2>2, <2>3
  <2>5. (back * p) * t <= (out * q) * t
    <3>1. back * p \in Nat
      BY <1>1, Products
    <3> QED  BY <1>1, <3>1, ScaleUp
  <2>6. (out * t) * q <= mid * q
    BY <1>1, <2>3, <2>4, ScaleUp
  <2>7. (back * t) * p <= x * p
    <3>1. (back * p) * t = (back * t) * p /\ (out * q) * t = (out * t) * q
      BY <1>1
    <3> DEFINE u == (back * t) * p
               v == (out * t) * q
               w == mid * q
               z == x * p
    <3>2. u <= v /\ v <= w /\ w <= z
      BY <1>1, <2>5, <2>6, <3>1
    <3>3. u \in Nat /\ v \in Nat /\ w \in Nat /\ z \in Nat
      <4>1. back * t \in Nat /\ out * t \in Nat
        BY <1>1, Products
      <4> QED  BY <1>1, <4>1, Products
    <3> HIDE DEF u, v, w, z
    <3>4. u <= z
      BY <3>2, <3>3
    <3> QED  BY <3>4 DEF u, z
  <2>8. back * t \in Nat
    BY <1>1, Products
  <2> QED  BY <2>7, <2>8, ScaleDown
<1> QED  BY <1>2, <1>3 DEF mid, back

\* What is left of an amount after the fee.
LEMMA FeeOff ==
  ASSUME NEW s \in Nat, NEW fee \in Nat, fee < FeeUnit
  PROVE  (s * (FeeUnit - fee)) \div FeeUnit \in Nat /\ (s * (FeeUnit - fee)) \div FeeUnit <= s
<1>1. PICK keep \in Nat : FeeUnit - fee = keep /\ keep <= FeeUnit
  BY QuoterAssumption
<1>2. FeeUnit \in Nat \ {0} /\ s * keep \in Nat /\ keep * s <= FeeUnit * s
  BY <1>1, QuoterAssumption, Products, ScaleUp
<1>3. keep * s = s * keep /\ FeeUnit * s = s * FeeUnit
  BY <1>2, Products
<1> DEFINE top == s * keep
<1>4. top \in Nat /\ top <= s * FeeUnit
  BY <1>2, <1>3
<1> HIDE DEF top
<1>5. top \div FeeUnit \in Nat /\ top \div FeeUnit <= s
  BY <1>2, <1>4, Quotient, QuotientBelow
<1> QED  BY <1>1, <1>5 DEF top

\* One side of a quote by oracle, and the scale between two.
OracleSide(f) == f.price \in Nat \ {0} /\ f.exp \in Int /\ f.dec \in Nat
ScaleOf(f, g) == (f.exp + g.dec) - (g.exp + f.dec)

\* A quote by two oracles that trade is an amount, and at most what the prices say.
LEMMA PythForm ==
  ASSUME NEW f, OracleSide(f), NEW g, OracleSide(g), f.trading, g.trading, NEW x \in Nat \ {0},
         NEW fee \in Nat, fee < FeeUnit
  PROVE  LET net == ScaleOf(f, g)
             mid == (x * f.price) \div g.price
             out == PythQuote(x, f, g, fee)
         IN  /\ net \in Int /\ mid \in Nat /\ out \in Nat
             /\ net >= 0 => Power(10, net) \in Nat \ {0} /\ out <= mid * Power(10, net)
             /\ net < 0 => Power(10, -net) \in Nat \ {0} /\ out <= mid \div Power(10, -net)
<1> DEFINE net    == ScaleOf(f, g)
           mid    == (x * f.price) \div g.price
           scaled == IF net >= 0 THEN mid * Power(10, net) ELSE mid \div Power(10, -net)
           out    == PythQuote(x, f, g, fee)
<1>1. net \in Int
  BY DEF OracleSide, ScaleOf
<1>2. mid \in Nat
  <2> DEFINE p == f.price
             q == g.price
             u == x * p
  <2>1. p \in Nat \ {0} /\ q \in Nat \ {0}
    BY DEF OracleSide
  <2> HIDE DEF p, q
  <2>2. u \in Nat
    BY <2>1, Products
  <2> HIDE DEF u
  <2>3. u \div q \in Nat
    BY <2>1, <2>2, Quotient
  <2> QED  BY <2>3 DEF u, p, q
<1>3. out = (scaled * (FeeUnit - fee)) \div FeeUnit
  <2>1. f.trading /\ g.trading /\ f.price > 0 /\ g.price > 0 /\ fee < FeeUnit
    BY DEF OracleSide
  <2> QED  BY <2>1 DEF PythQuote, ScaleOf
<1> HIDE DEF net, mid, out
<1>4. net >= 0 => Power(10, net) \in Nat \ {0}
  <2> SUFFICES ASSUME net >= 0 PROVE Power(10, net) \in Nat \ {0}
    OBVIOUS
  <2>1. net \in Nat /\ 10 \in Nat /\ 10 > 0
    BY <1>1
  <2>2. Power(10, net) \in Nat /\ Power(10, net) > 0
    BY <2>1, PowerType
  <2> QED  BY <2>2
<1>5. net < 0 => Power(10, -net) \in Nat \ {0}
  <2> SUFFICES ASSUME net < 0 PROVE Power(10, -net) \in Nat \ {0}
    OBVIOUS
  <2> DEFINE m == -net
  <2>1. m \in Nat /\ 10 \in Nat /\ 10 > 0
    BY <1>1
  <2> HIDE DEF m
  <2>2. Power(10, m) \in Nat /\ Power(10, m) > 0
    BY <2>1, PowerType
  <2> QED  BY <2>2 DEF m
<1>6. scaled \in Nat
  <2>1. CASE net >= 0
    <3> DEFINE t == Power(10, net)
    <3>1. t \in Nat
      BY <1>4, <2>1
    <3> HIDE DEF t
    <3>2. mid * t \in Nat
      BY <1>2, <3>1, Products
    <3> QED  BY <2>1, <3>2 DEF t
  <2>2. CASE ~(net >= 0)
    <3> DEFINE t == Power(10, -net)
    <3>1. t \in Nat \ {0}
      BY <1>1, <1>5, <2>2
    <3> HIDE DEF t
    <3>2. mid \div t \in Nat
      BY <1>2, <3>1, Quotient
    <3> QED  BY <2>2, <3>2 DEF t
  <2> QED  BY <2>1, <2>2
<1>7. out \in Nat /\ out <= scaled
  <2> HIDE DEF scaled
  <2> QED  BY <1>3, <1>6, FeeOff
<1>8. net >= 0 => out <= mid * Power(10, net)
  BY <1>7
<1>9. net < 0 => out <= mid \div Power(10, -net)
  BY <1>1, <1>7
<1> QED  BY <1>1, <1>2, <1>4, <1>5, <1>7, <1>8, <1>9 DEF net, mid, out

\* A pair of oracles pays back no more than was put in.
LEMMA PythBack ==
  ASSUME NEW f, OracleSide(f), NEW g, OracleSide(g), f.trading, g.trading, NEW x \in Nat \ {0},
         NEW fee \in Nat, fee < FeeUnit
  PROVE  PythQuote(PythQuote(x, f, g, fee), g, f, fee) <= x
<1> DEFINE there == PythQuote(x, f, g, fee)
           back  == PythQuote(there, g, f, fee)
           net   == ScaleOf(f, g)
           p     == f.price
           q     == g.price
           mid   == (x * p) \div q
           over  == (there * q) \div p
<1>1. /\ net \in Int /\ mid \in Nat /\ there \in Nat
      /\ net >= 0 => Power(10, net) \in Nat \ {0} /\ there <= mid * Power(10, net)
      /\ net < 0 => Power(10, -net) \in Nat \ {0} /\ there <= mid \div Power(10, -net)
  BY PythForm
<1>2. p \in Nat \ {0} /\ q \in Nat \ {0}
  BY DEF OracleSide
<1>3. ScaleOf(g, f) = -net /\ (net = 0 => ScaleOf(g, f) = 0)
  BY DEF OracleSide, ScaleOf
<1> HIDE DEF there
<1>4. CASE there = 0
  <2>1. back = 0
    BY <1>4 DEF PythQuote
  <2> HIDE DEF back
  <2>2. back <= x
    BY <2>1
  <2> QED  BY <2>2 DEF back, there
<1>5. CASE there # 0
  <2>1. there \in Nat \ {0}
    BY <1>1, <1>5
  <2>2. /\ ScaleOf(g, f) >= 0 => back <= over * Power(10, ScaleOf(g, f))
        /\ ScaleOf(g, f) < 0 => back <= over \div Power(10, -ScaleOf(g, f))
        /\ over \in Nat /\ back \in Nat
    BY <2>1, PythForm
  <2> HIDE DEF back, net, p, q
  <2>3. CASE net > 0
    <3> DEFINE t == Power(10, net)
    <3>1. t \in Nat \ {0} /\ there <= mid * t
      BY <1>1, <2>3
    <3>2. -net < 0 /\ -(-net) = net
      BY <1>1, <2>3
    <3>3. back <= over \div t
      BY <1>3, <2>2, <3>2
    <3> HIDE DEF t
    <3>4. over \div t <= x /\ over \div t \in Nat
      BY <1>1, <1>2, <2>2, <3>1, ThereAndBackScaled, Quotient
    <3> DEFINE u == over \div t
    <3>5. back <= u /\ u <= x /\ u \in Nat
      BY <3>3, <3>4
    <3> HIDE DEF u
    <3>6. back <= x
      BY <2>2, <3>5
    <3> QED  BY <3>6 DEF back, there
  <2>4. CASE net = 0
    <3>1. Power(10, net) = 1
      <4>1. net \in Nat /\ 10 \in Nat
        BY <2>4
      <4> QED  BY <2>4, <4>1, PowerType
    <3>2. there <= mid \div 1
      <4>1. there <= mid * 1
        BY <1>1, <2>4, <3>1
      <4>2. mid * 1 = mid /\ mid \div 1 = mid
        <5> HIDE DEF mid
        <5> QED  BY <1>1
      <4> QED  BY <4>1, <4>2
    <3>3. ScaleOf(g, f) = 0 /\ 0 >= 0 /\ Power(10, 0) = 1
      BY <1>3, <2>4, <3>1
    <3>4. back <= over * 1
      BY <2>2, <3>3
    <3>5. over * 1 <= x
      <4>1. 1 \in Nat \ {0}
        OBVIOUS
      <4> QED  BY <1>1, <1>2, <3>2, <4>1, ThereAndBackScaled
    <3> HIDE DEF over
    <3>6. back <= x
      BY <2>2, <3>4, <3>5
    <3> QED  BY <3>6 DEF back, there
  <2>5. CASE net < 0
    <3> DEFINE t == Power(10, -net)
    <3>1. t \in Nat \ {0} /\ there <= mid \div t
      BY <1>1, <2>5
    <3>2. -net >= 0
      BY <1>1, <2>5
    <3>3. back <= over * t
      BY <1>3, <2>2, <3>2
    <3> HIDE DEF t
    <3>4. over * t <= x /\ over * t \in Nat
      <4>1. over * t <= x
        BY <1>1, <1>2, <3>1, ThereAndBackScaled
      <4> HIDE DEF over
      <4> QED  BY <2>2, <3>1, <4>1, Products
    <3> DEFINE u == over * t
    <3>5. back <= u /\ u <= x /\ u \in Nat
      BY <3>3, <3>4
    <3> HIDE DEF u
    <3>6. back <= x
      BY <2>2, <3>5
    <3> QED  BY <3>6 DEF back, there
  <2> QED  BY <1>1, <2>3, <2>4, <2>5
<1> QED  BY <1>4, <1>5

\* What the quotes by oracle promise, for every pair of sides.
LEMMA OraclesHold ==
  ASSUME EvaluationAssumption
  PROVE  OracleHolds
<1> SUFFICES ASSUME NEW f \in OracleSides, NEW g \in OracleSides, NEW x \in QuoteSizes, NEW fee \in {0, 1}
             PROVE  LET there == PythQuote(x, f, g, fee) IN
                    /\ x > 0 => (there = Err <=> ~(f.trading /\ g.trading))
                    /\ there # Err => PythQuote(there, g, f, fee) <= x
  BY DEF OracleHolds
<1> DEFINE there == PythQuote(x, f, g, fee)
           back  == PythQuote(there, g, f, fee)
<1>1. /\ OracleSide(f) /\ OracleSide(g) /\ x \in Nat /\ fee \in Nat /\ fee < FeeUnit
      /\ f.trading \in BOOLEAN /\ g.trading \in BOOLEAN
  <2>1. f \in [price : Nat \ {0}, exp : Int, dec : Nat, trading : BOOLEAN]
        /\ g \in [price : Nat \ {0}, exp : Int, dec : Nat, trading : BOOLEAN]
    BY DEF EvaluationAssumption
  <2>2. FeeUnit \in Nat /\ FeeUnit > 1
    BY QuoterAssumption DEF EvaluationAssumption
  <2>3. x \in Nat
    BY DEF EvaluationAssumption
  <2> QED  BY <2>1, <2>2, <2>3 DEF OracleSide
<1>2. CASE x = 0
  <2>1. there = 0
    BY <1>2 DEF PythQuote
  <2>2. back = 0
    BY <2>1 DEF PythQuote
  <2> HIDE DEF there, back
  <2>3. ~(x > 0) /\ back <= x
    BY <1>2, <2>2
  <2> QED  BY <2>3 DEF there, back
<1>3. CASE x > 0 /\ f.trading /\ g.trading
  <2>1. x \in Nat \ {0}
    BY <1>1, <1>3
  <2>2. there \in Nat
    BY <1>1, <1>3, <2>1, PythForm
  <2>3. back <= x
    BY <1>1, <1>3, <2>1, PythBack
  <2>4. there # Err
    BY <2>2 DEF Err
  <2> QED  BY <1>3, <2>3, <2>4
<1>4. CASE x > 0 /\ ~(f.trading /\ g.trading)
  <2>1. there = Err
    BY <1>4 DEF PythQuote
  <2> QED  BY <1>4, <2>1
<1>5. x = 0 \/ x > 0
  BY <1>1
<1> QED  BY <1>2, <1>3, <1>4, <1>5

\* What the quotes of a pool of the store promise.
LEMMA PoolQuotesHold ==
  ASSUME EvaluationAssumption, StoreTyped, NEW p \in DOMAIN store, store[p].a # store[p].b
  PROVE  QuoteHolds(p)
<1> DEFINE pool == store[p]
           Out(mint, x) == Quote(pool, vaults, clmmFees, mint, x)
<1>1. pool \in ParsedPools /\ pool.a # pool.b /\ Looked(vaults, clmmFees)
  BY DEF StoreTyped
<1>2. QuoteSizes \subseteq Nat
  BY DEF EvaluationAssumption
<1> SUFFICES ASSUME Out(pool.a, 1) # Err, NEW x \in QuoteSizes
             PROVE  /\ Out(pool.b, IF pool.kind = "obric" THEN NonNegative(Out(pool.a, x) - 1) ELSE Out(pool.a, x)) <= x
                    /\ \A y \in QuoteSizes, m \in {pool.a, pool.b} : x < y => Out(m, x) <= Out(m, y)
                    /\ pool.kind \in {"amm_v4", "cpmm"} =>
                         Out(pool.a, x) < Max({1, vaults[pool.vb]}) /\ Out(pool.b, x) < Max({1, vaults[pool.va]})
                    /\ pool.kind = "obric" => Out(pool.b, x) <= PmmBase(pool, vaults[pool.va])
                    /\ pool.kind \in {"whirlpool", "clmm"} =>
                         \A forward \in BOOLEAN :
                           LET root == Towards(pool.root, forward) IN
                           /\ SwapQuote(x, pool, pool.fee, forward)
                                <= AtPrice(x, Square(root), pool.fee, FeeUnit)
                           /\ x <= MaxSafeInput(pool, forward) =>
                                ~MovesTooFar(x, pool.liq, root, FeeUnit - pool.fee, FeeUnit, forward)
                           /\ SwapQuote(x, pool, pool.fee, forward) <= (pool.liq * root.n) \div root.d
                           /\ MovesTooFar(x, pool.liq, root, FeeUnit - pool.fee, FeeUnit, forward) =>
                                SwapQuote(x, pool, pool.fee, forward)
                                  <= NonNegative(pool.liq * root.n - LeaveUnits * root.d) \div root.d
  BY DEF QuoteHolds
<1>3. x \in Nat
  BY <1>2
<1> HIDE DEF pool
<1>4. Out(pool.b, IF pool.kind = "obric" THEN NonNegative(Out(pool.a, x) - 1) ELSE Out(pool.a, x)) <= x
  BY <1>1, <1>3, NoVenuePaysItsReturn
<1>5. ASSUME NEW y \in QuoteSizes, NEW m \in {pool.a, pool.b}, x < y PROVE Out(m, x) <= Out(m, y)
  <2>1. y \in Nat /\ x <= y
    BY <1>2, <1>3, <1>5
  <2> QED  BY <1>1, <1>3, <2>1, MoreInMoreOutAnywhere
<1>6. ASSUME pool.kind \in {"amm_v4", "cpmm"}
      PROVE  Out(pool.a, x) < Max({1, vaults[pool.vb]}) /\ Out(pool.b, x) < Max({1, vaults[pool.va]})
  BY <1>1, <1>3, <1>6, VaultsKeepSome
<1>7. ASSUME pool.kind = "obric" PROVE Out(pool.b, x) <= PmmBase(pool, vaults[pool.va])
  BY <1>1, <1>3, <1>7, ObricBelowBase
<1>8. ASSUME pool.kind \in {"whirlpool", "clmm"}, NEW forward \in BOOLEAN
      PROVE  LET root == Towards(pool.root, forward) IN
             /\ SwapQuote(x, pool, pool.fee, forward) <= AtPrice(x, Square(root), pool.fee, FeeUnit)
             /\ x <= MaxSafeInput(pool, forward) =>
                  ~MovesTooFar(x, pool.liq, root, FeeUnit - pool.fee, FeeUnit, forward)
             /\ SwapQuote(x, pool, pool.fee, forward) <= (pool.liq * root.n) \div root.d
             /\ MovesTooFar(x, pool.liq, root, FeeUnit - pool.fee, FeeUnit, forward) =>
                  SwapQuote(x, pool, pool.fee, forward)
                    <= NonNegative(pool.liq * root.n - LeaveUnits * root.d) \div root.d
  <2>1. pool.root \in Ratios /\ pool.liq \in Nat /\ pool.fee \in 0..FeeUnit
    BY <1>1, <1>8, ParsedFields
  <2>2. TickPool(pool)
    BY <2>1, RatioFields DEF TickPool
  <2>3. pool.root.n > 0
    <3>1. QuotedPool(pool, vaults, clmmFees)
      BY <1>1, <1>8, ParsedIsQuoted
    <3>2. Out(pool.a, 1) = AtPrice(1, Towards(Square(pool.root), TRUE), FeeOf(pool, clmmFees), FeeUnit)
      <4>1. CASE pool.kind = "whirlpool"
        BY <4>1 DEF Quote, WhirlpoolQuote, FeeOf
      <4>2. CASE pool.kind = "clmm"
        BY <4>2 DEF Quote, ClmmQuote, FeeOf
      <4> QED  BY <1>8, <4>1, <4>2
    <3>3. Square(pool.root).n # 0
      <4>1. Towards(Square(pool.root), TRUE) = Square(pool.root)
        BY FlippedPrice
      <4>2. AtPrice(1, Square(pool.root), FeeOf(pool, clmmFees), FeeUnit) # Err
        BY <3>2, <4>1
      <4> QED  BY <4>2 DEF AtPrice
    <3>4. pool.root.n * pool.root.n # 0 /\ pool.root.n \in Nat
      BY <2>1, <3>3, RatioFields DEF Square
    <3> DEFINE n == pool.root.n
    <3>5. n \in Nat /\ n * n # 0
      BY <3>4
    <3> HIDE DEF n
    <3>6. n > 0
      BY <3>5
    <3> QED  BY <3>6 DEF n
  <2> HIDE DEF Out
  <2> QED  BY <1>3, <2>1, <2>2, <2>3, ImpactOnlyLowers, SafeInputStays, TickBounded
<1> HIDE DEF Out
<1> QED  BY <1>4, <1>5, <1>6, <1>7, <1>8

\* The mints of every pool the scout knows differ.
LEMMA MintsDiffer ==
  ASSUME StreamInv, NEW p \in DOMAIN store
  PROVE  store[p].a # store[p].b
<1>1. PICK s \in Range(market[p]) : store[p] = s.data /\ p \in DOMAIN market
  BY DEF StreamInv, StoreKnown
<1>2. s \in PoolStates
  BY <1>1, WorldMarket DEF StreamInv, MarketFacts
<1> QED  BY <1>1, <1>2 DEF PoolStates

---------------------------------------------------------------------------
\* The scout's task keeps its invariant: the stream's updates lead from what the
\* scout knows to what the chain says, the jobs are routes of the store, and the
\* counters add up.
LEMMA EvAlways == EvSpec => []EvInv
<1>1. EvInit => EvInv
  BY EvStarts
<1>2. EvInv /\ [EvNext]_evVars => EvInv'
  BY EvSteps
<1> QED  BY <1>1, <1>2, PTL DEF EvSpec

\* The walk finds the cycles, all and no others: what is traded begins and ends
\* at USDC, meets hop by hop, and enters no pool twice.
THEOREM WalkFindsCycles ==
  ASSUME NEW pools
  PROVE  Routes(pools) = {r \in UNION {[1..n -> Hops(pools)] : n \in 2..MaxHops} : IsCycle(r)}
BY EvaluationAssumption, RoutesAreCycles

\* At every step no pool the scout knows, and no pair of oracles, can be traded
\* against itself at a gain, larger inputs pay no less, nobody pays out more than
\* there is, and price impact only lowers a quote.
THEOREM QuotesAlwaysHold == EvSpec => []((\A p \in DOMAIN store : QuoteHolds(p)) /\ OracleHolds)
<1>1. ASSUME EvInv PROVE (\A p \in DOMAIN store : QuoteHolds(p)) /\ OracleHolds
  <2>1. StreamInv /\ StoreTyped
    BY <1>1, StoreIsTyped DEF EvInv
  <2>2. \A p \in DOMAIN store : QuoteHolds(p)
    BY <2>1, EvaluationAssumption, MintsDiffer, PoolQuotesHold
  <2> QED  BY <2>2, EvaluationAssumption, OraclesHold
<1>2. EvInv => (\A p \in DOMAIN store : QuoteHolds(p)) /\ OracleHolds
  BY <1>1
<1> QED  BY <1>2, EvAlways, PTL

\* What the scout's main task promises, from the update to the dispatch.
THEOREM TaskIsSound == EvSpec => []EvaluationSound
<1>1. ASSUME EvInv PROVE EvaluationSound
  <2>1. StreamInv /\ StoreTyped /\ EachCounted /\ RecordsPay
    BY <1>1, StoreIsTyped DEF EvInv
  <2>2. CaughtUp
    BY <2>1, KnowsChain
  <2>3. \A p \in DOMAIN store : QuoteHolds(p)
    BY <2>1, EvaluationAssumption, MintsDiffer, PoolQuotesHold
  <2>4. QuotesHold
    BY <2>3, EvaluationAssumption, OraclesHold, RoutesAreCycles DEF QuotesHold
  <2> QED  BY <2>1, <2>2, <2>4 DEF EvaluationSound
<1>2. EvInv => EvaluationSound
  BY <1>1
<1> QED  BY <1>2, EvAlways, PTL
=============================================================================
