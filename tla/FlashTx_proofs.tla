--------------------------- MODULE FlashTx_proofs ---------------------------
(***************************************************************************)
(* Whatever a caller is asked to lay out, the two halves of its loan find  *)
(* each other: for a route of any length through any tokens, any set-up    *)
(* and clean-up of Jupiter's, any banks and reserves, any amounts, and     *)
(* whatever the market does. First the layouts, whose length each caller   *)
(* computes by hand; then the programs that run them.                      *)
(***************************************************************************)
EXTENDS FlashTx, FiniteSetTheorems, SequenceTheorems, TLAPS

\* The instructions by what they do: nothing, or open a token account; move money
\* from one token to another; look after the reserves and the debt.
Quiet    == [op : {"limit", "price", "tip", "pyth", "cleanup"}]
Opening  == [op : {"ata", "setup"}, token : FlashMints]
Trades   == [op : {"swap"}, from : FlashMints, to : FlashMints, in : Nat, min : Int]
Repays   == [op : {"liquidate"}, repay : {LoanMint}, coll : FlashMints, amount : {Loan}]
Seizes   == [op : {"seize"}, asset : {Coll}, liab : {LoanMint}, amount : {Loan},
             tail : Seq(FlashMints), theirs : Nat, ours : Nat]
Withdraws == [op : {"withdraw"}, bank : {Coll}]
Refreshes == [op : {"refresh"}, reserve : FlashMints]
Obligations == [op : {"obligation"}, reserves : SUBSET FlashMints]
Prefixed == Quiet \cup Opening
Between  == Quiet \cup Opening \cup Trades \cup Repays \cup Seizes \cup Withdraws \cup Refreshes
              \cup Obligations
Lends    == [op : {"start"}, end : Nat] \cup [op : {"borrow", "repay", "deposit"}, bank : {LoanMint}, amount : {Loan}]
              \cup [op : {"end"}, banks : SUBSET FlashMints]
              \cup [op : {"sborrow"}, amount : {Loan}] \cup [op : {"srepay"}, amount : {Loan}, index : Nat]
Ixs == Between \cup Lends

\* Which loan is taken.
Lender(j) == IF j.caller \in {"native", "solend"} THEN j.lender ELSE "marginfi"

\* What comes before the middle C of a transaction and what after, when A comes
\* before the loan: here the index is the place of the other half.
OpenOf(j, A, C) ==
  CASE Lender(j) = "marginfi" -> MarginFiPre(Len(A) + Len(C) + 3)
    [] Lender(j) = "solend"   -> SolendPre
    [] OTHER                  -> <<>>
PlanPost(pairs) == <<Deposit(LoanMint, Loan), EndFlash(pairs)>>
CloseOf(j, pairs) ==
  CASE j.caller = "marginfi"  -> PlanPost(pairs)
    [] Lender(j) = "marginfi" /\ j.caller # "marginfi" -> MarginFiPost
    [] Lender(j) = "solend"   -> SolendPost(IF j.caller = "native" THEN 6 ELSE 3)
    [] OTHER                  -> <<>>

\* T is A followed by B.
Joined(T, A, B, S) ==
  /\ T \in Seq(S) /\ Len(A) \in Nat /\ Len(B) \in Nat /\ Len(T) = Len(A) + Len(B)
  /\ \A i \in 1..Len(A) : T[i] = A[i]
  /\ \A i \in 1..Len(B) : T[Len(A) + i] = B[i]
  /\ \A i \in 1..Len(T) : i > Len(A) => i - Len(A) \in 1..Len(B) /\ T[i] = B[i - Len(A)]

LEMMA Cat ==
  ASSUME NEW S, NEW A \in Seq(S), NEW B \in Seq(S)
  PROVE  Joined(A \o B, A, B, S)
<1>1. Len(A) \in Nat /\ Len(B) \in Nat
  BY LenProperties
<1>2. ASSUME NEW i \in 1..Len(B)
      PROVE  (A \o B)[Len(A) + i] = B[i]
  <2>1. Len(A) + i \in 1 .. Len(A) + Len(B) /\ ~(Len(A) + i <= Len(A)) /\ (Len(A) + i) - Len(A) = i
    BY <1>1
  <2>2. (A \o B)[Len(A) + i] = B[(Len(A) + i) - Len(A)]
    BY <2>1, ConcatProperties, Zenon
  <2> QED  BY <2>1, <2>2
<1>3. ASSUME NEW i \in 1..Len(A)
      PROVE  (A \o B)[i] = A[i]
  <2>1. i \in 1 .. Len(A) + Len(B) /\ i <= Len(A)
    BY <1>1
  <2> QED  BY <2>1, ConcatProperties, Zenon
<1>4. A \o B \in Seq(S) /\ Len(A \o B) = Len(A) + Len(B)
  BY ConcatProperties, Zenon
<1>5. ASSUME NEW i \in 1..Len(A \o B), i > Len(A)
      PROVE  i - Len(A) \in 1..Len(B) /\ (A \o B)[i] = B[i - Len(A)]
  <2>1. i \in 1 .. Len(A) + Len(B) /\ ~(i <= Len(A))
    BY <1>1, <1>4, <1>5
  <2>2. (A \o B)[i] = B[i - Len(A)]
    BY <2>1, ConcatProperties, Zenon
  <2> QED  BY <2>1, <2>2, <1>1
<1> QED  BY <1>1, <1>2, <1>3, <1>4, <1>5 DEF Joined

LEMMA Instructions ==
  /\ [op |-> "limit"] \in Quiet /\ [op |-> "price"] \in Quiet /\ [op |-> "tip"] \in Quiet
  /\ [op |-> "pyth"] \in Quiet /\ [op |-> "cleanup"] \in Quiet
  /\ \A t \in FlashMints : /\ [op |-> "ata", token |-> t] \in Opening
                          /\ [op |-> "setup", token |-> t] \in Opening
                          /\ [op |-> "refresh", reserve |-> t] \in Refreshes
  /\ \A f, t \in FlashMints, in \in Nat, min \in Int : Swap(f, t, in, min) \in Trades
  BY DEF Quiet, Opening, Refreshes, Trades, Swap

LEMMA Repeated ==
  ASSUME NEW S, NEW ix \in S, NEW n \in Nat
  PROVE  /\ Repeat(ix, n) \in Seq(S) /\ Len(Repeat(ix, n)) = n
         /\ \A i \in 1..n : Repeat(ix, n)[i] = ix
  BY DEF Repeat

LEMMA One ==
  ASSUME NEW S, NEW ix \in S
  PROVE  <<ix>> \in Seq(S) /\ Len(<<ix>>) = 1 /\ <<ix>>[1] = ix
  OBVIOUS

LEMMA JupiterIs ==
  ASSUME NEW shape \in Shapes, NEW f \in FlashMints, NEW t \in FlashMints, NEW in \in Nat, NEW min \in Int
  PROVE  LET J == Jupiter(shape, f, t, in, min)
         IN  /\ J \in Seq(Between) /\ shape.setup \in Nat /\ shape.cleanup \in Nat
             /\ Len(J) = shape.setup + 1 + shape.cleanup
             /\ J[shape.setup + 1] = Swap(f, t, in, min)
             /\ \A i \in 1..Len(J) : i # shape.setup + 1 => J[i] \in Prefixed
<1> DEFINE s == [op |-> "setup", token |-> t]
           c == [op |-> "cleanup"]
           A == Repeat(s, shape.setup)
           B == <<Swap(f, t, in, min)>>
           C == Repeat(c, shape.cleanup)
           U == A \o B
           J == U \o C
<1>1. shape.setup \in Nat /\ shape.cleanup \in Nat
  BY DEF Shapes
<1>2. /\ s \in Between /\ c \in Between /\ Swap(f, t, in, min) \in Between
      /\ s \in Prefixed /\ c \in Prefixed
  BY Instructions DEF Between, Prefixed
<1> HIDE DEF s, c
<1>3. /\ A \in Seq(Between) /\ Len(A) = shape.setup
      /\ \A i \in 1..Len(A) : A[i] = s
  BY <1>1, <1>2, Repeated
<1>4. /\ C \in Seq(Between) /\ Len(C) = shape.cleanup
      /\ \A i \in 1..Len(C) : C[i] = c
  BY <1>1, <1>2, Repeated
<1>5. B \in Seq(Between) /\ Len(B) = 1 /\ B[1] = Swap(f, t, in, min)
  BY <1>2, One
<1> HIDE DEF A, B, C
<1>6. Joined(U, A, B, Between)
  BY <1>3, <1>5, Cat
<1> HIDE DEF U
<1>7. U \in Seq(Between)
  BY <1>6 DEF Joined
<1>71. Joined(J, U, C, Between)
  BY <1>4, <1>7, Cat
<1>8. J = Jupiter(shape, f, t, in, min)
  BY DEF U, A, B, C, s, c, Jupiter
<1> HIDE DEF J
<1>9. J \in Seq(Between) /\ Len(J) = shape.setup + 1 + shape.cleanup
  BY <1>1, <1>3, <1>4, <1>5, <1>6, <1>71 DEF Joined
<1>10. /\ shape.setup + 1 \in 1..Len(U) /\ 1 \in 1..Len(B) /\ Len(A) = shape.setup
       /\ Len(U) = shape.setup + 1
  BY <1>1, <1>3, <1>5, <1>6 DEF Joined
<1>11. J[shape.setup + 1] = Swap(f, t, in, min)
  BY <1>10, <1>5, <1>6, <1>71 DEF Joined
<1>12. ASSUME NEW i \in 1..Len(J), i # shape.setup + 1
       PROVE  J[i] \in Prefixed
  <2>1. CASE i <= shape.setup
    <3>1. i \in 1..Len(A) /\ i \in 1..Len(U)
      BY <2>1, <1>1, <1>10
    <3>2. J[i] = A[i]
      BY <3>1, <1>6, <1>71 DEF Joined
    <3> QED  BY <3>1, <3>2, <1>2, <1>3
  <2>2. CASE i > shape.setup + 1
    <3>1. i - Len(U) \in 1..Len(C) /\ J[i] = C[i - Len(U)]
      BY <2>2, <1>10, <1>71 DEF Joined
    <3> QED  BY <3>1, <1>2, <1>4
  <2> QED  BY <2>1, <2>2, <1>1, <1>12
<1> QED  BY <1>1, <1>8, <1>9, <1>11, <1>12

---------------------------------------------------------------------------
\* Instructions that take tokens from the wallet, and what they put in.
Money(ix)  == ix.op \in {"swap", "liquidate", "withdraw"}
Source(ix) == IF ix.op = "swap" THEN ix.from ELSE LoanMint
Need(ix)   == CASE ix.op = "swap" -> ix.in [] ix.op = "liquidate" -> Loan [] OTHER -> 0
Sink(ix)   == CASE ix.op = "swap" -> ix.to [] ix.op = "liquidate" -> ix.coll [] OTHER -> Coll
Gives(ix)  == IF ix.op = "swap" THEN ix.in + 1 ELSE Seized(Loan)

\* The first spends the loan, and each what the one before it gives.
NoneIn(C, i, k) == \A n \in i..k : ~Money(C[n])
Chained(j, C) ==
  \A k \in 1..Len(C) : Money(C[k]) =>
    /\ Lender(j) # "none" /\ NoneIn(C, 1, k - 1) => Source(C[k]) = LoanMint /\ Need(C[k]) <= Loan
    /\ \A i \in 1..k - 1 : Money(C[i]) /\ NoneIn(C, i + 1, k - 1) =>
         Source(C[k]) = Sink(C[i]) /\ Need(C[k]) <= Gives(C[i])

\* Everything an obligation names was refreshed, where the caller knew it all.
Known(j) == j.caller = "kamino" => Range(j.others) \subseteq j.cached \cup {LoanMint, j.coll}
RefreshedIn(C, k, r) == \E i \in 1..k - 1 : C[i] \in Refreshes /\ C[i].reserve = r
Refreshed(j, C) ==
  \A k \in 1..Len(C) : C[k].op = "obligation" /\ Known(j) =>
     \A r \in C[k].reserves : RefreshedIn(C, k, r)

\* Only the MarginFi plan seizes from an account, and withdraws what it seized.
SeizedHere(j, C) ==
  \A k \in 1..Len(C) :
    /\ C[k].op \in {"seize", "withdraw"} => j.caller = "marginfi"
    /\ C[k].op = "seize" => C[k].theirs + C[k].ours = 2 * Len(C[k].tail)
    /\ C[k].op = "withdraw" => k > 1 /\ C[k - 1].op = "seize"

MiddleOk(j, C) == C \in Seq(Between) /\ Chained(j, C) /\ Refreshed(j, C) /\ SeizedHere(j, C)

\* T is A, B, C, D and E in a row.
Five(T, A, B, C, D, E) ==
  /\ T \in Seq(Ixs) /\ Len(A) \in Nat /\ Len(B) \in Nat /\ Len(C) \in Nat /\ Len(D) \in Nat /\ Len(E) \in Nat
  /\ Len(T) = Len(A) + Len(B) + Len(C) + Len(D) + Len(E)
  /\ \A i \in 1..Len(A) : T[i] = A[i]
  /\ \A i \in 1..Len(B) : T[Len(A) + i] = B[i]
  /\ \A i \in 1..Len(C) : T[Len(A) + Len(B) + i] = C[i]
  /\ \A i \in 1..Len(D) : T[Len(A) + Len(B) + Len(C) + i] = D[i]
  /\ \A i \in 1..Len(E) : T[Len(A) + Len(B) + Len(C) + Len(D) + i] = E[i]

LEMMA CatFive ==
  ASSUME NEW A \in Seq(Ixs), NEW B \in Seq(Ixs), NEW C \in Seq(Ixs), NEW D \in Seq(Ixs), NEW E \in Seq(Ixs)
  PROVE  Five((((A \o B) \o C) \o D) \o E, A, B, C, D, E)
<1> DEFINE U == A \o B
           V == U \o C
           W == V \o D
           T == W \o E
<1>1. Joined(U, A, B, Ixs)
  BY Cat
<1> HIDE DEF U
<1>2. U \in Seq(Ixs)
  BY <1>1 DEF Joined
<1>3. Joined(V, U, C, Ixs)
  BY <1>2, Cat
<1> HIDE DEF V
<1>4. V \in Seq(Ixs)
  BY <1>3 DEF Joined
<1>5. Joined(W, V, D, Ixs)
  BY <1>4, Cat
<1> HIDE DEF W
<1>6. W \in Seq(Ixs)
  BY <1>5 DEF Joined
<1>7. Joined(T, W, E, Ixs)
  BY <1>6, Cat
<1> HIDE DEF T
<1>8. /\ Len(A) \in Nat /\ Len(B) \in Nat /\ Len(C) \in Nat /\ Len(D) \in Nat /\ Len(E) \in Nat
      /\ Len(U) = Len(A) + Len(B) /\ Len(V) = Len(U) + Len(C) /\ Len(W) = Len(V) + Len(D)
      /\ Len(T) = Len(W) + Len(E) /\ T \in Seq(Ixs)
  BY <1>1, <1>3, <1>5, <1>7 DEF Joined
<1>9. /\ \A i \in 1..Len(W) : T[i] = W[i]
      /\ \A i \in 1..Len(V) : W[i] = V[i]
      /\ \A i \in 1..Len(U) : V[i] = U[i]
  BY <1>3, <1>5, <1>7 DEF Joined
<1>10. \A i \in 1..Len(A) : T[i] = A[i]
  BY <1>1, <1>8, <1>9 DEF Joined
<1>11. ASSUME NEW i \in 1..Len(B) PROVE T[Len(A) + i] = B[i]
  <2>1. Len(A) + i \in 1..Len(U) /\ Len(A) + i \in 1..Len(V) /\ Len(A) + i \in 1..Len(W)
    BY <1>8
  <2> QED  BY <2>1, <1>1, <1>9 DEF Joined
<1>12. ASSUME NEW i \in 1..Len(C) PROVE T[Len(A) + Len(B) + i] = C[i]
  <2>1. /\ Len(A) + Len(B) + i = Len(U) + i
        /\ Len(U) + i \in 1..Len(V) /\ Len(U) + i \in 1..Len(W)
    BY <1>8
  <2> QED  BY <2>1, <1>3, <1>9 DEF Joined
<1>13. \A i \in 1..Len(D) : T[Len(A) + Len(B) + Len(C) + i] = D[i]
  BY <1>5, <1>8, <1>9 DEF Joined
<1>14. \A i \in 1..Len(E) : T[Len(A) + Len(B) + Len(C) + Len(D) + i] = E[i]
  BY <1>7, <1>8 DEF Joined
<1>15. Five(T, A, B, C, D, E)
  BY <1>8, <1>10, <1>11, <1>12, <1>13, <1>14 DEF Five
<1> QED  BY <1>15 DEF T, W, V, U

\* The layout of a transaction: the index in the loan's data is the place of its
\* other half, where there is room for one between.
Shaped(j, T, A, C, E) ==
  /\ A \in Seq(Prefixed) /\ E \in Seq(Quiet) /\ MiddleOk(j, C)
  /\ \E pairs \in SUBSET FlashMints : Five(T, A, OpenOf(j, A, C), C, CloseOf(j, pairs), E)
  /\ Lender(j) = "solend" =>
       Len(A) = IF j.caller = "native" THEN 4 + Len(Interim(j.path)) ELSE IF j.price THEN 2 ELSE 1

LEMMA PartsAreIxs ==
  ASSUME NEW j \in FlashJobs, NEW A \in Seq(Prefixed), NEW C \in Seq(Between), NEW E \in Seq(Quiet),
         NEW pairs \in SUBSET FlashMints
  PROVE  /\ A \in Seq(Ixs) /\ C \in Seq(Ixs) /\ E \in Seq(Ixs)
         /\ OpenOf(j, A, C) \in Seq(Ixs) /\ CloseOf(j, pairs) \in Seq(Ixs)
<1>1. Quiet \subseteq Ixs /\ Prefixed \subseteq Ixs /\ Between \subseteq Ixs /\ Refreshes \subseteq Ixs
  BY DEF Ixs, Between, Prefixed
<1>2. A \in Seq(Ixs) /\ C \in Seq(Ixs) /\ E \in Seq(Ixs)
  BY <1>1, SeqMonotonic
<1>3. Len(A) + Len(C) + 3 \in Nat
  OBVIOUS
<1>4. \A n \in Nat : StartFlash(n) \in Ixs
  BY DEF StartFlash, Ixs, Lends
<1>5. /\ Borrow(LoanMint, Loan) \in Ixs /\ Repay(LoanMint, Loan) \in Ixs /\ Deposit(LoanMint, Loan) \in Ixs
  BY DEF Borrow, Repay, Deposit, Ixs, Lends
<1>6. \A b \in SUBSET FlashMints : EndFlash(b) \in Ixs
  BY DEF EndFlash, Ixs, Lends
<1>7. [op |-> "refresh", reserve |-> LoanMint] \in Ixs /\ [op |-> "sborrow", amount |-> Loan] \in Ixs
  BY Instructions, FlashAssumption, <1>1 DEF Ixs, Lends
<1>8. \A n \in Nat : [op |-> "srepay", amount |-> Loan, index |-> n] \in Ixs
  BY DEF Ixs, Lends
<1>9. {LoanMint} \in SUBSET FlashMints
  BY FlashAssumption
<1>10. /\ MarginFiPre(Len(A) + Len(C) + 3) \in Seq(Ixs) /\ SolendPre \in Seq(Ixs) /\ <<>> \in Seq(Ixs)
  BY <1>3, <1>4, <1>5, <1>7 DEF MarginFiPre, SolendPre
<1>11. /\ PlanPost(pairs) \in Seq(Ixs) /\ MarginFiPost \in Seq(Ixs)
       /\ \A n \in Nat : SolendPost(n) \in Seq(Ixs)
  BY <1>5, <1>6, <1>8, <1>9 DEF MarginFiPost, SolendPost, PlanPost
<1>12. OpenOf(j, A, C) \in Seq(Ixs)
  BY <1>10 DEF OpenOf
<1>13. CloseOf(j, pairs) \in Seq(Ixs)
  BY <1>11 DEF CloseOf
<1> QED  BY <1>2, <1>12, <1>13

\* It is enough to know the parts.
LEMMA ShapedWhen ==
  ASSUME NEW j \in FlashJobs, NEW A \in Seq(Prefixed), NEW C, MiddleOk(j, C), NEW E \in Seq(Quiet),
         NEW pairs \in SUBSET FlashMints,
         LayOut(j) = (((A \o OpenOf(j, A, C)) \o C) \o CloseOf(j, pairs)) \o E,
         Lender(j) = "solend" =>
           Len(A) = IF j.caller = "native" THEN 4 + Len(Interim(j.path)) ELSE IF j.price THEN 2 ELSE 1
  PROVE  Shaped(j, LayOut(j), A, C, E)
<1>1. C \in Seq(Between)
  BY DEF MiddleOk
<1>2. Five(LayOut(j), A, OpenOf(j, A, C), C, CloseOf(j, pairs), E)
  BY <1>1, PartsAreIxs, CatFive
<1> QED  BY <1>2 DEF Shaped

---------------------------------------------------------------------------
\* The options each caller has.
LEMMA Options ==
  ASSUME NEW j \in FlashJobs
  PROVE  /\ j.caller \in {"native", "jupiter", "solend", "marginfi", "kamino", "sandwich"}
         /\ j.caller = "native" => /\ j.lender \in {"marginfi", "solend"} /\ j.path \in Seq(FlashMints)
                                   /\ Len(j.path) < Loan
         /\ j.caller = "jupiter" => j.first \in Shapes /\ j.second \in Shapes
         /\ j.caller = "solend" => /\ j.lender \in {"marginfi", "solend", "none"} /\ j.shape \in Shapes
                                   /\ {j.price, j.ctoken, j.pyth, j.autoSwap, j.tip} \subseteq BOOLEAN
         /\ j.caller = "marginfi" => /\ {j.tip, j.pyth} \subseteq BOOLEAN /\ j.shape \in Shapes
                                     /\ j.ours \in Seq(FlashMints) /\ j.theirs \in Seq(FlashMints)
         /\ j.caller = "kamino" => /\ j.coll \in {LoanMint, Coll} /\ j.others \in Seq(FlashMints)
                                   /\ j.cached \in SUBSET FlashMints /\ j.shape \in Shapes
  BY FlashAssumption DEF FlashOptions

\* The tokens of a set, in some order, once each.
LEMMA InSomeOrder ==
  ASSUME NEW S, NEW f \in Seq(S), NEW X \in SUBSET S, X \subseteq Range(f)
  PROVE  /\ SetToSeq(X) \in Seq(S) /\ Len(SetToSeq(X)) \in Nat
         /\ \A r \in X : \E i \in 1..Len(SetToSeq(X)) : SetToSeq(X)[i] = r
<1>1. f \in [1..Len(f) -> S] /\ Len(f) \in Nat
  BY LenProperties
<1>2. IsFiniteSet(1..Len(f))
  BY <1>1, FS_Interval
<1>3. IsFiniteSet(Range(f))
  <2>1. f \in Surjection(1..Len(f), Range(f))
    BY <1>1 DEF Surjection, Range
  <2> QED  BY <1>2, <2>1, FS_Surjection
<1>4. IsFiniteSet(X)
  BY <1>3, FS_Subset
<1>5. Cardinality(X) \in Nat /\ ExistsBijection(1..Cardinality(X), X)
  BY <1>4, FS_CardinalityType
<1>6. PICK b \in Bijection(1..Cardinality(X), X) : TRUE
  BY <1>5 DEF ExistsBijection
<1>7. b \in [1..Cardinality(X) -> X] /\ IsInjective(b)
  BY <1>6 DEF Bijection, Injection, IsInjective
<1> DEFINE q == SetToSeq(X)
<1>8. q \in [1..Cardinality(X) -> X] /\ IsInjective(q)
  BY <1>7 DEF SetToSeq
<1>9. q \in Seq(S) /\ Len(q) = Cardinality(X)
  BY <1>5, <1>8
<1>10. q \in Surjection(1..Cardinality(X), X)
  <2>1. q \in Injection(1..Cardinality(X), X)
    BY <1>8 DEF Injection, IsInjective
  <2>2. /\ IsFiniteSet(1..Cardinality(X)) /\ Cardinality(1..Cardinality(X)) = Cardinality(X)
    BY <1>5, FS_Interval
  <2> HIDE DEF q
  <2> QED  BY <1>4, <2>1, <2>2, FS_Injection
<1>11. \A r \in X : \E i \in 1..Cardinality(X) : q[i] = r
  BY <1>10 DEF Surjection
<1> HIDE DEF q
<1> QED  BY <1>5, <1>9, <1>11 DEF q

LEMMA SeizedNat == Seized(Loan) \in Nat /\ (Seized(Loan) * 9) \div 10 \in Nat
                   /\ (Seized(Loan) * 9) \div 10 <= Seized(Loan)
<1>1. Loan \in Nat /\ BonusPct \in Nat
  BY FlashAssumption
<1>2. Loan * (100 + BonusPct) \in Nat
  BY <1>1
<1> DEFINE n == Loan * (100 + BonusPct)
<1> HIDE DEF n
<1>3. n \in Nat
  BY <1>2 DEF n
<1>4. n \div 100 \in Nat /\ ((n \div 100) * 9) \div 10 \in Nat /\ ((n \div 100) * 9) \div 10 <= n \div 100
  BY <1>3
<1> QED  BY <1>4 DEF n, Seized

\* How every transaction starts.
LEMMA Starts ==
  /\ Budget \in Seq(Prefixed) /\ Len(Budget) = 2 /\ Tip \in Seq(Prefixed) /\ Len(Tip) = 1
  /\ Budget \o Tip \in Seq(Prefixed) /\ Len(Budget \o Tip) = 3
  /\ \A t \in FlashMints :
       /\ Ata(t) \in Seq(Prefixed) /\ Len(Ata(t)) = 1
       /\ (Budget \o Tip) \o Ata(t) \in Seq(Prefixed) /\ Len((Budget \o Tip) \o Ata(t)) = 4
<1>1. Budget \in Seq(Prefixed) /\ Len(Budget) = 2 /\ Tip \in Seq(Prefixed) /\ Len(Tip) = 1
  BY Instructions DEF Budget, Tip, Prefixed
<1>2. Budget \o Tip \in Seq(Prefixed) /\ Len(Budget \o Tip) = 3
  <2>1. Joined(Budget \o Tip, Budget, Tip, Prefixed)
    BY <1>1, Cat
  <2> QED  BY <1>1, <2>1 DEF Joined
<1>3. ASSUME NEW t \in FlashMints
      PROVE  /\ Ata(t) \in Seq(Prefixed) /\ Len(Ata(t)) = 1
             /\ (Budget \o Tip) \o Ata(t) \in Seq(Prefixed) /\ Len((Budget \o Tip) \o Ata(t)) = 4
  <2>1. Ata(t) \in Seq(Prefixed) /\ Len(Ata(t)) = 1
    <3>1. [op |-> "ata", token |-> t] \in Prefixed
      BY Instructions DEF Prefixed
    <3> QED  BY <3>1, One DEF Ata
  <2>2. Joined((Budget \o Tip) \o Ata(t), Budget \o Tip, Ata(t), Prefixed)
    BY <1>2, <2>1, Cat
  <2> QED  BY <1>2, <2>1, <2>2 DEF Joined
<1> QED  BY <1>1, <1>2, <1>3

\* Native routes.
LEMMA NativeShaped ==
  ASSUME NEW j \in FlashJobs, j.caller = "native"
  PROVE  \E A, C, E : Shaped(j, LayOut(j), A, C, E)
<1>1. j.lender \in {"marginfi", "solend"} /\ j.path \in Seq(FlashMints) /\ Len(j.path) < Loan /\ Len(j.path) \in Nat
  BY Options, LenProperties
<1> DEFINE I == Interim(j.path)
           atas == [i \in 1..Len(I) |-> Ata(I[i])[1]]
           A == Budget \o Tip \o Ata(LoanMint) \o atas
           C == Legs(j.path)
           E == <<>>
<1>2. I \in Seq(FlashMints) /\ Len(I) \in Nat
  <2>1. Range(j.path) \ {LoanMint} \in SUBSET FlashMints
    BY <1>1 DEF Range
  <2> QED  BY <1>1, <2>1, InSomeOrder DEF Interim
<1>3. A \in Seq(Prefixed) /\ Len(A) = 4 + Len(I)
  <2>1. atas \in Seq(Prefixed) /\ Len(atas) = Len(I)
    <3> HIDE DEF I
    <3>1. ASSUME NEW i \in 1..Len(I) PROVE Ata(I[i])[1] \in Prefixed
      <4>1. I[i] \in FlashMints
        BY <1>2, ElementOfSeq
      <4> QED  BY <4>1, Instructions DEF Ata, Prefixed
    <3> QED  BY <1>2, <3>1
  <2>3. /\ Budget \o Tip \o Ata(LoanMint) \in Seq(Prefixed)
        /\ Len(Budget \o Tip \o Ata(LoanMint)) = 4
    BY Starts, FlashAssumption
  <2> HIDE DEF atas
  <2>4. Joined((Budget \o Tip \o Ata(LoanMint)) \o atas, Budget \o Tip \o Ata(LoanMint), atas, Prefixed)
    BY <2>1, <2>3, Cat
  <2> QED  BY <2>1, <2>3, <2>4 DEF Joined
<1>4. /\ C \in Seq(Trades) /\ Len(C) = Len(j.path) + 1
      /\ \A i \in 1..Len(j.path) + 1 :
           /\ C[i].op = "swap"
           /\ C[i].from = IF i = 1 THEN LoanMint ELSE j.path[i - 1]
           /\ i <= Len(j.path) => C[i].to = j.path[i]
           /\ C[i].in = IF i = 1 THEN Loan ELSE Loan - (i - 1)
  <2>1. ASSUME NEW i \in 1..Len(j.path) + 1
        PROVE  C[i] \in Trades
    <3>1. /\ (IF i = 1 THEN LoanMint ELSE j.path[i - 1]) \in FlashMints
          /\ (IF i = Len(j.path) + 1 THEN LoanMint ELSE j.path[i]) \in FlashMints
          /\ (IF i = 1 THEN Loan ELSE Loan - (i - 1)) \in Nat /\ Loan - i \in Int
      BY <1>1, FlashAssumption
    <3> QED  BY <3>1, Instructions DEF Legs
  <2>2. C \in Seq(Trades) /\ Len(C) = Len(j.path) + 1
    <3>1. C = [i \in 1..Len(j.path) + 1 |-> C[i]]
      BY DEF Legs
    <3> HIDE DEF C
    <3>2. C \in [1..Len(j.path) + 1 -> Trades]
      BY <2>1, <3>1
    <3> QED  BY <1>1, <3>2
  <2>3. \A i \in 1..Len(j.path) + 1 :
           /\ C[i].op = "swap"
           /\ C[i].from = IF i = 1 THEN LoanMint ELSE j.path[i - 1]
           /\ i <= Len(j.path) => C[i].to = j.path[i]
           /\ C[i].in = IF i = 1 THEN Loan ELSE Loan - (i - 1)
    BY <1>1 DEF Legs, Swap
  <2> QED  BY <2>2, <2>3
<1>5. MiddleOk(j, C)
  <2> HIDE DEF C
  <2>1. C \in Seq(Between)
    BY <1>4, SeqMonotonic DEF Between
  <2>2. Chained(j, C)
    <3> SUFFICES ASSUME NEW k \in 1..Len(C)
                 PROVE  /\ NoneIn(C, 1, k - 1) => Source(C[k]) = LoanMint /\ Need(C[k]) <= Loan
                        /\ \A i \in 1..k - 1 : NoneIn(C, i + 1, k - 1) =>
                             Source(C[k]) = Sink(C[i]) /\ Need(C[k]) <= Gives(C[i])
      BY DEF Chained
    <3>1. \A i \in 1..Len(C) : Money(C[i]) /\ Source(C[i]) = C[i].from /\ Need(C[i]) = C[i].in
                               /\ Sink(C[i]) = C[i].to /\ Gives(C[i]) = C[i].in + 1
      BY <1>4 DEF Money, Source, Need, Sink, Gives
    <3>2. NoneIn(C, 1, k - 1) => k = 1
      BY <3>1, <1>1, <1>4 DEF NoneIn
    <3>3. \A i \in 1..k - 1 : NoneIn(C, i + 1, k - 1) => k = i + 1
      BY <3>1, <1>1, <1>4 DEF NoneIn
    <3>4. k = 1 => Source(C[k]) = LoanMint /\ Need(C[k]) <= Loan
      BY <3>1, <1>1, <1>4, FlashAssumption
    <3>5. ASSUME NEW i \in 1..k - 1, k = i + 1
          PROVE  Source(C[k]) = Sink(C[i]) /\ Need(C[k]) <= Gives(C[i])
      <4>1. /\ i \in 1..Len(j.path) /\ i \in 1..Len(C) /\ k \in 1..Len(j.path) + 1 /\ k # 1 /\ k - 1 = i
            /\ i \in 1..Len(j.path) + 1 /\ i <= Len(j.path) /\ i \in Int
        BY <3>5, <1>1, <1>4
      <4>2. C[k].from = j.path[i] /\ C[i].to = j.path[i]
        BY <4>1, <1>4
      <4>3. C[k].in = Loan - i /\ C[i].in = IF i = 1 THEN Loan ELSE Loan - (i - 1)
        BY <4>1, <1>4
      <4>4. Loan \in Nat
        BY FlashAssumption
      <4> QED  BY <4>1, <4>2, <4>3, <4>4, <3>1
    <3> QED  BY <3>2, <3>3, <3>4, <3>5
  <2>3. Refreshed(j, C) /\ SeizedHere(j, C)
    BY <1>4 DEF Refreshed, SeizedHere
  <2> QED  BY <2>1, <2>2, <2>3 DEF MiddleOk
<1>6. E \in Seq(Quiet) /\ {} \in SUBSET FlashMints
  OBVIOUS
<1>7. LayOut(j) = (((A \o OpenOf(j, A, C)) \o C) \o CloseOf(j, {})) \o E
  <2>1. NativeEnd(j.path) = Len(A) + Len(C) + 3
    <3> HIDE DEF A
    <3>1. Len(A) = 4 + Len(I) /\ Len(I) \in Nat /\ Len(C) \in Nat
      BY <1>1, <1>2, <1>3, <1>4
    <3> QED  BY <3>1 DEF NativeEnd
  <2>2. OpenOf(j, A, C) = IF j.lender = "solend" THEN SolendPre ELSE MarginFiPre(NativeEnd(j.path))
    BY <1>1, <2>1 DEF OpenOf, Lender
  <2>3. CloseOf(j, {}) = IF j.lender = "solend" THEN SolendPost(6) ELSE MarginFiPost
    BY <1>1 DEF CloseOf, Lender
  <2>4. LayOut(j) = ((A \o OpenOf(j, A, C)) \o C) \o CloseOf(j, {})
    BY <2>2, <2>3 DEF LayOut, NativeTx
  <2>5. C \in Seq(Between)
    BY <1>5 DEF MiddleOk
  <2> HIDE DEF A, C
  <2>6. Five((((A \o OpenOf(j, A, C)) \o C) \o CloseOf(j, {})) \o E, A, OpenOf(j, A, C), C, CloseOf(j, {}), E)
    BY <1>3, <1>6, <2>5, PartsAreIxs, CatFive
  <2>7. ((A \o OpenOf(j, A, C)) \o C) \o CloseOf(j, {}) \in Seq(Ixs)
    BY <1>3, <1>6, <2>5, PartsAreIxs, ConcatProperties
  <2> QED  BY <2>4, <2>7, ConcatEmptySeq
<1>8. Lender(j) = "solend" => Len(A) = 4 + Len(Interim(j.path))
  BY <1>3
<1> HIDE DEF A, C, E
<1> QED  BY <1>3, <1>5, <1>6, <1>7, <1>8, ShapedWhen

\* Chains of one and of two.
LEMMA OneMoney ==
  ASSUME NEW j, NEW C \in Seq(Between), NEW p \in 1..Len(C),
         \A k \in 1..Len(C) : k # p => ~Money(C[k]),
         Lender(j) # "none" => Source(C[p]) = LoanMint /\ Need(C[p]) <= Loan
  PROVE  Chained(j, C)
<1>1. Len(C) \in Nat
  BY LenProperties
<1>2. \A k \in 1..Len(C) : \A i \in 1..k - 1 : Money(C[k]) => ~Money(C[i])
  BY <1>1
<1> QED  BY <1>1, <1>2 DEF Chained

LEMMA TwoMoney ==
  ASSUME NEW j, NEW C \in Seq(Between), NEW p \in 1..Len(C), NEW q \in 1..Len(C), p < q,
         \A k \in 1..Len(C) : k # p /\ k # q => ~Money(C[k]), Money(C[p]),
         Lender(j) # "none" => Source(C[p]) = LoanMint /\ Need(C[p]) <= Loan,
         Source(C[q]) = Sink(C[p]), Need(C[q]) <= Gives(C[p])
  PROVE  Chained(j, C)
<1>1. Len(C) \in Nat
  BY LenProperties
<1> SUFFICES ASSUME NEW k \in 1..Len(C), Money(C[k])
             PROVE  /\ Lender(j) # "none" /\ NoneIn(C, 1, k - 1) => Source(C[k]) = LoanMint /\ Need(C[k]) <= Loan
                    /\ \A i \in 1..k - 1 : Money(C[i]) /\ NoneIn(C, i + 1, k - 1) =>
                         Source(C[k]) = Sink(C[i]) /\ Need(C[k]) <= Gives(C[i])
  BY DEF Chained
<1>2. CASE k = p
  <2>1. \A i \in 1..k - 1 : ~Money(C[i])
    BY <1>1, <1>2
  <2> QED  BY <1>2, <2>1
<1>3. CASE k = q
  <2>1. p \in 1..k - 1
    BY <1>1, <1>3
  <2>2. ~NoneIn(C, 1, k - 1)
    BY <2>1 DEF NoneIn
  <2>3. \A i \in 1..k - 1 : Money(C[i]) => i = p
    BY <1>1, <1>3
  <2> QED  BY <1>3, <2>2, <2>3
<1> QED  BY <1>2, <1>3

\* Nothing follows a layout that ends with the loan.
LEMMA ShapedNoTail ==
  ASSUME NEW j \in FlashJobs, NEW A \in Seq(Prefixed), NEW C, MiddleOk(j, C),
         NEW pairs \in SUBSET FlashMints,
         LayOut(j) = ((A \o OpenOf(j, A, C)) \o C) \o CloseOf(j, pairs),
         Lender(j) = "solend" =>
           Len(A) = IF j.caller = "native" THEN 4 + Len(Interim(j.path)) ELSE IF j.price THEN 2 ELSE 1
  PROVE  \E E : Shaped(j, LayOut(j), A, C, E)
<1>1. C \in Seq(Between) /\ <<>> \in Seq(Quiet)
  BY DEF MiddleOk
<1>2. LayOut(j) \in Seq(Ixs)
  <2>1. /\ A \in Seq(Ixs) /\ C \in Seq(Ixs)
        /\ OpenOf(j, A, C) \in Seq(Ixs) /\ CloseOf(j, pairs) \in Seq(Ixs)
    BY <1>1, PartsAreIxs
  <2> QED  BY <2>1, ConcatProperties
<1>3. LayOut(j) = (((A \o OpenOf(j, A, C)) \o C) \o CloseOf(j, pairs)) \o <<>>
  BY <1>2, ConcatEmptySeq
<1> QED  BY <1>1, <1>3, ShapedWhen

\* Jupiter's two swaps.
LEMMA JupiterShaped ==
  ASSUME NEW j \in FlashJobs, j.caller = "jupiter"
  PROVE  \E A, C, E : Shaped(j, LayOut(j), A, C, E)
<1>1. j.first \in Shapes /\ j.second \in Shapes
  BY Options
<1>2. Loan \in Nat /\ Loan - 1 \in Nat /\ Loan - 1 \in Int /\ LoanMint \in FlashMints /\ Coll \in FlashMints
  BY FlashAssumption
<1> DEFINE A == ((Budget \o Tip) \o Ata(LoanMint)) \o Ata(Coll)
           J == Jupiter(j.first, LoanMint, Coll, Loan, Loan - 1)
           K == Jupiter(j.second, Coll, LoanMint, Loan - 1, Loan - 1)
           C == J \o K
           p == j.first.setup + 1
           q == Len(J) + (j.second.setup + 1)
<1>3. A \in Seq(Prefixed) /\ Len(A) = 5
  <2>1. Joined(A, (Budget \o Tip) \o Ata(LoanMint), Ata(Coll), Prefixed)
    BY <1>2, Starts, Cat
  <2> QED  BY <1>2, <2>1, Starts DEF Joined
<1>4. /\ J \in Seq(Between) /\ j.first.setup \in Nat /\ j.first.cleanup \in Nat
      /\ Len(J) = p + j.first.cleanup
      /\ J[p] = Swap(LoanMint, Coll, Loan, Loan - 1)
      /\ \A i \in 1..Len(J) : i # p => J[i] \in Prefixed
  BY <1>1, <1>2, JupiterIs
<1>5. /\ K \in Seq(Between) /\ j.second.setup \in Nat /\ j.second.cleanup \in Nat
      /\ Len(K) = j.second.setup + 1 + j.second.cleanup
      /\ K[j.second.setup + 1] = Swap(Coll, LoanMint, Loan - 1, Loan - 1)
      /\ \A i \in 1..Len(K) : i # j.second.setup + 1 => K[i] \in Prefixed
  BY <1>1, <1>2, JupiterIs
<1> HIDE DEF A, J, K
<1>6. Joined(C, J, K, Between)
  BY <1>4, <1>5, Cat
<1> HIDE DEF C
<1>7. /\ C \in Seq(Between) /\ p \in 1..Len(C) /\ q \in 1..Len(C) /\ p < q
      /\ C[p] = Swap(LoanMint, Coll, Loan, Loan - 1) /\ C[q] = Swap(Coll, LoanMint, Loan - 1, Loan - 1)
  <2>1. /\ p \in 1..Len(J) /\ j.second.setup + 1 \in 1..Len(K) /\ Len(C) = Len(J) + Len(K)
        /\ Len(J) \in Nat /\ Len(K) \in Nat
    <3>1. Len(C) = Len(J) + Len(K) /\ Len(J) \in Nat /\ Len(K) \in Nat
      BY <1>6 DEF Joined
    <3>2. p \in 1..Len(J)
      BY <1>4
    <3>3. j.second.setup + 1 \in 1..Len(K)
      BY <1>5
    <3> QED  BY <3>1, <3>2, <3>3
  <2>2. C[p] = J[p] /\ C[q] = K[j.second.setup + 1]
    BY <2>1, <1>6 DEF Joined
  <2>3. p \in 1..Len(C) /\ q \in 1..Len(C) /\ p < q
    BY <2>1
  <2> QED  BY <1>4, <1>5, <1>6, <2>2, <2>3 DEF Joined
<1>8. ASSUME NEW k \in 1..Len(C), k # p, k # q PROVE C[k] \in Prefixed
  <2>1. CASE k <= Len(J)
    <3>1. k \in 1..Len(J) /\ C[k] = J[k]
      BY <2>1, <1>6 DEF Joined
    <3> QED  BY <3>1, <1>4, <1>8
  <2>2. CASE k > Len(J)
    <3>1. k - Len(J) \in 1..Len(K) /\ C[k] = K[k - Len(J)]
      BY <2>2, <1>6 DEF Joined
    <3>2. k - Len(J) # j.second.setup + 1
      BY <1>4, <1>5, <1>8
    <3> QED  BY <1>5, <3>1, <3>2
  <2> QED  BY <2>1, <2>2, <1>4
<1>9. MiddleOk(j, C)
  <2> HIDE DEF p, q
  <2>1. \A k \in 1..Len(C) : k # p /\ k # q => ~Money(C[k])
    BY <1>8 DEF Money, Prefixed, Quiet, Opening
  <2>2. /\ Money(C[p]) /\ Source(C[p]) = LoanMint /\ Need(C[p]) = Loan /\ Sink(C[p]) = Coll
        /\ Gives(C[p]) = Loan + 1 /\ Source(C[q]) = Coll /\ Need(C[q]) = Loan - 1
    BY <1>7 DEF Swap, Money, Source, Need, Sink, Gives
  <2>3. Chained(j, C)
    BY <1>2, <1>7, <2>1, <2>2, TwoMoney
  <2>4. \A k \in 1..Len(C) : C[k].op \notin {"obligation", "seize", "withdraw"}
    BY <1>7, <1>8 DEF Swap, Prefixed, Quiet, Opening
  <2> QED  BY <1>7, <2>3, <2>4 DEF MiddleOk, Refreshed, SeizedHere
<1>10. LayOut(j) = ((A \o OpenOf(j, A, C)) \o C) \o CloseOf(j, {})
  <2>1. Lender(j) = "marginfi"
    BY DEF Lender
  <2>2. LayOut(j) = FlashJupiterTx(j)
    BY DEF LayOut
  <2>3. FlashJupiterTx(j) = ((A \o MarginFiPre(Len(A) + 2 + Len(C) + 1)) \o C) \o MarginFiPost
    BY DEF FlashJupiterTx, A, J, K, C
  <2>4. Len(A) + 2 + Len(C) + 1 = Len(A) + Len(C) + 3
    BY <1>3, <1>6 DEF Joined
  <2> QED  BY <2>1, <2>2, <2>3, <2>4 DEF OpenOf, CloseOf
<1>11. {} \in SUBSET FlashMints /\ Lender(j) = "marginfi"
  BY DEF Lender
<1> QED  BY <1>3, <1>9, <1>10, <1>11, ShapedNoTail

\* The sandwich.
LEMMA SandwichShaped ==
  ASSUME NEW j \in FlashJobs, j.caller = "sandwich"
  PROVE  \E A, C, E : Shaped(j, LayOut(j), A, C, E)
<1>2. Loan \in Nat /\ (Loan * 99) \div 100 \in Nat /\ (Loan * 99) \div 100 <= Loan + 1
      /\ LoanMint \in FlashMints /\ Coll \in FlashMints
  BY FlashAssumption
<1> DEFINE A == ((Budget \o Tip) \o Ata(LoanMint)) \o Ata(Coll)
           a == Swap(LoanMint, Coll, Loan, 1)
           b == Swap(Coll, LoanMint, (Loan * 99) \div 100, 1)
           C == <<a, b>>
<1>3. A \in Seq(Prefixed) /\ Len(A) = 5
  <2>1. Joined(A, (Budget \o Tip) \o Ata(LoanMint), Ata(Coll), Prefixed)
    BY <1>2, Starts, Cat
  <2> QED  BY <1>2, <2>1, Starts DEF Joined
<1>4. a \in Trades /\ b \in Trades /\ a \in Between /\ b \in Between
  BY <1>2, Instructions DEF Between
<1>5. /\ Money(a) /\ Source(a) = LoanMint /\ Need(a) = Loan /\ Sink(a) = Coll
      /\ Gives(a) = Loan + 1 /\ Source(b) = Coll /\ Need(b) = (Loan * 99) \div 100
      /\ a.op = "swap" /\ b.op = "swap"
  BY DEF Swap, Money, Source, Need, Sink, Gives
<1> HIDE DEF A, a, b
<1>6. C \in Seq(Between) /\ Len(C) = 2 /\ C[1] = a /\ C[2] = b
  BY <1>4
<1> HIDE DEF C
<1>9. MiddleOk(j, C)
  <2>1. \A k \in 1..Len(C) : k # 1 /\ k # 2 => ~Money(C[k])
    BY <1>6
  <2>3. Chained(j, C)
    <3>1. 1 \in 1..Len(C) /\ 2 \in 1..Len(C) /\ 1 < 2 /\ Need(C[1]) <= Loan /\ Need(C[2]) <= Gives(C[1])
      BY <1>2, <1>5, <1>6
    <3> QED  BY <3>1, <1>5, <1>6, <2>1, TwoMoney
  <2>4. \A k \in 1..Len(C) : C[k].op \notin {"obligation", "seize", "withdraw"}
    BY <1>5, <1>6
  <2> QED  BY <1>6, <2>3, <2>4 DEF MiddleOk, Refreshed, SeizedHere
<1>10. LayOut(j) = ((A \o OpenOf(j, A, C)) \o C) \o CloseOf(j, {})
  <2>1. Lender(j) = "marginfi"
    BY DEF Lender
  <2>2. LayOut(j) = SandwichTx(j)
    BY DEF LayOut
  <2>3. SandwichTx(j) = ((A \o MarginFiPre(10)) \o C) \o MarginFiPost
    BY DEF SandwichTx, A, C, a, b
  <2>4. 10 = Len(A) + Len(C) + 3
    BY <1>3, <1>6
  <2> QED  BY <2>1, <2>2, <2>3, <2>4 DEF OpenOf, CloseOf
<1>11. {} \in SUBSET FlashMints /\ Lender(j) = "marginfi"
  BY DEF Lender
<1> QED  BY <1>3, <1>9, <1>10, <1>11, ShapedNoTail

LEMMA WhenIs ==
  ASSUME NEW S, NEW ix \in S, NEW b \in BOOLEAN
  PROVE  /\ When(b, <<ix>>) \in Seq(S) /\ Len(When(b, <<ix>>)) = IF b THEN 1 ELSE 0
         /\ \A i \in 1..Len(When(b, <<ix>>)) : When(b, <<ix>>)[i] = ix
  BY DEF When

\* The MarginFi plan.
LEMMA MarginFiShaped ==
  ASSUME NEW j \in FlashJobs, j.caller = "marginfi"
  PROVE  \E A, C, E : Shaped(j, LayOut(j), A, C, E)
<1>1. /\ j.tip \in BOOLEAN /\ j.pyth \in BOOLEAN /\ j.shape \in Shapes
      /\ j.ours \in Seq(FlashMints) /\ j.theirs \in Seq(FlashMints)
  BY Options
<1>2. Loan \in Nat /\ Loan \in Int /\ Seized(Loan) \in Nat /\ LoanMint \in FlashMints /\ Coll \in FlashMints
  BY FlashAssumption, SeizedNat
<1> DEFINE tip == When(j.tip, Tip)
           A == Budget \o tip
           W == When(j.pyth, <<[op |-> "pyth"]>>)
           z == LiquidateBanks(Coll, LoanMint, Loan, j.ours, j.theirs)
           w == WithdrawAll(Coll)
           B == <<z, w>>
           J == Jupiter(j.shape, Coll, LoanMint, Seized(Loan), Loan)
           V == W \o B
           C == V \o J
           pairs == Range(j.ours) \cup {Coll, LoanMint}
           su == j.shape.setup
           cu == j.shape.cleanup
           p == Len(W) + 2
           q == p + su + 1
<1>3. A \in Seq(Prefixed) /\ Len(A) \in Nat
  <2>1. tip \in Seq(Prefixed)
    BY <1>1, Starts DEF When
  <2> HIDE DEF tip
  <2>2. Joined(A, Budget, tip, Prefixed)
    BY <2>1, Starts, Cat
  <2> QED  BY <2>2 DEF Joined
<1>4. /\ W \in Seq(Between) /\ Len(W) = (IF j.pyth THEN 1 ELSE 0)
      /\ \A i \in 1..Len(W) : W[i] = [op |-> "pyth"]
  <2>1. [op |-> "pyth"] \in Between
    BY Instructions DEF Between
  <2> QED  BY <1>1, <2>1, WhenIs
<1>5. /\ z \in Between /\ z.op = "seize" /\ z.theirs + z.ours = 2 * Len(z.tail)
  <2>1. Joined(j.ours \o j.theirs, j.ours, j.theirs, FlashMints)
    BY <1>1, Cat
  <2>2. /\ j.ours \o j.theirs \in Seq(FlashMints) /\ Len(j.ours \o j.theirs) = Len(j.ours) + Len(j.theirs)
        /\ Len(j.ours) \in Nat /\ Len(j.theirs) \in Nat
    BY <2>1 DEF Joined
  <2>3. z \in Seizes
    BY <2>2 DEF LiquidateBanks, Seizes
  <2>4. /\ z.op = "seize" /\ z.theirs = 2 * Len(j.theirs) /\ z.ours = 2 * Len(j.ours)
        /\ z.tail = j.ours \o j.theirs
    BY DEF LiquidateBanks
  <2> HIDE DEF z
  <2>5. z.theirs + z.ours = 2 * Len(z.tail)
    <3>1. \A a, b \in Nat : 2 * b + 2 * a = 2 * (a + b)
      OBVIOUS
    <3>2. z.theirs + z.ours = 2 * Len(j.theirs) + 2 * Len(j.ours)
      BY <2>4
    <3>3. 2 * Len(z.tail) = 2 * (Len(j.ours) + Len(j.theirs))
      BY <2>2, <2>4
    <3> QED  BY <2>2, <3>1, <3>2, <3>3
  <2> QED  BY <2>3, <2>4, <2>5 DEF Between
<1>6. w \in Between /\ w.op = "withdraw"
  BY DEF WithdrawAll, Between, Withdraws
<1>7. /\ J \in Seq(Between) /\ su \in Nat /\ cu \in Nat
      /\ Len(J) = su + 1 + cu
      /\ J[su + 1] = Swap(Coll, LoanMint, Seized(Loan), Loan)
      /\ \A i \in 1..Len(J) : i # su + 1 => J[i] \in Prefixed
  BY <1>1, <1>2, JupiterIs
<1>8. B \in Seq(Between) /\ Len(B) = 2 /\ B[1] = z /\ B[2] = w
  BY <1>5, <1>6
<1> HIDE DEF A, W, z, w, J, B, su, cu
<1>9. Joined(V, W, B, Between)
  BY <1>4, <1>8, Cat
<1> HIDE DEF V
<1>10. Joined(C, V, J, Between)
  <2>1. V \in Seq(Between)
    BY <1>9 DEF Joined
  <2> QED  BY <2>1, <1>7, Cat
<1> HIDE DEF C
<1>11. /\ Len(W) \in Nat /\ Len(V) = p /\ Len(C) = p + su + 1 + cu
       /\ C \in Seq(Between)
  <2>1. Len(W) \in Nat /\ Len(V) = Len(W) + Len(B)
    BY <1>9 DEF Joined
  <2>2. C \in Seq(Between) /\ Len(C) = Len(V) + Len(J)
    BY <1>10 DEF Joined
  <2> QED  BY <2>1, <2>2, <1>7, <1>8
<1>12. /\ p - 1 \in 1..Len(C) /\ p \in 1..Len(C) /\ q \in 1..Len(C) /\ p < q /\ p > 1
  BY <1>7, <1>11
<1>13. C[p - 1] = z /\ C[p] = w
  <2>1. p - 1 \in 1..Len(V) /\ p \in 1..Len(V) /\ p - 1 = Len(W) + 1 /\ p = Len(W) + 2
        /\ 1 \in 1..Len(B) /\ 2 \in 1..Len(B)
    BY <1>8, <1>11
  <2>2. V[Len(W) + 1] = B[1] /\ V[Len(W) + 2] = B[2]
    BY <2>1, <1>9 DEF Joined
  <2>3. C[p - 1] = V[p - 1] /\ C[p] = V[p]
    BY <2>1, <1>10 DEF Joined
  <2> QED  BY <2>1, <2>2, <2>3, <1>8
<1>14. C[q] = Swap(Coll, LoanMint, Seized(Loan), Loan)
  <2>1. su + 1 \in 1..Len(J) /\ q = Len(V) + (su + 1)
    BY <1>7, <1>11
  <2> QED  BY <2>1, <1>7, <1>10 DEF Joined
<1>15. ASSUME NEW k \in 1..Len(C), k # p - 1, k # p, k # q PROVE C[k] \in Prefixed
  <2>1. CASE k <= Len(V)
    <3>1. k \in 1..Len(W) /\ k \in 1..Len(V)
      BY <2>1, <1>11, <1>15
    <3>2. C[k] = W[k]
      BY <3>1, <1>9, <1>10 DEF Joined
    <3> QED  BY <3>1, <3>2, <1>4, Instructions DEF Prefixed
  <2>2. CASE k > Len(V)
    <3>1. k - Len(V) \in 1..Len(J) /\ C[k] = J[k - Len(V)]
      BY <2>2, <1>10 DEF Joined
    <3>2. k - Len(V) # su + 1
      BY <1>7, <1>11, <1>15
    <3> QED  BY <1>7, <3>1, <3>2
  <2> QED  BY <2>1, <2>2, <1>11
<1>16. MiddleOk(j, C)
  <2> HIDE DEF p, q
  <2>1. \A k \in 1..Len(C) : k # p - 1 /\ k # p /\ k # q =>
           ~Money(C[k]) /\ C[k].op \notin {"obligation", "seize", "withdraw"}
    BY <1>15 DEF Money, Prefixed, Quiet, Opening
  <2>2. /\ Money(C[p]) /\ Source(C[p]) = LoanMint /\ Need(C[p]) = 0 /\ Sink(C[p]) = Coll
        /\ Gives(C[p]) = Seized(Loan) /\ ~Money(C[p - 1])
    BY <1>5, <1>6, <1>13 DEF Money, Source, Need, Sink, Gives
  <2>3. C[q].op = "swap" /\ Source(C[q]) = Coll /\ Need(C[q]) = Seized(Loan)
    BY <1>14 DEF Swap, Source, Need
  <2>4. Chained(j, C)
    <3>1. \A k \in 1..Len(C) : k # p /\ k # q => ~Money(C[k])
      BY <2>1, <2>2
    <3>2. Need(C[p]) <= Loan /\ Need(C[q]) <= Gives(C[p])
      BY <1>2, <2>2, <2>3
    <3> QED  BY <1>11, <1>12, <2>2, <2>3, <3>1, <3>2, TwoMoney
  <2>5. Refreshed(j, C)
    BY <1>5, <1>6, <1>13, <2>1, <2>3 DEF Refreshed
  <2>6. SeizedHere(j, C)
    BY <1>5, <1>6, <1>12, <1>13, <2>1, <2>3 DEF SeizedHere
  <2> QED  BY <1>11, <2>4, <2>5, <2>6 DEF MiddleOk
<1>17. pairs \in SUBSET FlashMints
  BY <1>1, <1>2 DEF Range
<1>18. LayOut(j) = ((A \o OpenOf(j, A, C)) \o C) \o CloseOf(j, pairs)
  <2>1. OpenOf(j, A, C) = MarginFiPre(Len(A) + (6 + (IF j.pyth THEN 1 ELSE 0) + Len(J)) - 1)
    <3>1. Len(A) + Len(C) + 3 = Len(A) + (6 + (IF j.pyth THEN 1 ELSE 0) + Len(J)) - 1
      <4>1. Len(W) = IF j.pyth THEN 1 ELSE 0
        BY <1>4
      <4>2. Len(C) = Len(W) + 2 + Len(J) /\ Len(J) \in Nat
        BY <1>7, <1>11
      <4> QED  BY <1>1, <1>3, <4>1, <4>2
    <3>2. OpenOf(j, A, C) = MarginFiPre(Len(A) + Len(C) + 3)
      BY DEF OpenOf, Lender
    <3> QED  BY <3>1, <3>2
  <2>2. CloseOf(j, pairs) = PlanPost(pairs)
    BY DEF CloseOf, Lender
  <2> DEFINE X == A \o OpenOf(j, A, C)
  <2>3. X \in Seq(Ixs) /\ W \in Seq(Ixs) /\ B \in Seq(Ixs) /\ J \in Seq(Ixs) /\ V \in Seq(Ixs)
    <3>1. Between \subseteq Ixs
      BY DEF Ixs
    <3>2. V \in Seq(Between)
      BY <1>9 DEF Joined
    <3>3. W \in Seq(Ixs) /\ B \in Seq(Ixs) /\ J \in Seq(Ixs) /\ V \in Seq(Ixs)
      BY <1>4, <1>7, <1>8, <3>1, <3>2, SeqMonotonic
    <3>4. A \in Seq(Ixs) /\ OpenOf(j, A, C) \in Seq(Ixs)
      <4>1. <<>> \in Seq(Quiet)
        OBVIOUS
      <4> QED  BY <1>3, <1>11, <1>17, <4>1, PartsAreIxs
    <3> QED  BY <3>3, <3>4, ConcatProperties
  <2>4. LayOut(j) = (((X \o W) \o B) \o J) \o CloseOf(j, pairs)
    <3>1. LayOut(j) = MarginFiPlanTx(j)
      BY DEF LayOut
    <3>2. MarginFiPlanTx(j) = ((((A \o MarginFiPre(Len(A) + (6 + (IF j.pyth THEN 1 ELSE 0) + Len(J)) - 1)) \o W) \o B) \o J)
                               \o PlanPost(pairs)
      BY DEF MarginFiPlanTx, A, W, B, J, z, w, PlanPost
    <3> QED  BY <2>1, <2>2, <3>1, <3>2
  <2> HIDE DEF X
  <2>5. ((X \o W) \o B) \o J = X \o C
    <3>1. (X \o W) \o B = X \o V
      BY <2>3, ConcatAssociative DEF V
    <3>2. (X \o V) \o J = X \o C
      BY <2>3, ConcatAssociative DEF C
    <3> QED  BY <3>1, <3>2
  <2> QED  BY <2>4, <2>5 DEF X
<1>19. Lender(j) = "marginfi"
  BY DEF Lender
<1> HIDE DEF pairs
<1> QED  BY <1>3, <1>16, <1>17, <1>18, <1>19, ShapedNoTail

\* Refreshes, the obligation's, the liquidation, and perhaps a swap of what it gives.
LEMMA LiquidationMiddle ==
  ASSUME NEW j \in FlashJobs, NEW P \in Seq(Prefixed), NEW R \in Seq(FlashMints), NEW O \in Seq(FlashMints),
         NEW c \in FlashMints, NEW b \in BOOLEAN, NEW shape \in Shapes, NEW in \in Nat, NEW min \in Int,
         Known(j) => Range(O) \subseteq Range(R), in <= Seized(Loan)
  PROVE  MiddleOk(j, (((P \o RefreshAll(R)) \o RefreshObligation(O)) \o Liquidate(LoanMint, c, Loan))
                       \o When(b, Jupiter(shape, c, LoanMint, in, min)))
<1> DEFINE F == RefreshAll(R)
           g == [op |-> "obligation", reserves |-> Range(O)]
           l == [op |-> "liquidate", repay |-> LoanMint, coll |-> c, amount |-> Loan]
           G == <<g>>
           L == <<l>>
           K == Jupiter(shape, c, LoanMint, in, min)
           J == When(b, K)
           U == P \o F
           V == U \o G
           W == V \o L
           C == W \o J
           e == Len(P) + Len(R) + 1
           su == shape.setup
           q == e + su + 2
<1>1. Loan \in Nat /\ Seized(Loan) \in Nat /\ LoanMint \in FlashMints
  BY FlashAssumption, SeizedNat
<1>2. P \in Seq(Between) /\ Len(P) \in Nat /\ \A i \in 1..Len(P) : P[i] \in Prefixed
  <2>1. Prefixed \subseteq Between
    BY DEF Prefixed, Between
  <2> QED  BY <2>1, SeqMonotonic, LenProperties, ElementOfSeq
<1>3. /\ F \in Seq(Between) /\ Len(F) = Len(R) /\ Len(R) \in Nat
      /\ \A i \in 1..Len(R) : F[i] \in Refreshes /\ F[i].reserve = R[i]
  <2>1. Len(R) \in Nat /\ DOMAIN R = 1..Len(R) /\ \A i \in 1..Len(R) : R[i] \in FlashMints
    <3>1. R \in [1..Len(R) -> FlashMints] /\ Len(R) \in Nat
      BY LenProperties
    <3> QED  BY <3>1
  <2>2. \A i \in 1..Len(R) : F[i] = [op |-> "refresh", reserve |-> R[i]]
    BY <2>1 DEF RefreshAll
  <2>3. \A i \in 1..Len(R) : F[i] \in Refreshes /\ F[i].reserve = R[i]
    <3> HIDE DEF F
    <3> TAKE i \in 1..Len(R)
    <3>1. F[i] = [op |-> "refresh", reserve |-> R[i]] /\ R[i] \in FlashMints
      BY <2>1, <2>2
    <3>2. [op |-> "refresh", reserve |-> R[i]] \in Refreshes
      BY <3>1, Instructions
    <3> QED  BY <3>1, <3>2
  <2>4. F = [i \in 1..Len(R) |-> F[i]]
    BY <2>1 DEF RefreshAll
  <2> HIDE DEF F
  <2>5. F \in [1..Len(R) -> Between]
    BY <2>3, <2>4 DEF Between
  <2> QED  BY <2>1, <2>3, <2>5
<1>4. Range(O) \subseteq FlashMints
  BY DEF Range
<1>5. g \in Between /\ g.op = "obligation" /\ g.reserves = Range(O)
  BY <1>4 DEF Between, Obligations
<1>6. /\ l \in Between /\ l.op = "liquidate" /\ l.coll = c
  BY <1>1 DEF Between, Repays
<1>7. /\ K \in Seq(Between) /\ su \in Nat /\ shape.cleanup \in Nat
      /\ Len(K) = su + 1 + shape.cleanup
      /\ K[su + 1] = Swap(c, LoanMint, in, min)
      /\ \A i \in 1..Len(K) : i # su + 1 => K[i] \in Prefixed
  BY <1>1, JupiterIs
<1> HIDE DEF F, g, l, K, su
<1>8. G \in Seq(Between) /\ Len(G) = 1 /\ G[1] = g /\ L \in Seq(Between) /\ Len(L) = 1 /\ L[1] = l
  BY <1>5, <1>6
<1>9. J \in Seq(Between) /\ (b => J = K) /\ (~b => J = <<>>)
  BY <1>7 DEF When
<1> HIDE DEF G, L, J
<1>10. Joined(U, P, F, Between)
  BY <1>2, <1>3, Cat
<1> HIDE DEF U
<1>11. Joined(V, U, G, Between)
  <2>1. U \in Seq(Between)
    BY <1>10 DEF Joined
  <2> QED  BY <2>1, <1>8, Cat
<1> HIDE DEF V
<1>12. Joined(W, V, L, Between)
  <2>1. V \in Seq(Between)
    BY <1>11 DEF Joined
  <2> QED  BY <2>1, <1>8, Cat
<1> HIDE DEF W
<1>13. Joined(C, W, J, Between)
  <2>1. W \in Seq(Between)
    BY <1>12 DEF Joined
  <2> QED  BY <2>1, <1>9, Cat
<1> HIDE DEF C
<1>14. /\ C \in Seq(Between) /\ Len(C) = e + 1 + Len(J) /\ Len(J) \in Nat /\ e \in Nat
       /\ Len(U) = e - 1 /\ Len(V) = e /\ Len(W) = e + 1
  <2>1. Len(U) = Len(P) + Len(F) /\ Len(V) = Len(U) + Len(G)
    BY <1>10, <1>11 DEF Joined
  <2>2. /\ Len(W) = Len(V) + Len(L) /\ Len(C) = Len(W) + Len(J) /\ Len(J) \in Nat
        /\ C \in Seq(Between)
    BY <1>12, <1>13 DEF Joined
  <2> QED  BY <2>1, <2>2, <1>2, <1>3, <1>8
<1>15. /\ \A i \in 1..Len(W) : C[i] = W[i]
       /\ \A i \in 1..Len(V) : W[i] = V[i]
       /\ \A i \in 1..Len(U) : V[i] = U[i]
  BY <1>11, <1>12, <1>13 DEF Joined
<1>16. e \in 1..Len(C) /\ e + 1 \in 1..Len(C) /\ C[e] = g /\ C[e + 1] = l
  <2>1. e \in 1..Len(V) /\ e \in 1..Len(W) /\ e + 1 \in 1..Len(W) /\ e = Len(U) + 1 /\ e + 1 = Len(V) + 1
        /\ 1 \in 1..Len(G) /\ 1 \in 1..Len(L) /\ e \in 1..Len(C) /\ e + 1 \in 1..Len(C)
    BY <1>2, <1>3, <1>8, <1>14
  <2>2. V[Len(U) + 1] = G[1] /\ W[Len(V) + 1] = L[1]
    BY <2>1, <1>11, <1>12 DEF Joined
  <2> QED  BY <2>1, <2>2, <1>8, <1>15
<1>17. ASSUME NEW i \in 1..Len(P) PROVE i \in 1..Len(C) /\ C[i] \in Prefixed
  <2>1. i \in 1..Len(U) /\ i \in 1..Len(V) /\ i \in 1..Len(W) /\ i \in 1..Len(C)
    BY <1>2, <1>3, <1>14
  <2>2. U[i] = P[i]
    BY <1>10 DEF Joined
  <2> QED  BY <2>1, <2>2, <1>2, <1>15
<1>18. ASSUME NEW i \in 1..Len(R)
       PROVE  Len(P) + i \in 1..e - 1 /\ C[Len(P) + i] \in Refreshes /\ C[Len(P) + i].reserve = R[i]
  <2>1. Len(P) + i \in 1..Len(U) /\ Len(P) + i \in 1..Len(V) /\ Len(P) + i \in 1..Len(W)
        /\ Len(P) + i \in 1..e - 1
    BY <1>2, <1>3, <1>14
  <2>2. U[Len(P) + i] = F[i]
    BY <1>3, <1>10 DEF Joined
  <2> QED  BY <2>1, <2>2, <1>3, <1>15
<1>19. ASSUME NEW k \in 1..Len(C), k > e + 1 PROVE k - (e + 1) \in 1..Len(J) /\ C[k] = J[k - (e + 1)]
  BY <1>19, <1>13, <1>14 DEF Joined
<1>20. ASSUME NEW k \in 1..Len(C), k # e, k # e + 1, b => k # q
       PROVE  C[k] \in Prefixed \cup Refreshes
  <2>1. CASE k <= Len(P)
    <3>1. k \in 1..Len(P)
      BY <2>1, <1>2, <1>14
    <3> QED  BY <3>1, <1>17
  <2>2. CASE k > Len(P) /\ k < e
    <3>1. k - Len(P) \in 1..Len(R) /\ k = Len(P) + (k - Len(P))
      BY <2>2, <1>2, <1>3, <1>14
    <3> QED  BY <3>1, <1>18
  <2>3. CASE k > e + 1
    <3>1. k - (e + 1) \in 1..Len(J) /\ C[k] = J[k - (e + 1)]
      BY <2>3, <1>19
    <3>2. b
      BY <3>1, <1>9
    <3>3. k - (e + 1) # su + 1
      BY <3>2, <1>7, <1>14, <1>20
    <3> QED  BY <3>1, <3>2, <3>3, <1>7, <1>9
  <2> QED  BY <2>1, <2>2, <2>3, <1>2, <1>14, <1>20
<1>21. b => q \in 1..Len(C) /\ C[q] = Swap(c, LoanMint, in, min) /\ e + 1 < q
  <2> SUFFICES ASSUME b PROVE q \in 1..Len(C) /\ C[q] = Swap(c, LoanMint, in, min) /\ e + 1 < q
    OBVIOUS
  <2>1. Len(J) = su + 1 + shape.cleanup /\ su + 1 \in 1..Len(J) /\ q - (e + 1) = su + 1
    BY <1>7, <1>9, <1>14
  <2>2. q \in 1..Len(C) /\ e + 1 < q
    BY <2>1, <1>7, <1>14
  <2>3. C[q] = J[su + 1]
    BY <2>1, <2>2, <1>19
  <2> QED  BY <2>2, <2>3, <1>7, <1>9
<1> DEFINE d == e + 1
<1> HIDE DEF q
<1>22. /\ d \in 1..Len(C) /\ Money(C[d]) /\ Source(C[d]) = LoanMint /\ Need(C[d]) = Loan /\ Sink(C[d]) = c
       /\ Gives(C[d]) = Seized(Loan)
  BY <1>6, <1>16 DEF Money, Source, Need, Sink, Gives
<1>23. ~Money(C[e])
  BY <1>5, <1>16 DEF Money
<1>24. \A ix \in Prefixed \cup Refreshes : ~Money(ix) /\ ix.op \notin {"obligation", "seize", "withdraw"}
  BY DEF Money, Prefixed, Refreshes, Quiet, Opening
<1>25. Chained(j, C)
  <2>1. CASE b
    <3>1. \A k \in 1..Len(C) : k # d /\ k # q => ~Money(C[k])
      BY <1>20, <1>23, <1>24
    <3>2. q \in 1..Len(C) /\ d < q /\ Source(C[q]) = c /\ Need(C[q]) = in
      BY <2>1, <1>21 DEF Swap, Source, Need
    <3> HIDE DEF d
    <3>3. Loan <= Loan
      BY <1>1
    <3> QED  BY <1>14, <1>22, <3>1, <3>2, <3>3, TwoMoney
  <2>2. CASE ~b
    <3>1. \A k \in 1..Len(C) : k # d => ~Money(C[k])
      BY <2>2, <1>20, <1>23, <1>24
    <3> HIDE DEF d
    <3>3. Loan <= Loan
      BY <1>1
    <3> QED  BY <1>14, <1>22, <3>1, <3>3, OneMoney
  <2> QED  BY <2>1, <2>2
<1>26. \A k \in 1..Len(C) : C[k].op \notin {"seize", "withdraw"} /\ (C[k].op = "obligation" => k = e)
  <2> SUFFICES ASSUME NEW k \in 1..Len(C)
               PROVE  C[k].op \notin {"seize", "withdraw"} /\ (C[k].op = "obligation" => k = e)
    OBVIOUS
  <2>1. CASE k = e
    BY <2>1, <1>5, <1>16
  <2>2. CASE k = e + 1
    BY <2>2, <1>6, <1>16
  <2>3. CASE b /\ k = q
    BY <2>3, <1>21 DEF Swap
  <2>4. CASE k # e /\ k # e + 1 /\ (b => k # q)
    BY <2>4, <1>20, <1>24
  <2> QED  BY <2>1, <2>2, <2>3, <2>4
<1>27. Refreshed(j, C)
  <2> SUFFICES ASSUME Known(j), NEW r \in Range(O) PROVE RefreshedIn(C, e, r)
    BY <1>5, <1>16, <1>26 DEF Refreshed
  <2>1. PICK i \in 1..Len(R) : R[i] = r
    <3>1. r \in Range(R)
      OBVIOUS
    <3> QED  BY <3>1, LenProperties DEF Range
  <2> QED  BY <2>1, <1>18 DEF RefreshedIn
<1>28. SeizedHere(j, C)
  BY <1>26 DEF SeizedHere
<1>29. MiddleOk(j, C)
  BY <1>14, <1>25, <1>27, <1>28 DEF MiddleOk
<1> QED  BY <1>29 DEF C, W, V, U, F, G, L, J, K, g, l, RefreshObligation, Liquidate

\* Kamino's liquidation.
LEMMA KaminoShaped ==
  ASSUME NEW j \in FlashJobs, j.caller = "kamino"
  PROVE  \E A, C, E : Shaped(j, LayOut(j), A, C, E)
<1>1. /\ j.coll \in {LoanMint, Coll} /\ j.others \in Seq(FlashMints)
      /\ j.cached \in SUBSET FlashMints /\ j.shape \in Shapes
  BY Options
<1>2. /\ Loan \in Nat /\ LoanMint \in FlashMints /\ Coll \in FlashMints /\ CToken \in FlashMints
      /\ j.coll \in FlashMints
  BY <1>1, FlashAssumption
<1> DEFINE A3 == (Budget \o Tip) \o Ata(LoanMint)
           A4 == A3 \o Ata(CToken)
           A == A4 \o Ata(j.coll)
           X == (Range(j.others) \cap j.cached) \ {LoanMint, j.coll}
           first == <<LoanMint>> \o When(j.coll # LoanMint, <<j.coll>>)
           R == first \o SetToSeq(X)
           O == <<LoanMint, j.coll>> \o j.others
           b == j.coll # LoanMint
           in == (Seized(Loan) * 9) \div 10
           K == When(b, Jupiter(j.shape, j.coll, LoanMint, in, in - 1))
           M == (RefreshAll(R) \o RefreshObligation(O)) \o Liquidate(LoanMint, j.coll, Loan)
           C == M \o K
<1>3. A \in Seq(Prefixed) /\ Len(A) = 6
  <2>1. /\ Ata(CToken) \in Seq(Prefixed) /\ Ata(j.coll) \in Seq(Prefixed) /\ A3 \in Seq(Prefixed)
        /\ Len(Ata(CToken)) = 1 /\ Len(Ata(j.coll)) = 1 /\ Len(A3) = 4
    BY <1>2, Starts
  <2> HIDE DEF A3
  <2>2. Joined(A4, A3, Ata(CToken), Prefixed)
    BY <2>1, Cat
  <2> HIDE DEF A4
  <2>3. A4 \in Seq(Prefixed)
    BY <2>2 DEF Joined
  <2>4. Joined(A, A4, Ata(j.coll), Prefixed)
    BY <2>1, <2>3, Cat
  <2> QED  BY <2>1, <2>2, <2>4 DEF Joined
<1>4. first \in Seq(FlashMints) /\ LoanMint \in Range(first) /\ j.coll \in Range(first)
  <2>1. CASE b
    <3> DEFINE s == <<LoanMint>>
               t == <<j.coll>>
    <3>1. first = s \o t
      BY <2>1 DEF When
    <3>2. s \in Seq(FlashMints) /\ Len(s) = 1 /\ s[1] = LoanMint /\ t \in Seq(FlashMints) /\ Len(t) = 1 /\ t[1] = j.coll
      BY <1>2, One
    <3> HIDE DEF s, t, first
    <3>3. Joined(first, s, t, FlashMints)
      BY <3>1, <3>2, Cat
    <3>4. first \in Seq(FlashMints) /\ 1 \in DOMAIN first /\ 2 \in DOMAIN first
      BY <3>2, <3>3, LenProperties DEF Joined
    <3>5. first[1] = LoanMint /\ first[Len(s) + 1] = j.coll
      BY <3>2, <3>3 DEF Joined
    <3> QED  BY <3>2, <3>4, <3>5 DEF Range
  <2>2. CASE ~b
    <3>1. first = <<LoanMint>>
      BY <2>2 DEF When
    <3> HIDE DEF first
    <3>2. first \in Seq(FlashMints) /\ first[1] = LoanMint /\ DOMAIN first = {1}
      BY <3>1, <1>2
    <3> QED  BY <2>2, <3>2 DEF Range
  <2> QED  BY <2>1, <2>2
<1>5. /\ SetToSeq(X) \in Seq(FlashMints) /\ Len(SetToSeq(X)) \in Nat
      /\ \A r \in X : \E i \in 1..Len(SetToSeq(X)) : SetToSeq(X)[i] = r
  <2>1. X \in SUBSET FlashMints /\ X \subseteq Range(j.others)
    BY <1>1
  <2> HIDE DEF X
  <2> QED  BY <1>1, <2>1, InSomeOrder
<1> HIDE DEF first
<1>6. R \in Seq(FlashMints) /\ Range(first) \cup X \subseteq Range(R)
  <2> HIDE DEF X
  <2>1. Joined(R, first, SetToSeq(X), FlashMints)
    BY <1>4, <1>5, Cat
  <2> HIDE DEF R
  <2>2. R \in Seq(FlashMints) /\ DOMAIN R = 1..Len(R) /\ DOMAIN first = 1..Len(first)
    BY <1>4, <2>1, LenProperties DEF Joined
  <2>3. ASSUME NEW i \in 1..Len(first) PROVE first[i] \in Range(R)
    <3>1. i \in 1..Len(R) /\ R[i] = first[i]
      BY <2>1 DEF Joined
    <3> QED  BY <2>2, <3>1 DEF Range
  <2>4. ASSUME NEW i \in 1..Len(SetToSeq(X)) PROVE SetToSeq(X)[i] \in Range(R)
    <3>1. Len(first) + i \in 1..Len(R) /\ R[Len(first) + i] = SetToSeq(X)[i]
      BY <2>1 DEF Joined
    <3> QED  BY <2>2, <3>1 DEF Range
  <2>5. Range(first) \subseteq Range(R)
    BY <2>2, <2>3 DEF Range
  <2> QED  BY <1>5, <2>2, <2>4, <2>5
<1>7. O \in Seq(FlashMints) /\ Range(O) \subseteq {LoanMint, j.coll} \cup Range(j.others)
  <2>1. <<LoanMint, j.coll>> \in Seq(FlashMints)
    BY <1>2
  <2> DEFINE two == <<LoanMint, j.coll>>
  <2>2. Len(two) = 2 /\ two[1] = LoanMint /\ two[2] = j.coll
    OBVIOUS
  <2> HIDE DEF two
  <2>3. Joined(two \o j.others, two, j.others, FlashMints)
    BY <1>1, <2>1, Cat DEF two
  <2> DEFINE q == two \o j.others
  <2>4. q = O
    BY DEF two
  <2> HIDE DEF q, O
  <2>5. Joined(q, two, j.others, FlashMints)
    BY <2>3 DEF q
  <2>6. q \in Seq(FlashMints) /\ DOMAIN q = 1..Len(q) /\ DOMAIN j.others = 1..Len(j.others)
    BY <1>1, <2>5, LenProperties DEF Joined
  <2>7. ASSUME NEW i \in 1..Len(q) PROVE q[i] \in {LoanMint, j.coll} \cup Range(j.others)
    <3>1. CASE i <= 2
      <4>1. i \in 1..Len(two) /\ i \in {1, 2}
        BY <2>2, <2>6, <3>1
      <4>2. q[i] = two[i]
        BY <2>5, <4>1 DEF Joined
      <4> QED  BY <2>2, <4>1, <4>2
    <3>2. CASE i > 2
      <4>1. i - Len(two) \in 1..Len(j.others) /\ q[i] = j.others[i - Len(two)]
        BY <2>2, <2>5, <3>2 DEF Joined
      <4> QED  BY <2>6, <4>1 DEF Range
    <3> QED  BY <3>1, <3>2, <2>6
  <2>8. Range(q) \subseteq {LoanMint, j.coll} \cup Range(j.others)
    BY <2>6, <2>7 DEF Range
  <2> QED  BY <2>4, <2>6, <2>8
<1>8. Known(j) => Range(O) \subseteq Range(R)
  <2> HIDE DEF R, O
  <2> QED  BY <1>4, <1>6, <1>7 DEF Known
<1>9. /\ in \in Nat /\ in - 1 \in Int /\ in <= Seized(Loan) /\ b \in BOOLEAN
  BY SeizedNat
<1> HIDE DEF R, O, in, b
<1>10. MiddleOk(j, C)
  <2>1. <<>> \in Seq(Prefixed)
    OBVIOUS
  <2>2. MiddleOk(j, (((<<>> \o RefreshAll(R)) \o RefreshObligation(O)) \o Liquidate(LoanMint, j.coll, Loan)) \o K)
    BY <1>1, <1>2, <1>6, <1>7, <1>8, <1>9, <2>1, LiquidationMiddle
  <2>3. <<>> \o RefreshAll(R) = RefreshAll(R)
    <3>1. RefreshAll(R) \in Seq(Refreshes)
      <4>1. R \in [1..Len(R) -> FlashMints] /\ Len(R) \in Nat
        BY <1>6, LenProperties
      <4>2. \A i \in 1..Len(R) : [op |-> "refresh", reserve |-> R[i]] \in Refreshes
        BY <4>1, Instructions
      <4>3. RefreshAll(R) \in [1..Len(R) -> Refreshes]
        BY <4>1, <4>2 DEF RefreshAll
      <4> QED  BY <4>1, <4>3
    <3> QED  BY <3>1, ConcatEmptySeq
  <2> QED  BY <2>2, <2>3
<1>11. LayOut(j) = ((A \o OpenOf(j, A, C)) \o C) \o CloseOf(j, {})
  <2>1. Lender(j) = "marginfi"
    BY DEF Lender
  <2>2. LayOut(j) = KaminoTx(j)
    BY DEF LayOut
  <2>3. KaminoTx(j) = ((A \o MarginFiPre(6 + 2 + Len(C) + 2 - 1)) \o C) \o MarginFiPost
    <3>1. KaminoRefreshes(j) = R
      BY DEF KaminoRefreshes, R, first
    <3> HIDE DEF X
    <3> QED  BY <3>1, SMTT(30) DEF KaminoTx, O, in, b
  <2>4. C \in Seq(Between)
    BY <1>10 DEF MiddleOk
  <2>5. 6 + 2 + Len(C) + 2 - 1 = Len(A) + Len(C) + 3
    <3>1. Len(C) \in Nat
      BY <2>4, LenProperties
    <3> QED  BY <1>3, <3>1
  <2> HIDE DEF A, C
  <2>6. OpenOf(j, A, C) = MarginFiPre(Len(A) + Len(C) + 3)
    BY <2>1 DEF OpenOf
  <2>7. CloseOf(j, {}) = MarginFiPost
    BY <2>1 DEF CloseOf
  <2> QED  BY <2>2, <2>3, <2>5, <2>6, <2>7
<1>12. {} \in SUBSET FlashMints /\ Lender(j) = "marginfi"
  BY DEF Lender
<1> HIDE DEF A, C
<1> QED  BY <1>3, <1>10, <1>11, <1>12, ShapedNoTail

\* Solend's liquidation: once everything is laid out the index is written over the
\* place-holder.
LEMMA Patched ==
  ASSUME NEW A \in Seq(Ixs), NEW C \in Seq(Ixs)
  PROVE  LET all == ((A \o MarginFiPre(0)) \o C) \o MarginFiPost
         IN  PatchEnd(all, Len(A) + 1) = ((A \o MarginFiPre(Len(A) + Len(C) + 3)) \o C) \o MarginFiPost
<1> DEFINE n == Len(A) + Len(C) + 3
           a == MarginFiPre(0)
           b == MarginFiPre(n)
           D == MarginFiPost
           all == ((A \o a) \o C) \o D
           T == ((A \o b) \o C) \o D
           Q == PatchEnd(all, Len(A) + 1)
<1>1. Len(A) \in Nat /\ Len(C) \in Nat /\ n \in Nat /\ 0 \in Nat
  BY LenProperties
<1>2. \A m \in Nat : /\ MarginFiPre(m) \in Seq(Ixs) /\ Len(MarginFiPre(m)) = 2
                     /\ MarginFiPre(m)[1] = [op |-> "start", end |-> m]
                     /\ MarginFiPre(m)[2] = Borrow(LoanMint, Loan)
  <2> TAKE m \in Nat
  <2>1. StartFlash(m) \in Ixs /\ Borrow(LoanMint, Loan) \in Ixs
    BY DEF StartFlash, Borrow, Ixs, Lends
  <2> QED  BY <2>1 DEF MarginFiPre, StartFlash
<1>3. D \in Seq(Ixs) /\ Len(D) = 2
  <2>1. Repay(LoanMint, Loan) \in Ixs /\ EndFlash({LoanMint}) \in Ixs
    BY FlashAssumption DEF Repay, EndFlash, Ixs, Lends
  <2> QED  BY <2>1 DEF MarginFiPost
<1>4. <<>> \in Seq(Ixs) /\ Len(<<>>) = 0
  OBVIOUS
<1>5. /\ a \in Seq(Ixs) /\ Len(a) = 2 /\ a[1] = [op |-> "start", end |-> 0] /\ a[2] = Borrow(LoanMint, Loan)
      /\ b \in Seq(Ixs) /\ Len(b) = 2 /\ b[1] = [op |-> "start", end |-> n] /\ b[2] = Borrow(LoanMint, Loan)
  <2> HIDE DEF n
  <2> QED  BY <1>1, <1>2
<1> HIDE DEF a, b, D
<1> DEFINE all0 == (((A \o a) \o C) \o D) \o <<>>
           T0 == (((A \o b) \o C) \o D) \o <<>>
<1>6. Five(all0, A, a, C, D, <<>>) /\ Five(T0, A, b, C, D, <<>>)
  BY <1>3, <1>4, <1>5, CatFive
<1>7. all0 = all /\ T0 = T
  BY <1>3, <1>5, ConcatProperties, ConcatEmptySeq
<1> HIDE DEF all, T, all0, T0
<1>8. Five(all, A, a, C, D, <<>>) /\ Five(T, A, b, C, D, <<>>)
  BY <1>6, <1>7
<1>9. /\ all \in Seq(Ixs) /\ T \in Seq(Ixs) /\ Len(all) = n + 1 /\ Len(T) = n + 1
      /\ Len(A) + 1 \in 1..Len(all) /\ Len(all) - 1 = n
  <2>1. all \in Seq(Ixs) /\ T \in Seq(Ixs) /\ Len(all) = Len(A) + 2 + Len(C) + 2 + 0
        /\ Len(T) = Len(A) + 2 + Len(C) + 2 + 0
    BY <1>3, <1>4, <1>5, <1>8 DEF Five
  <2> QED  BY <2>1, <1>1
<1>10. Q = [all EXCEPT ![Len(A) + 1].end = n]
  BY <1>9 DEF PatchEnd
<1>11. all \in [1..n + 1 -> Ixs] /\ T \in [1..n + 1 -> Ixs]
  BY <1>9, LenProperties
<1>12. all[Len(A) + 1] = [op |-> "start", end |-> 0] /\ T[Len(A) + 1] = [op |-> "start", end |-> n]
  <2>1. 1 \in 1..Len(a) /\ 1 \in 1..Len(b)
    BY <1>5
  <2> QED  BY <2>1, <1>5, <1>8 DEF Five
<1>13. ASSUME NEW i \in 1..n + 1, i # Len(A) + 1 PROVE all[i] = T[i]
  <2>1. CASE i <= Len(A)
    <3>1. i \in 1..Len(A)
      BY <2>1, <1>1
    <3> QED  BY <3>1, <1>8 DEF Five
  <2>2. CASE i = Len(A) + 2
    <3>1. 2 \in 1..Len(a) /\ 2 \in 1..Len(b)
      BY <1>5
    <3> QED  BY <2>2, <3>1, <1>5, <1>8 DEF Five
  <2>3. CASE i > Len(A) + 2 /\ i <= Len(A) + 2 + Len(C)
    <3> DEFINE k == i - (Len(A) + 2)
    <3>1. k \in 1..Len(C) /\ i = Len(A) + 2 + k
      BY <2>3, <1>1
    <3> HIDE DEF k
    <3>2. all[Len(A) + Len(a) + k] = C[k] /\ T[Len(A) + Len(b) + k] = C[k]
      BY <3>1, <1>8 DEF Five
    <3> QED  BY <3>1, <3>2, <1>5
  <2>4. CASE i > Len(A) + 2 + Len(C)
    <3> DEFINE k == i - (Len(A) + 2 + Len(C))
    <3>1. k \in 1..2 /\ i = Len(A) + 2 + Len(C) + k
      BY <2>4, <1>1
    <3> HIDE DEF k
    <3>2. all[Len(A) + Len(a) + Len(C) + k] = D[k] /\ T[Len(A) + Len(b) + Len(C) + k] = D[k]
      BY <3>1, <1>3, <1>8 DEF Five
    <3> QED  BY <3>1, <3>2, <1>5
  <2> QED  BY <2>1, <2>2, <2>3, <2>4, <1>1, <1>13
<1>14. Q = T
  <2>1. Q = [i \in 1..n + 1 |-> IF i = Len(A) + 1 THEN [all[Len(A) + 1] EXCEPT !.end = n] ELSE all[i]]
    <3> HIDE DEF Q, n
    <3> QED  BY <1>10, <1>11
  <2>2. [all[Len(A) + 1] EXCEPT !.end = n] = [op |-> "start", end |-> n]
    <3> HIDE DEF n
    <3> QED  BY <1>12
  <2> HIDE DEF Q, n
  <2>3. \A i \in 1..n + 1 : Q[i] = T[i]
    BY <2>1, <2>2, <1>12, <1>13
  <2>4. Q = [i \in 1..n + 1 |-> Q[i]]
    BY <2>1
  <2> QED  BY <2>3, <2>4, <1>11
<1> QED  BY <1>14 DEF Q, T, all, a, b, D

LEMMA SolendShaped ==
  ASSUME NEW j \in FlashJobs, j.caller = "solend"
  PROVE  \E A, C, E : Shaped(j, LayOut(j), A, C, E)
<1>1. /\ j.lender \in {"marginfi", "solend", "none"} /\ j.shape \in Shapes
      /\ j.price \in BOOLEAN /\ j.ctoken \in BOOLEAN /\ j.pyth \in BOOLEAN /\ j.autoSwap \in BOOLEAN
      /\ j.tip \in BOOLEAN
  BY Options
<1>2. Loan \in Nat /\ LoanMint \in FlashMints /\ Coll \in FlashMints /\ CToken \in FlashMints
  BY FlashAssumption
<1> DEFINE limit == <<[op |-> "limit"]>>
           price == When(j.price, <<[op |-> "price"]>>)
           A == limit \o price
           ct == When(j.ctoken, Ata(CToken))
           py == When(j.lender = "none" /\ j.pyth, <<[op |-> "pyth"]>>)
           P == ct \o py
           R == <<Coll, LoanMint>>
           in == (Seized(Loan) * 9) \div 10
           C == (((P \o RefreshAll(R)) \o RefreshObligation(R)) \o Liquidate(LoanMint, Coll, Loan))
                  \o When(j.autoSwap, Jupiter(j.shape, Coll, LoanMint, in, in - 1))
           E == When(j.tip, Tip)
<1>3. A \in Seq(Prefixed) /\ Len(A) = IF j.price THEN 2 ELSE 1
  <2>1. [op |-> "limit"] \in Prefixed /\ [op |-> "price"] \in Prefixed
    BY Instructions DEF Prefixed
  <2>2. limit \in Seq(Prefixed) /\ Len(limit) = 1 /\ price \in Seq(Prefixed) /\ Len(price) = IF j.price THEN 1 ELSE 0
    BY <1>1, <2>1, One, WhenIs
  <2> HIDE DEF limit, price
  <2>3. Joined(A, limit, price, Prefixed)
    BY <2>2, Cat
  <2> QED  BY <1>1, <2>2, <2>3 DEF Joined
<1>4. E \in Seq(Quiet)
  BY Instructions DEF When, Tip
<1>5. P \in Seq(Prefixed)
  <2>1. [op |-> "pyth"] \in Prefixed /\ Ata(CToken) \in Seq(Prefixed)
    BY <1>2, Instructions, Starts DEF Prefixed
  <2>2. ct \in Seq(Prefixed)
    BY <2>1 DEF When
  <2>3. py \in Seq(Prefixed)
    BY <2>1 DEF When
  <2> HIDE DEF ct, py
  <2> QED  BY <2>2, <2>3, ConcatProperties
<1>6. /\ in \in Nat /\ in - 1 \in Int /\ in <= Seized(Loan) /\ R \in Seq(FlashMints)
  BY <1>2, SeizedNat
<1>7. MiddleOk(j, C)
  <2> HIDE DEF P, R, in
  <2>1. Known(j) => Range(R) \subseteq Range(R)
    OBVIOUS
  <2> QED  BY <1>1, <1>2, <1>5, <1>6, <2>1, LiquidationMiddle
<1> HIDE DEF A, E
<1>8. C \in Seq(Between)
  BY <1>7 DEF MiddleOk
<1>9. A \in Seq(Ixs) /\ C \in Seq(Ixs)
  <2> HIDE DEF C
  <2>1. {} \in SUBSET FlashMints
    OBVIOUS
  <2> QED  BY <1>3, <1>4, <1>8, <2>1, PartsAreIxs
<1>10. /\ Lender(j) = j.lender
       /\ OpenOf(j, A, C) = CASE j.lender = "marginfi" -> MarginFiPre(Len(A) + Len(C) + 3)
                              [] j.lender = "solend" -> SolendPre
                              [] OTHER -> <<>>
       /\ CloseOf(j, {}) = CASE j.lender = "marginfi" -> MarginFiPost
                             [] j.lender = "solend" -> SolendPost(3)
                             [] OTHER -> <<>>
  <2> HIDE DEF C
  <2> QED  BY <1>1 DEF OpenOf, CloseOf, Lender
<1> DEFINE open == CASE j.lender = "marginfi" -> MarginFiPre(0) [] j.lender = "solend" -> SolendPre
                     [] OTHER -> <<>>
           close == CASE j.lender = "marginfi" -> MarginFiPost [] j.lender = "solend" -> SolendPost(3)
                      [] OTHER -> <<>>
           all == ((A \o open) \o C) \o close
<1>11. LayOut(j) = (IF j.lender = "marginfi" THEN PatchEnd(all, Len(A) + 1) ELSE all) \o E
  <2>1. LayOut(j) = SolendLiquidationTx(j)
    BY DEF LayOut
  <2> QED  BY <2>1 DEF SolendLiquidationTx, A, E
<1> HIDE DEF C
<1>12. (IF j.lender = "marginfi" THEN PatchEnd(all, Len(A) + 1) ELSE all)
         = ((A \o OpenOf(j, A, C)) \o C) \o CloseOf(j, {})
  <2>1. CASE j.lender = "marginfi"
    <3>1. all = ((A \o MarginFiPre(0)) \o C) \o MarginFiPost
      BY <2>1
    <3>2. OpenOf(j, A, C) = MarginFiPre(Len(A) + Len(C) + 3) /\ CloseOf(j, {}) = MarginFiPost
      BY <1>10, <2>1
    <3> HIDE DEF all
    <3> QED  BY <2>1, <3>1, <3>2, <1>9, Patched
  <2>2. CASE j.lender # "marginfi"
    <3>1. open = OpenOf(j, A, C) /\ close = CloseOf(j, {})
      BY <1>1, <1>10, <2>2
    <3> QED  BY <2>2, <3>1
  <2> QED  BY <2>1, <2>2
<1> HIDE DEF all
<1>13. LayOut(j) = (((A \o OpenOf(j, A, C)) \o C) \o CloseOf(j, {})) \o E
  BY <1>11, <1>12
<1>14. {} \in SUBSET FlashMints
  OBVIOUS
<1> QED  BY <1>3, <1>4, <1>7, <1>13, <1>14, ShapedWhen

\* Whatever the options.
LEMMA LayOutShaped ==
  ASSUME NEW j \in FlashJobs
  PROVE  \E A, C, E : Shaped(j, LayOut(j), A, C, E)
  BY Options, NativeShaped, JupiterShaped, SolendShaped, MarginFiShaped, KaminoShaped, SandwichShaped

---------------------------------------------------------------------------
\* Where every instruction of a layout is, counted from 1.
LEMMA Lenders ==
  ASSUME NEW j \in FlashJobs
  PROVE  /\ Lender(j) \in {"marginfi", "solend", "none"}
         /\ Lender(j) = "none" => j.caller = "solend" /\ j.lender = "none"
         /\ j.caller = "marginfi" => Lender(j) = "marginfi"
         /\ Lender(j) = "solend" => j.caller \in {"native", "solend"} /\ j.lender = "solend"
  BY Options DEF Lender

Offset(j) == IF Lender(j) = "none" THEN 0 ELSE 2

MiddleAt(j, T, A, C, E) ==
  /\ T \in Seq(Ixs) /\ C \in Seq(Between) /\ Len(A) \in Nat /\ Len(C) \in Nat /\ Len(E) \in Nat
  /\ \A i \in 1..Len(A) : T[i] \in Prefixed
  /\ \A i \in 1..Len(C) : T[Len(A) + Offset(j) + i] = C[i]
MarginFiAt(j, T, A, C, E) ==
  /\ Len(T) = Len(A) + Len(C) + 4 + Len(E)
  /\ T[Len(A) + 1] = StartFlash(Len(A) + Len(C) + 3) /\ T[Len(A) + 2] = Borrow(LoanMint, Loan)
  /\ T[Len(A) + Len(C) + 3] =
       IF j.caller = "marginfi" THEN Deposit(LoanMint, Loan) ELSE Repay(LoanMint, Loan)
  /\ T[Len(A) + Len(C) + 4].op = "end"
  /\ j.caller # "marginfi" => T[Len(A) + Len(C) + 4] = EndFlash({LoanMint})
  /\ \A i \in 1..Len(E) : T[Len(A) + Len(C) + 4 + i] \in Quiet
SolendAt(j, T, A, C, E) ==
  /\ Len(T) = Len(A) + Len(C) + 3 + Len(E)
  /\ T[Len(A) + 1] = [op |-> "refresh", reserve |-> LoanMint]
  /\ T[Len(A) + 2] = [op |-> "sborrow", amount |-> Loan]
  /\ T[Len(A) + Len(C) + 3] =
       [op |-> "srepay", amount |-> Loan, index |-> IF j.caller = "native" THEN 6 ELSE 3]
  /\ Len(A) = IF j.caller = "native" THEN 4 + Len(Interim(j.path)) ELSE IF j.price THEN 2 ELSE 1
  /\ \A i \in 1..Len(E) : T[Len(A) + Len(C) + 3 + i] \in Quiet
BareAt(T, A, C, E) ==
  /\ Len(T) = Len(A) + Len(C) + Len(E)
  /\ \A i \in 1..Len(E) : T[Len(A) + Len(C) + i] \in Quiet

LEMMA Places ==
  ASSUME NEW j \in FlashJobs, NEW T, NEW A, NEW C, NEW E, Shaped(j, T, A, C, E)
  PROVE  /\ MiddleAt(j, T, A, C, E)
         /\ Lender(j) = "marginfi" => MarginFiAt(j, T, A, C, E)
         /\ Lender(j) = "solend" => SolendAt(j, T, A, C, E)
         /\ Lender(j) = "none" => BareAt(T, A, C, E)
<1> DEFINE B == OpenOf(j, A, C)
<1>1. PICK pairs \in SUBSET FlashMints : Five(T, A, B, C, CloseOf(j, pairs), E)
  BY DEF Shaped
<1> DEFINE D == CloseOf(j, pairs)
<1>2. A \in Seq(Prefixed) /\ C \in Seq(Between) /\ E \in Seq(Quiet)
  BY DEF Shaped, MiddleOk
<1>3. /\ \A i \in 1..Len(A) : A[i] \in Prefixed
      /\ \A i \in 1..Len(E) : E[i] \in Quiet
  BY <1>2, ElementOfSeq
<1>4. Lender(j) = "marginfi" =>
        /\ Len(B) = 2 /\ B[1] = StartFlash(Len(A) + Len(C) + 3) /\ B[2] = Borrow(LoanMint, Loan)
        /\ Len(D) = 2 /\ D[2].op = "end"
        /\ D[1] = IF j.caller = "marginfi" THEN Deposit(LoanMint, Loan) ELSE Repay(LoanMint, Loan)
        /\ j.caller # "marginfi" => D[2] = EndFlash({LoanMint})
  <2> SUFFICES ASSUME Lender(j) = "marginfi"
               PROVE  /\ Len(B) = 2 /\ B[1] = StartFlash(Len(A) + Len(C) + 3) /\ B[2] = Borrow(LoanMint, Loan)
                      /\ Len(D) = 2 /\ D[2].op = "end"
                      /\ D[1] = IF j.caller = "marginfi" THEN Deposit(LoanMint, Loan) ELSE Repay(LoanMint, Loan)
                      /\ j.caller # "marginfi" => D[2] = EndFlash({LoanMint})
    OBVIOUS
  <2>1. B = <<StartFlash(Len(A) + Len(C) + 3), Borrow(LoanMint, Loan)>>
    BY DEF OpenOf, MarginFiPre
  <2>2. D = IF j.caller = "marginfi" THEN <<Deposit(LoanMint, Loan), EndFlash(pairs)>>
            ELSE <<Repay(LoanMint, Loan), EndFlash({LoanMint})>>
    BY DEF CloseOf, MarginFiPost, PlanPost
  <2> HIDE DEF B, D
  <2>3. \A b : EndFlash(b).op = "end"
    BY DEF EndFlash
  <2> QED  BY <2>1, <2>2, <2>3
<1>5. Lender(j) = "solend" =>
        /\ Len(B) = 2 /\ B[1] = [op |-> "refresh", reserve |-> LoanMint] /\ B[2] = [op |-> "sborrow", amount |-> Loan]
        /\ Len(D) = 1 /\ D[1] = [op |-> "srepay", amount |-> Loan, index |-> IF j.caller = "native" THEN 6 ELSE 3]
  <2>1. Lender(j) = "solend" => j.caller # "marginfi"
    BY Lenders
  <2>2. Lender(j) = "solend" => B = SolendPre
    BY DEF OpenOf
  <2>3. Lender(j) = "solend" => D = SolendPost(IF j.caller = "native" THEN 6 ELSE 3)
    BY <2>1 DEF CloseOf
  <2> HIDE DEF B, D
  <2> QED  BY <2>2, <2>3 DEF SolendPre, SolendPost
<1>6. Lender(j) = "none" => Len(B) = 0 /\ Len(D) = 0
  <2>1. Lender(j) = "none" => j.caller # "marginfi"
    BY Lenders
  <2>2. Lender(j) = "none" => B = <<>> /\ D = <<>>
    BY <2>1 DEF OpenOf, CloseOf
  <2> HIDE DEF B, D
  <2> QED  BY <2>2
<1>7. Five(T, A, B, C, D, E)
  BY <1>1
<1> HIDE DEF B, D
<1>8. /\ T \in Seq(Ixs) /\ Len(A) \in Nat /\ Len(C) \in Nat /\ Len(E) \in Nat
      /\ Len(T) = Len(A) + Len(B) + Len(C) + Len(D) + Len(E)
      /\ \A i \in 1..Len(A) : T[i] = A[i]
      /\ \A i \in 1..Len(B) : T[Len(A) + i] = B[i]
      /\ \A i \in 1..Len(C) : T[Len(A) + Len(B) + i] = C[i]
      /\ \A i \in 1..Len(D) : T[Len(A) + Len(B) + Len(C) + i] = D[i]
      /\ \A i \in 1..Len(E) : T[Len(A) + Len(B) + Len(C) + Len(D) + i] = E[i]
  BY <1>7 DEF Five
<1>9. Len(B) = Offset(j)
  BY <1>4, <1>5, <1>6, Lenders DEF Offset
<1>10. \A i \in 1..Len(A) : T[i] \in Prefixed
  BY <1>3, <1>8
<1>11. \A i \in 1..Len(C) : T[Len(A) + Offset(j) + i] = C[i]
  BY <1>8, <1>9
<1>12. ASSUME Lender(j) = "marginfi" PROVE MarginFiAt(j, T, A, C, E)
  <2>1. Len(B) = 2 /\ Len(D) = 2
    BY <1>4, <1>12
  <2>2. 1 \in 1..Len(B) /\ 2 \in 1..Len(B) /\ 1 \in 1..Len(D) /\ 2 \in 1..Len(D)
    BY <2>1
  <2>3. T[Len(A) + 1] = B[1] /\ T[Len(A) + 2] = B[2]
    BY <1>8, <2>2
  <2>4. T[Len(A) + Len(B) + Len(C) + 1] = D[1] /\ T[Len(A) + Len(B) + Len(C) + 2] = D[2]
    BY <1>8, <2>2
  <2>5. /\ Len(A) + Len(B) + Len(C) + 1 = Len(A) + Len(C) + 3 /\ Len(A) + Len(B) + Len(C) + 2 = Len(A) + Len(C) + 4
        /\ Len(A) + Len(B) + Len(C) + Len(D) + Len(E) = Len(A) + Len(C) + 4 + Len(E)
        /\ \A i \in 1..Len(E) : Len(A) + Len(B) + Len(C) + Len(D) + i = Len(A) + Len(C) + 4 + i
    BY <1>8, <2>1
  <2>6. \A i \in 1..Len(E) : T[Len(A) + Len(C) + 4 + i] \in Quiet
    BY <1>3, <1>8, <2>5
  <2> QED  BY <1>4, <1>8, <1>12, <2>3, <2>4, <2>5, <2>6 DEF MarginFiAt
<1>13. ASSUME Lender(j) = "solend" PROVE SolendAt(j, T, A, C, E)
  <2>1. Len(B) = 2 /\ Len(D) = 1
    BY <1>5, <1>13
  <2>2. 1 \in 1..Len(B) /\ 2 \in 1..Len(B) /\ 1 \in 1..Len(D)
    BY <2>1
  <2>3. T[Len(A) + 1] = B[1] /\ T[Len(A) + 2] = B[2]
    BY <1>8, <2>2
  <2>4. T[Len(A) + Len(B) + Len(C) + 1] = D[1]
    BY <1>8, <2>2
  <2>5. /\ Len(A) + Len(B) + Len(C) + 1 = Len(A) + Len(C) + 3
        /\ Len(A) + Len(B) + Len(C) + Len(D) + Len(E) = Len(A) + Len(C) + 3 + Len(E)
        /\ \A i \in 1..Len(E) : Len(A) + Len(B) + Len(C) + Len(D) + i = Len(A) + Len(C) + 3 + i
    BY <1>8, <2>1
  <2>6. \A i \in 1..Len(E) : T[Len(A) + Len(C) + 3 + i] \in Quiet
    BY <1>3, <1>8, <2>5
  <2>7. Len(A) = IF j.caller = "native" THEN 4 + Len(Interim(j.path)) ELSE IF j.price THEN 2 ELSE 1
    BY <1>13 DEF Shaped
  <2> QED  BY <1>5, <1>8, <1>13, <2>3, <2>4, <2>5, <2>6, <2>7 DEF SolendAt
<1>14. ASSUME Lender(j) = "none" PROVE BareAt(T, A, C, E)
  <2>1. Len(B) = 0 /\ Len(D) = 0
    BY <1>6, <1>14
  <2>2. Len(A) + Len(B) + Len(C) + Len(D) + Len(E) = Len(A) + Len(C) + Len(E)
        /\ \A i \in 1..Len(E) : Len(A) + Len(B) + Len(C) + Len(D) + i = Len(A) + Len(C) + i
    BY <1>8, <2>1
  <2> QED  BY <1>3, <1>8, <2>2 DEF BareAt
<1> QED  BY <1>2, <1>8, <1>10, <1>11, <1>12, <1>13, <1>14 DEF MiddleAt

---------------------------------------------------------------------------
\* What one instruction does.
LEMMA Effects ==
  ASSUME FlashStep
  PROVE  /\ pc < Len(tx) /\ fault = "none" /\ job' = job /\ tx' = tx
         /\ pc' = IF fault' = "none" THEN pc + 1 ELSE pc
         /\ Ix.op \in {"limit", "price", "tip", "pyth", "cleanup"} =>
              UNCHANGED <<fault, ata, flash, owes, holds, fresh, short>>
         /\ Ix.op \in {"ata", "setup"} =>
              ata' = Paid(Ix.token, 0) /\ UNCHANGED <<fault, flash, owes, holds, fresh, short>>
         /\ Ix.op = "refresh" =>
              fresh' = fresh \cup {Ix.reserve} /\ UNCHANGED <<fault, ata, flash, owes, holds, short>>
         /\ Ix.op = "start" =>
              \/ At(Ix.end) # "end" /\ Fails("endIndex")
              \/ At(Ix.end) = "end" /\ flash' = Ix.end /\ UNCHANGED <<fault, ata, owes, holds, fresh, short>>
         /\ Ix.op = "borrow" =>
              /\ owes' = [owes EXCEPT ![Ix.bank] = @ + Ix.amount] /\ ata' = Paid(Ix.bank, Ix.amount)
              /\ UNCHANGED <<fault, flash, holds, fresh, short>>
         /\ Ix.op = "withdraw" =>
              /\ ata' = Paid(Ix.bank, holds[Ix.bank]) /\ holds' = [holds EXCEPT ![Ix.bank] = 0]
              /\ UNCHANGED <<fault, flash, owes, fresh, short>>
  BY DEF FlashStep, Next0, RunMarginFi, RunSolend, RunLiquidation, RunSwap, RunOther

LEMMA EffectsOfRepaying ==
  ASSUME FlashStep
  PROVE  /\ Ix.op = "repay" =>
              \/ Fails("funds")
              \/ /\ ata[Ix.bank] >= Ix.amount /\ owes' = [owes EXCEPT ![Ix.bank] = @ - Ix.amount]
                 /\ ata' = Paid(Ix.bank, -Ix.amount) /\ UNCHANGED <<fault, flash, holds, fresh, short>>
         /\ Ix.op = "deposit" => (owes[Ix.bank] > 0 /\ Fails("depositOnly")) \/ owes[Ix.bank] = 0
         /\ Ix.op = "sborrow" =>
              \/ LoanMint \notin fresh /\ Fails("stale")
              \/ ata' = Paid(LoanMint, Ix.amount) /\ UNCHANGED <<fault, flash, owes, holds, fresh, short>>
         /\ Ix.op = "srepay" =>
              \/ (At(Ix.index) # "sborrow" \/ Ix.index >= pc) /\ Fails("borrowIndex")
              \/ Fails("funds")
              \/ /\ ata[LoanMint] >= Ix.amount + SolendFee /\ ata' = Paid(LoanMint, -(Ix.amount + SolendFee))
                 /\ UNCHANGED <<fault, flash, owes, holds, fresh, short>>
  BY DEF FlashStep, Next0, RunMarginFi, RunSolend, RunLiquidation, RunSwap, RunOther

LEMMA EffectsOfEnding ==
  ASSUME FlashStep, Ix.op = "end"
  PROVE  \/ flash # pc /\ Fails("endIndex")
         \/ (\E b \in DOMAIN owes : owes[b] + holds[b] > 0 /\ b \notin Ix.banks) /\ Fails("unobserved")
         \/ (\E b \in DOMAIN owes : owes[b] > 0) /\ Fails("unhealthy")
         \/ flash' = NoFlash /\ UNCHANGED <<fault, ata, owes, holds, fresh, short>>
  BY DEF FlashStep, Next0, RunMarginFi, RunSolend, RunLiquidation, RunSwap, RunOther

LEMMA EffectsBetween ==
  ASSUME FlashStep
  PROVE  /\ Ix.op = "seize" =>
              \/ Ix.theirs + Ix.ours # 2 * Len(Ix.tail) /\ Fails("split")
              \/ /\ holds' = [holds EXCEPT ![Ix.asset] = @ + Seized(Ix.amount)]
                 /\ owes' = [owes EXCEPT ![Ix.liab] = @ + Ix.amount]
                 /\ UNCHANGED <<fault, ata, flash, fresh, short>>
         /\ Ix.op = "obligation" =>
              \/ ~(Ix.reserves \subseteq fresh) /\ Fails("stale")
              \/ UNCHANGED <<fault, ata, flash, owes, holds, fresh, short>>
         /\ Ix.op = "liquidate" =>
              \E repaid \in {Ix.amount, Ix.amount \div 2} :
                \/ ata[Ix.repay] < repaid /\ Fails("funds")
                \/ /\ ata[Ix.repay] >= repaid /\ ata' = Spent(Ix.repay, repaid, Ix.coll, Seized(repaid))
                   /\ short' = (short \/ repaid < Ix.amount)
                   /\ UNCHANGED <<fault, flash, owes, holds, fresh>>
         /\ Ix.op = "swap" =>
              \E out \in {Ix.min - 1, Ix.min, Ix.in + 1} :
                \/ Holding(Ix.from) < Ix.in /\ Fails("funds")
                \/ Fails("slippage")
                \/ /\ Holding(Ix.from) >= Ix.in /\ out >= Ix.min
                   /\ ata' = Spent(Ix.from, Ix.in, Ix.to, out) /\ short' = (short \/ out < Ix.in + 1)
                   /\ UNCHANGED <<fault, flash, owes, holds, fresh>>
  BY DEF FlashStep, Next0, RunMarginFi, RunSolend, RunLiquidation, RunSwap, RunOther

LEMMA PaidHolds ==
  ASSUME NEW t, NEW n \in Int, ata' = Paid(t, n), \A x : Holding(x) \in Int
  PROVE  /\ \A x : Holding(x)' = IF x = t THEN Holding(x) + n ELSE Holding(x)
         /\ DOMAIN ata \subseteq DOMAIN ata'
<1>1. DOMAIN ata' = DOMAIN ata \cup {t}
  BY DEF Paid
<1>2. \A x \in DOMAIN ata' : ata'[x] = IF x = t THEN Holding(t) + n ELSE ata[x]
  BY <1>1 DEF Paid
<1> QED  BY <1>1, <1>2 DEF Holding

LEMMA SpentHolds ==
  ASSUME NEW f, NEW t, NEW in \in Nat, NEW out \in Int, ata' = Spent(f, in, t, out),
         \A x : Holding(x) \in Int, Holding(f) >= in
  PROVE  /\ \A x : Holding(x)' = Holding(x) - (IF x = f THEN in ELSE 0) + (IF x = t THEN out ELSE 0)
         /\ DOMAIN ata \subseteq DOMAIN ata'
<1>1. DOMAIN ata' = DOMAIN ata \cup {t}
  BY DEF Spent
<1>2. \A x \in DOMAIN ata' : ata'[x] = Holding(x) - (IF x = f THEN in ELSE 0) + (IF x = t THEN out ELSE 0)
  BY <1>1 DEF Spent
<1>3. ASSUME NEW x, x \notin DOMAIN ata'
      PROVE  Holding(x)' = Holding(x) - (IF x = f THEN in ELSE 0) + (IF x = t THEN out ELSE 0)
  <2>1. x \notin DOMAIN ata /\ x # t
    BY <1>1, <1>3
  <2>2. Holding(x) = 0 /\ Holding(x)' = 0
    BY <1>3, <2>1 DEF Holding
  <2>3. x = f => in = 0
    BY <2>2
  <2> QED  BY <2>1, <2>2, <2>3
<1>4. \A x \in DOMAIN ata' : Holding(x)' = ata'[x]
  BY DEF Holding
<1> QED  BY <1>1, <1>2, <1>3, <1>4

---------------------------------------------------------------------------
\* The inductive invariant, for a layout with A before the loan and C between its
\* halves: MarginFi knows where its end is while the loan is open, ...
First(j, A) == Len(A) + Offset(j)
FlashKept(A, C) ==
  Lender(job) = "marginfi" =>
    flash = IF pc \in Len(A) + 1..Len(A) + Len(C) + 3 THEN Len(A) + Len(C) + 3 ELSE NoFlash

\* ... nobody but the plan owes more than the loan, nor seizes; the plan is in debt
\* from the loan on and never gets past its deposit, ...
DebtKept(A, C) ==
  /\ owes \in [{LoanMint, Coll} -> Nat] /\ holds \in [{LoanMint, Coll} -> Nat]
  /\ job.caller # "marginfi" =>
       /\ holds[LoanMint] = 0 /\ holds[Coll] = 0 /\ owes[Coll] = 0
       /\ owes[LoanMint] = IF Lender(job) = "marginfi" /\ pc \in Len(A) + 2..Len(A) + Len(C) + 2
                           THEN Loan ELSE 0
  /\ job.caller = "marginfi" =>
       pc <= Len(A) + Len(C) + 2 /\ (pc >= Len(A) + 2 => owes[LoanMint] >= Loan)
  /\ \A k \in 2..Len(C) : pc = First(job, A) + k - 1 /\ C[k - 1].op = "seize" => holds[Coll] >= Seized(Loan)

\* ... what was refreshed is fresh, ...
FreshKept(A, C) ==
  /\ Lender(job) = "solend" /\ pc > Len(A) => LoanMint \in fresh
  /\ \A i \in 1..Len(C) : C[i] \in Refreshes /\ First(job, A) + i <= pc => C[i].reserve \in fresh

\* ... no account is overdrawn, and the next instruction to spend finds what it
\* spends, unless something paid less than was quoted.
WalletKept ==
  /\ LoanMint \in DOMAIN ata /\ short \in BOOLEAN
  /\ \A t : Holding(t) \in Int /\ (short \/ Holding(t) >= 0)
Fed(A, C) ==
  Lender(job) # "none" /\ pc >= First(job, A) =>
    \A k \in 1..Len(C) :
      Money(C[k]) /\ First(job, A) + k - 1 >= pc /\ NoneIn(C, pc - First(job, A) + 1, k - 1) =>
        short \/ Holding(Source(C[k])) >= Need(C[k])

Going(A, C) == FlashKept(A, C) /\ DebtKept(A, C) /\ FreshKept(A, C) /\ WalletKept /\ Fed(A, C)

\* EnvelopesClose of a reason.
Excused(why) ==
  \/ why = "slippage"
  \/ why = "funds" /\ (short \/ Ix.op \in {"repay", "srepay"} \/ (job.caller = "solend" /\ job.lender = "none"))
  \/ why = "borrowIndex" /\ \/ job.caller = "native" /\ job.lender = "solend" /\ Len(Interim(job.path)) # 1
                            \/ job.caller = "solend" /\ job.lender = "solend" /\ ~job.price
  \/ why = "depositOnly" /\ job.caller = "marginfi"
  \/ why = "stale" /\ ~Known(job)

LEMMA Spends ==
  ASSUME NEW C \in Seq(Between), NEW k \in 1..Len(C)
  PROVE  Need(C[k]) \in Int /\ Gives(C[k]) \in Int
<1>1. C[k] \in Between
  BY ElementOfSeq
<1>2. Loan \in Nat /\ Seized(Loan) \in Nat
  BY FlashAssumption, SeizedNat
<1>3. \A ix \in Between : (ix.op = "swap" => ix.in \in Nat)
  BY DEF Between, Quiet, Opening, Trades, Repays, Seizes, Withdraws, Refreshes, Obligations
<1> QED  BY <1>1, <1>2, <1>3 DEF Need, Gives

LEMMA RolledBack ==
  ASSUME FlashStep, NEW why, Fails(why), Excused(why)
  PROVE  fault' # "none" /\ EnvelopesClose'
<1>1. why # "none" /\ fault' = why /\ short' = short
  BY DEF Excused, Fails
<1>2. job' = job /\ Ix' = Ix
  BY <1>1, Effects DEF Ix
<1>3. why \in {"slippage", "funds", "borrowIndex", "depositOnly", "stale"}
  BY DEF Excused
<1>4. CASE why = "slippage"
  BY <1>1, <1>4 DEF EnvelopesClose
<1>5. CASE why = "funds"
  BY <1>1, <1>2, <1>5 DEF EnvelopesClose, Excused
<1>6. CASE why = "borrowIndex"
  BY <1>1, <1>2, <1>6 DEF EnvelopesClose, Excused
<1>7. CASE why = "depositOnly"
  BY <1>1, <1>2, <1>7 DEF EnvelopesClose, Excused
<1>8. CASE why = "stale"
  BY <1>1, <1>2, <1>8 DEF EnvelopesClose, Excused, Known
<1> QED  BY <1>1, <1>3, <1>4, <1>5, <1>6, <1>7, <1>8

LEMMA NotRolledBack ==
  ASSUME fault' = "none"
  PROVE  EnvelopesClose'
  BY DEF EnvelopesClose

LEMMA Counted ==
  ASSUME pc \in Nat, pc' = pc + 1, NEW f \in Nat, NEW m \in Nat, NEW k \in Nat,
         pc = f + m - 1, f + k - 1 >= pc', m >= 1
  PROVE  pc' - f + 1 = m + 1 /\ m <= k - 1 /\ pc - f + 1 = m /\ f + k - 1 >= pc /\ pc >= f
  OBVIOUS

\* An instruction between the halves, from what it leaves behind.
LEMMA MiddleAdvances ==
  ASSUME job \in FlashJobs, NEW A, NEW C, Going(A, C), pc \in Nat,
         C \in Seq(Between), Len(A) \in Nat, Len(C) \in Nat, Chained(job, C),
         NEW m \in 1..Len(C), pc = First(job, A) + m - 1, pc' = pc + 1, job' = job,
         flash' = flash, fresh \subseteq fresh', C[m] \in Refreshes => C[m].reserve \in fresh',
         owes' \in [{LoanMint, Coll} -> Nat], holds' \in [{LoanMint, Coll} -> Nat],
         job.caller # "marginfi" => owes' = owes /\ holds' = holds,
         job.caller = "marginfi" => owes'[LoanMint] >= owes[LoanMint],
         C[m].op = "seize" => holds'[Coll] >= Seized(Loan),
         WalletKept',
         ~Money(C[m]) => short' = short /\ \A t : Holding(t)' = Holding(t),
         Money(C[m]) => short' \/ Holding(Sink(C[m]))' >= Gives(C[m])
  PROVE  Going(A, C)'
<1>1. /\ Lender(job)' = Lender(job) /\ First(job, A)' = First(job, A) /\ Offset(job) \in {0, 2}
      /\ First(job, A) = Len(A) + Offset(job) /\ First(job, A) \in Nat
      /\ (Lender(job) = "marginfi" => Offset(job) = 2)
      /\ (job.caller = "marginfi" => Lender(job) = "marginfi")
  BY Lenders DEF First, Offset
<1>2. FlashKept(A, C)'
  BY <1>1 DEF Going, FlashKept
<1>3. DebtKept(A, C)'
  <2>1. ASSUME job.caller # "marginfi"
        PROVE  /\ holds'[LoanMint] = 0 /\ holds'[Coll] = 0 /\ owes'[Coll] = 0
               /\ owes'[LoanMint] = IF Lender(job) = "marginfi" /\ pc' \in Len(A) + 2..Len(A) + Len(C) + 2
                                    THEN Loan ELSE 0
    <3>1. Lender(job) = "marginfi" => (pc \in Len(A) + 2..Len(A) + Len(C) + 2) /\ pc' \in Len(A) + 2..Len(A) + Len(C) + 2
      BY <1>1
    <3> QED  BY <2>1, <3>1 DEF Going, DebtKept
  <2>2. ASSUME job.caller = "marginfi"
        PROVE  pc' <= Len(A) + Len(C) + 2 /\ owes'[LoanMint] >= Loan
    <3>1. pc >= Len(A) + 2 /\ pc' <= Len(A) + Len(C) + 2
      BY <1>1, <2>2
    <3>2. owes[LoanMint] >= Loan /\ owes[LoanMint] \in Nat /\ owes'[LoanMint] \in Nat
      BY <2>2, <3>1 DEF Going, DebtKept
    <3>3. Loan \in Nat
      BY FlashAssumption
    <3> QED  BY <2>2, <3>1, <3>2, <3>3
  <2>3. ASSUME NEW k \in 2..Len(C), pc' = First(job, A) + k - 1, C[k - 1].op = "seize"
        PROVE  holds'[Coll] >= Seized(Loan)
    <3> DEFINE f == First(job, A)
    <3>1. f \in Nat /\ pc = f + m - 1 /\ pc' = f + k - 1
      BY <1>1, <2>3
    <3> HIDE DEF f
    <3>2. k - 1 = m
      BY <3>1
    <3> QED  BY <2>3, <3>2
  <2> QED  BY <1>1, <2>1, <2>2, <2>3 DEF DebtKept
<1>4. FreshKept(A, C)'
  <2>1. Lender(job) = "solend" => pc > Len(A)
    BY <1>1 DEF Offset
  <2>2. Lender(job) = "solend" => LoanMint \in fresh'
    BY <2>1 DEF Going, FreshKept
  <2>3. ASSUME NEW i \in 1..Len(C), C[i] \in Refreshes, First(job, A) + i <= pc'
        PROVE  C[i].reserve \in fresh'
    <3>1. First(job, A) + i <= pc \/ i = m
      BY <1>1, <2>3
    <3> QED  BY <2>3, <3>1 DEF Going, FreshKept
  <2> QED  BY <1>1, <2>2, <2>3 DEF FreshKept
<1>5. Fed(A, C)'
  <2> SUFFICES ASSUME Lender(job) # "none", NEW k \in 1..Len(C), Money(C[k]), First(job, A) + k - 1 >= pc',
                      NoneIn(C, pc' - First(job, A) + 1, k - 1)
               PROVE  short' \/ Holding(Source(C[k]))' >= Need(C[k])
    BY <1>1 DEF Fed
  <2>1. pc' - First(job, A) + 1 = m + 1 /\ m \in 1..k - 1 /\ pc - First(job, A) + 1 = m
        /\ First(job, A) + k - 1 >= pc /\ pc >= First(job, A)
    <3> DEFINE f == First(job, A)
    <3>1. f \in Nat /\ pc = f + m - 1 /\ pc' = pc + 1 /\ f + k - 1 >= pc' /\ m \in Nat /\ k \in Nat /\ m >= 1
      BY <1>1
    <3> HIDE DEF f
    <3>3. pc' - f + 1 = m + 1 /\ m <= k - 1 /\ pc - f + 1 = m /\ f + k - 1 >= pc /\ pc >= f
      BY <3>1, Counted, Zenon
    <3> QED  BY <3>1, <3>3 DEF f
  <2>2. NoneIn(C, m + 1, k - 1)
    BY <2>1
  <2>3. CASE Money(C[m])
    <3>1. Source(C[k]) = Sink(C[m]) /\ Need(C[k]) <= Gives(C[m])
      BY <2>1, <2>2, <2>3 DEF Chained
    <3>2. Holding(Sink(C[m]))' \in Int
      BY DEF WalletKept
    <3>3. Need(C[k]) \in Int /\ Gives(C[m]) \in Int
      BY Spends
    <3>4. Holding(Source(C[k]))' = Holding(Sink(C[m]))'
      BY <3>1
    <3> QED  BY <2>3, <3>1, <3>2, <3>3, <3>4
  <2>4. CASE ~Money(C[m])
    <3>1. NoneIn(C, m, k - 1)
      BY <2>1, <2>2, <2>4 DEF NoneIn
    <3>2. short \/ Holding(Source(C[k])) >= Need(C[k])
      BY <2>1, <3>1 DEF Going, Fed
    <3>3. short' = short /\ Holding(Source(C[k]))' = Holding(Source(C[k]))
      BY <2>4
    <3> QED  BY <3>2, <3>3
  <2> QED  BY <2>3, <2>4
<1> QED  BY <1>2, <1>3, <1>4, <1>5 DEF Going

LEMMA MiddleStep ==
  ASSUME job \in FlashJobs, NEW A, NEW C, NEW E, Shaped(job, tx, A, C, E), Going(A, C), pc \in Nat,
         FlashStep, NEW m \in 1..Len(C), pc = First(job, A) + m - 1
  PROVE  (fault' = "none" => Going(A, C)') /\ EnvelopesClose'
<1>1. /\ C \in Seq(Between) /\ Len(A) \in Nat /\ Len(C) \in Nat
      /\ tx[Len(A) + Offset(job) + m] = C[m]
  BY Places DEF MiddleAt
<1>2. Chained(job, C) /\ Refreshed(job, C) /\ SeizedHere(job, C)
  BY DEF Shaped, MiddleOk
<1>3. Ix = C[m] /\ Ix \in Between
  <2>1. pc + 1 = Len(A) + Offset(job) + m
    <3>1. Offset(job) \in Nat
      BY DEF Offset
    <3> QED  BY <1>1, <3>1 DEF First
  <2> QED  BY <1>1, <2>1, ElementOfSeq DEF Ix
<1>4. Loan \in Nat /\ Loan # 0 /\ Seized(Loan) \in Nat /\ LoanMint # Coll
  BY FlashAssumption, SeizedNat
<1>5. /\ LoanMint \in DOMAIN ata /\ short \in BOOLEAN
      /\ \A t : Holding(t) \in Int
      /\ \A t : short \/ Holding(t) >= 0
  BY DEF Going, WalletKept
<1>6. owes \in [{LoanMint, Coll} -> Nat] /\ holds \in [{LoanMint, Coll} -> Nat]
  BY DEF Going, DebtKept
<1>7. fault = "none" /\ job' = job /\ (fault' = "none" => pc' = pc + 1)
  BY Effects
<1>8. ASSUME fault' = "none", flash' = flash, fresh \subseteq fresh', C[m] \in Refreshes => C[m].reserve \in fresh',
             owes' \in [{LoanMint, Coll} -> Nat], holds' \in [{LoanMint, Coll} -> Nat],
             job.caller # "marginfi" => owes' = owes /\ holds' = holds,
             job.caller = "marginfi" => owes'[LoanMint] >= owes[LoanMint],
             C[m].op = "seize" => holds'[Coll] >= Seized(Loan),
             WalletKept',
             ~Money(C[m]) => short' = short /\ \A t : Holding(t)' = Holding(t),
             Money(C[m]) => short' \/ Holding(Sink(C[m]))' >= Gives(C[m])
      PROVE  (fault' = "none" => Going(A, C)') /\ EnvelopesClose'
  BY <1>1, <1>2, <1>7, <1>8, MiddleAdvances, NotRolledBack
<1>9. owes[LoanMint] \in Nat /\ owes[Coll] \in Nat /\ holds[LoanMint] \in Nat /\ holds[Coll] \in Nat
  BY <1>6
\* What leaves the debts and the market alone.
<1>10. ASSUME UNCHANGED <<fault, flash, owes, holds, short>>, fresh \subseteq fresh',
              C[m] \in Refreshes => C[m].reserve \in fresh', C[m].op # "seize", ~Money(C[m]),
              LoanMint \in DOMAIN ata', \A t : Holding(t)' = Holding(t)
       PROVE  (fault' = "none" => Going(A, C)') /\ EnvelopesClose'
  <2>1. WalletKept'
    BY <1>5, <1>10 DEF WalletKept
  <2>2. owes'[LoanMint] >= owes[LoanMint]
    BY <1>9, <1>10
  <2> QED  BY <1>6, <1>7, <1>8, <1>10, <2>1, <2>2
<1>11. ata' = ata => LoanMint \in DOMAIN ata' /\ \A t : Holding(t)' = Holding(t)
  BY <1>5 DEF Holding
<1>12. CASE Ix \in Quiet
  <2>1. Ix.op \in {"limit", "price", "tip", "pyth", "cleanup"}
    BY <1>12 DEF Quiet
  <2>2. UNCHANGED <<fault, ata, flash, owes, holds, fresh, short>>
    BY <2>1, Effects
  <2>3. C[m] \notin Refreshes /\ C[m].op # "seize" /\ ~Money(C[m])
    BY <1>3, <2>1 DEF Refreshes, Money
  <2> QED  BY <1>10, <1>11, <2>2, <2>3
<1>13. CASE Ix \in Opening
  <2>1. Ix.op \in {"ata", "setup"}
    BY <1>13 DEF Opening
  <2>2. ata' = Paid(Ix.token, 0) /\ UNCHANGED <<fault, flash, owes, holds, fresh, short>>
    BY <2>1, Effects
  <2>3. C[m] \notin Refreshes /\ C[m].op # "seize" /\ ~Money(C[m])
    BY <1>3, <2>1 DEF Refreshes, Money
  <2>4. /\ \A x : Holding(x)' = IF x = Ix.token THEN Holding(x) + 0 ELSE Holding(x)
        /\ DOMAIN ata \subseteq DOMAIN ata'
    BY <1>5, <2>2, PaidHolds
  <2>5. LoanMint \in DOMAIN ata' /\ \A t : Holding(t)' = Holding(t)
    BY <1>5, <2>4
  <2> QED  BY <1>10, <2>2, <2>3, <2>5
<1>14. CASE Ix \in Refreshes
  <2>1. Ix.op = "refresh"
    BY <1>14 DEF Refreshes
  <2>2. fresh' = fresh \cup {Ix.reserve} /\ UNCHANGED <<fault, ata, flash, owes, holds, short>>
    BY <2>1, Effects
  <2>3. C[m].op # "seize" /\ ~Money(C[m])
    BY <1>3, <2>1 DEF Money
  <2> QED  BY <1>3, <1>10, <1>11, <2>2, <2>3
<1>15. CASE Ix \in Obligations
  <2>1. Ix.op = "obligation"
    BY <1>15 DEF Obligations
  <2>2. \/ ~(Ix.reserves \subseteq fresh) /\ Fails("stale")
        \/ UNCHANGED <<fault, ata, flash, owes, holds, fresh, short>>
    BY <2>1, EffectsBetween
  <2>3. CASE UNCHANGED <<fault, ata, flash, owes, holds, fresh, short>>
    <3>1. C[m] \notin Refreshes /\ C[m].op # "seize" /\ ~Money(C[m])
      BY <1>3, <2>1 DEF Refreshes, Money
    <3> QED  BY <1>10, <1>11, <2>3, <3>1
  <2>4. CASE ~(Ix.reserves \subseteq fresh) /\ Fails("stale")
    <3>1. ~Known(job)
      <4> SUFFICES ASSUME Known(job) PROVE Ix.reserves \subseteq fresh
        BY <2>4
      <4>1. \A r \in C[m].reserves : RefreshedIn(C, m, r)
        BY <1>2, <1>3, <2>1 DEF Refreshed
      <4>2. ASSUME NEW r \in C[m].reserves PROVE r \in fresh
        <5>1. PICK i \in 1..m - 1 : C[i] \in Refreshes /\ C[i].reserve = r
          BY <4>1 DEF RefreshedIn
        <5>2. i \in 1..Len(C) /\ First(job, A) + i <= pc
          <6>1. First(job, A) \in Nat
            BY <1>1 DEF First, Offset
          <6> QED  BY <1>1, <6>1
        <5> QED  BY <5>1, <5>2 DEF Going, FreshKept
      <4> QED  BY <1>3, <4>2
    <3>2. Excused("stale")
      BY <3>1 DEF Excused
    <3> QED  BY <2>4, <3>2, RolledBack
  <2> QED  BY <2>2, <2>3, <2>4
<1>16. CASE Ix \in Seizes
  <2>1. Ix.op = "seize" /\ Ix.asset = Coll /\ Ix.liab = LoanMint /\ Ix.amount = Loan
    BY <1>16 DEF Seizes
  <2>2. job.caller = "marginfi" /\ Ix.theirs + Ix.ours = 2 * Len(Ix.tail)
    BY <1>2, <1>3, <2>1 DEF SeizedHere
  <2>3. /\ holds' = [holds EXCEPT ![Coll] = @ + Seized(Loan)]
        /\ owes' = [owes EXCEPT ![LoanMint] = @ + Loan]
        /\ UNCHANGED <<fault, ata, flash, fresh, short>>
    BY <2>1, <2>2, EffectsBetween
  <2>4. /\ owes' \in [{LoanMint, Coll} -> Nat] /\ holds' \in [{LoanMint, Coll} -> Nat]
        /\ owes'[LoanMint] = owes[LoanMint] + Loan /\ holds'[Coll] = holds[Coll] + Seized(Loan)
    <3>1. owes[LoanMint] + Loan \in Nat /\ holds[Coll] + Seized(Loan) \in Nat
      BY <1>4, <1>9
    <3>2. owes' = [owes EXCEPT ![LoanMint] = owes[LoanMint] + Loan]
      BY <2>3
    <3>3. holds' = [holds EXCEPT ![Coll] = holds[Coll] + Seized(Loan)]
      BY <2>3
    <3>4. owes' \in [{LoanMint, Coll} -> Nat] /\ owes'[LoanMint] = owes[LoanMint] + Loan
      BY <1>6, <3>1, <3>2
    <3>5. holds' \in [{LoanMint, Coll} -> Nat] /\ holds'[Coll] = holds[Coll] + Seized(Loan)
      BY <1>6, <3>1, <3>3
    <3> QED  BY <3>4, <3>5
  <2>5. owes'[LoanMint] >= owes[LoanMint] /\ holds'[Coll] >= Seized(Loan)
    <3>1. owes'[LoanMint] >= owes[LoanMint]
      BY <1>4, <1>9, <2>4
    <3>2. holds'[Coll] >= Seized(Loan)
      BY <1>4, <1>9, <2>4
    <3> QED  BY <3>1, <3>2
  <2>6. C[m] \notin Refreshes /\ ~Money(C[m])
    BY <1>3, <2>1 DEF Refreshes, Money
  <2>7. WalletKept'
    BY <1>5, <1>11, <2>3 DEF WalletKept
  <2> QED  BY <1>7, <1>8, <1>11, <2>2, <2>3, <2>4, <2>5, <2>6, <2>7
<1>17. CASE Ix \in Withdraws
  <2>1. Ix.op = "withdraw" /\ Ix.bank = Coll
    BY <1>17 DEF Withdraws
  <2>2. job.caller = "marginfi" /\ m > 1 /\ C[m - 1].op = "seize"
    BY <1>2, <1>3, <2>1 DEF SeizedHere
  <2>3. holds[Coll] >= Seized(Loan)
    <3>1. m \in 2..Len(C)
      BY <1>1, <2>2
    <3> QED  BY <2>2, <3>1 DEF Going, DebtKept
  <2>4. /\ ata' = Paid(Coll, holds[Coll]) /\ holds' = [holds EXCEPT ![Coll] = 0]
        /\ UNCHANGED <<fault, flash, owes, fresh, short>>
    BY <2>1, Effects
  <2>5. /\ \A x : Holding(x)' = IF x = Coll THEN Holding(x) + holds[Coll] ELSE Holding(x)
        /\ DOMAIN ata \subseteq DOMAIN ata'
    BY <1>5, <1>9, <2>4, PaidHolds
  <2>6. WalletKept'
    BY <1>5, <1>9, <2>4, <2>5 DEF WalletKept
  <2>7. short' \/ Holding(Coll)' >= Seized(Loan)
    <3>1. Holding(Coll)' = Holding(Coll) + holds[Coll]
      BY <2>5
    <3>2. Holding(Coll) \in Int /\ (short \/ Holding(Coll) >= 0)
      BY <1>5
    <3> QED  BY <1>4, <1>9, <2>3, <2>4, <3>1, <3>2
  <2>8. Money(C[m]) /\ Sink(C[m]) = Coll /\ Gives(C[m]) = Seized(Loan) /\ C[m] \notin Refreshes
    BY <1>3, <2>1 DEF Money, Sink, Gives, Refreshes
  <2>9. holds' \in [{LoanMint, Coll} -> Nat] /\ owes'[LoanMint] >= owes[LoanMint]
    BY <1>6, <1>9, <2>4
  <2> QED  BY <1>3, <1>6, <1>7, <1>8, <2>1, <2>2, <2>4, <2>6, <2>7, <2>8, <2>9
<1>18. Fed(A, C) /\ Money(C[m]) /\ Lender(job) # "none" => short \/ Holding(Source(C[m])) >= Need(C[m])
  <2>1. NoneIn(C, pc - First(job, A) + 1, m - 1)
    <3>1. First(job, A) \in Nat
      BY <1>1 DEF First, Offset
    <3>2. pc - First(job, A) + 1 = m
      BY <3>1
    <3> QED  BY <3>2 DEF NoneIn
  <2>2. First(job, A) + m - 1 >= pc /\ pc >= First(job, A)
    <3>1. First(job, A) \in Nat
      BY <1>1 DEF First, Offset
    <3> QED  BY <3>1
  <2> QED  BY <2>1, <2>2 DEF Fed
<1>19. CASE Ix \in Repays
  <2>1. Ix.op = "liquidate" /\ Ix.repay = LoanMint /\ Ix.amount = Loan /\ Ix.coll \in FlashMints
    BY <1>19 DEF Repays
  <2>2. PICK repaid \in {Loan, Loan \div 2} :
           \/ ata[LoanMint] < repaid /\ Fails("funds")
           \/ /\ ata[LoanMint] >= repaid /\ ata' = Spent(LoanMint, repaid, Ix.coll, Seized(repaid))
              /\ short' = (short \/ repaid < Loan) /\ UNCHANGED <<fault, flash, owes, holds, fresh>>
    BY <2>1, EffectsBetween
  <2>3. /\ Money(C[m]) /\ Source(C[m]) = LoanMint /\ Need(C[m]) = Loan /\ Sink(C[m]) = Ix.coll
        /\ Gives(C[m]) = Seized(Loan) /\ C[m] \notin Refreshes /\ C[m].op # "seize"
    BY <1>3, <2>1 DEF Money, Source, Need, Sink, Gives, Refreshes
  <2>4. repaid \in Nat /\ repaid <= Loan /\ (repaid < Loan \/ repaid = Loan)
    BY <1>4
  <2>5. Holding(LoanMint) = ata[LoanMint]
    BY <1>5 DEF Holding
  <2>50. PICK to : to = Ix.coll
    OBVIOUS
  <2>6. CASE ata[LoanMint] < repaid /\ Fails("funds")
    <3>1. short \/ (job.caller = "solend" /\ job.lender = "none")
      <4>1. Lender(job) = "none" => job.caller = "solend" /\ job.lender = "none"
        BY Lenders
      <4>2. Fed(A, C)
        BY DEF Going
      <4>3. ~(Holding(LoanMint) >= Loan)
        <5>1. Holding(LoanMint) \in Int
          BY <1>5
        <5> QED  BY <1>4, <2>4, <2>5, <2>6, <5>1
      <4> QED  BY <1>18, <2>3, <4>1, <4>2, <4>3
    <3>2. Excused("funds")
      BY <3>1 DEF Excused
    <3> QED  BY <2>6, <3>2, RolledBack
  <2>7. CASE /\ ata[LoanMint] >= repaid /\ ata' = Spent(LoanMint, repaid, Ix.coll, Seized(repaid))
             /\ short' = (short \/ repaid < Loan) /\ UNCHANGED <<fault, flash, owes, holds, fresh>>
    <3>1. Seized(repaid) \in Nat
      <4>1. BonusPct \in Nat
        BY FlashAssumption
      <4>2. repaid * (100 + BonusPct) \in Nat
        BY <2>4, <4>1
      <4> DEFINE n == repaid * (100 + BonusPct)
      <4> HIDE DEF n
      <4>3. n \in Nat
        BY <4>2 DEF n
      <4>4. n \div 100 \in Nat
        BY <4>3
      <4> QED  BY <4>4 DEF n, Seized
    <3>2. /\ \A x : Holding(x)' = Holding(x) - (IF x = LoanMint THEN repaid ELSE 0)
                                             + (IF x = to THEN Seized(repaid) ELSE 0)
          /\ DOMAIN ata \subseteq DOMAIN ata'
      <4>1. ata' = Spent(LoanMint, repaid, to, Seized(repaid))
        BY <2>7, <2>50
      <4>2. Holding(LoanMint) >= repaid /\ \A x : Holding(x) \in Int
        BY <1>5, <2>5, <2>7
      <4>3. repaid \in Nat /\ Seized(repaid) \in Int
        BY <2>4, <3>1
      <4> QED  BY <4>1, <4>2, <4>3, SpentHolds
    <3>3. ASSUME NEW x PROVE Holding(x)' \in Int /\ (short' \/ Holding(x)' >= 0)
      <4>1. Holding(x)' = Holding(x) - (IF x = LoanMint THEN repaid ELSE 0) + (IF x = to THEN Seized(repaid) ELSE 0)
        BY <3>2
      <4>2. Holding(x) \in Int /\ (short \/ Holding(x) >= 0) /\ (x = LoanMint => Holding(x) >= repaid)
        BY <1>5, <2>5, <2>7
      <4>3. short => short'
        BY <2>7
      <4>4. Holding(x)' \in Int /\ (Holding(x) >= 0 => Holding(x)' >= 0)
        BY <2>4, <3>1, <4>1, <4>2
      <4> QED  BY <4>2, <4>3, <4>4
    <3>4. short' \in BOOLEAN
      BY <2>7
    <3>5. WalletKept'
      BY <1>5, <3>2, <3>3, <3>4 DEF WalletKept
    <3>6. short' \/ Holding(to)' >= Seized(Loan)
      <4>1. CASE repaid < Loan
        BY <2>7, <4>1
      <4>2. CASE repaid = Loan
        <5>1. Holding(to)' = Holding(to) - (IF to = LoanMint THEN Loan ELSE 0) + Seized(Loan)
          BY <3>2, <4>2
        <5>2. Holding(to) \in Int /\ (short \/ Holding(to) >= 0) /\ (to = LoanMint => Holding(to) >= Loan)
          BY <1>5, <2>5, <2>7, <4>2
        <5>3. short => short'
          BY <2>7
        <5>4. Holding(to) >= 0 => Holding(to)' >= Seized(Loan)
          BY <1>4, <5>1, <5>2
        <5> QED  BY <5>2, <5>3, <5>4
      <4> QED  BY <2>4, <4>1, <4>2
    <3>7. owes'[LoanMint] >= owes[LoanMint]
      BY <1>9, <2>7
    <3>8. Sink(C[m]) = to /\ Gives(C[m]) = Seized(Loan)
      BY <2>3, <2>50
    <3>9. short' \/ Holding(Sink(C[m]))' >= Gives(C[m])
      BY <3>6, <3>8
    <3>10. Money(C[m]) /\ C[m] \notin Refreshes /\ C[m].op # "seize"
      BY <2>3
    <3> QED  BY <1>6, <1>7, <1>8, <2>7, <3>5, <3>7, <3>9, <3>10
  <2> QED  BY <2>2, <2>6, <2>7
<1>20. CASE Ix \in Trades
  <2>1. Ix.op = "swap" /\ Ix.in \in Nat /\ Ix.min \in Int
    BY <1>20 DEF Trades
  <2>2. PICK out \in {Ix.min - 1, Ix.min, Ix.in + 1} :
           \/ Holding(Ix.from) < Ix.in /\ Fails("funds")
           \/ Fails("slippage")
           \/ /\ Holding(Ix.from) >= Ix.in /\ out >= Ix.min
              /\ ata' = Spent(Ix.from, Ix.in, Ix.to, out) /\ short' = (short \/ out < Ix.in + 1)
              /\ UNCHANGED <<fault, flash, owes, holds, fresh>>
    BY <2>1, EffectsBetween
  <2>3. /\ Money(C[m]) /\ Source(C[m]) = Ix.from /\ Need(C[m]) = Ix.in /\ Sink(C[m]) = Ix.to
        /\ Gives(C[m]) = Ix.in + 1 /\ C[m] \notin Refreshes /\ C[m].op # "seize"
    BY <1>3, <2>1 DEF Money, Source, Need, Sink, Gives, Refreshes
  <2>4. out \in Int
    BY <2>1
  <2>40. PICK to : to = Ix.to
    OBVIOUS
  <2>5. CASE Fails("slippage")
    <3>1. Excused("slippage")
      BY DEF Excused
    <3> QED  BY <2>5, <3>1, RolledBack
  <2>6. CASE Holding(Ix.from) < Ix.in /\ Fails("funds")
    <3>1. short \/ (job.caller = "solend" /\ job.lender = "none")
      <4>1. Lender(job) = "none" => job.caller = "solend" /\ job.lender = "none"
        BY Lenders
      <4>2. Fed(A, C)
        BY DEF Going
      <4>3. ~(Holding(Ix.from) >= Ix.in)
        <5>1. Holding(Ix.from) \in Int
          BY <1>5
        <5> QED  BY <2>1, <2>6, <5>1
      <4> QED  BY <1>18, <2>3, <4>1, <4>2, <4>3
    <3>2. Excused("funds")
      BY <3>1 DEF Excused
    <3> QED  BY <2>6, <3>2, RolledBack
  <2>7. CASE /\ Holding(Ix.from) >= Ix.in /\ out >= Ix.min
             /\ ata' = Spent(Ix.from, Ix.in, Ix.to, out) /\ short' = (short \/ out < Ix.in + 1)
             /\ UNCHANGED <<fault, flash, owes, holds, fresh>>
    <3>2. /\ \A x : Holding(x)' = Holding(x) - (IF x = Ix.from THEN Ix.in ELSE 0) + (IF x = Ix.to THEN out ELSE 0)
          /\ DOMAIN ata \subseteq DOMAIN ata'
      BY <1>5, <2>1, <2>4, <2>7, SpentHolds
    <3>1. short' \/ (out >= 0 /\ out >= Ix.in + 1)
      <4>1. ~(out < Ix.in + 1) => out >= 0 /\ out >= Ix.in + 1
        BY <2>1, <2>4
      <4> QED  BY <2>7, <4>1
    <3>3. ASSUME NEW x PROVE Holding(x)' \in Int /\ (short' \/ Holding(x)' >= 0)
      <4>1. Holding(x)' = Holding(x) - (IF x = Ix.from THEN Ix.in ELSE 0) + (IF x = Ix.to THEN out ELSE 0)
        BY <3>2
      <4>2. Holding(x) \in Int /\ (short \/ Holding(x) >= 0) /\ (x = Ix.from => Holding(x) >= Ix.in)
        BY <1>5, <2>7
      <4>3. short => short'
        BY <2>7
      <4>4. Holding(x)' \in Int /\ (Holding(x) >= 0 /\ out >= 0 => Holding(x)' >= 0)
        BY <2>1, <2>4, <4>1, <4>2
      <4> QED  BY <3>1, <4>2, <4>3, <4>4
    <3>4. short' \in BOOLEAN
      BY <2>7
    <3>5. WalletKept'
      BY <1>5, <3>2, <3>3, <3>4 DEF WalletKept
    <3>6. short' \/ Holding(to)' >= Gives(C[m])
      <4>1. Holding(to)' = Holding(to) - (IF to = Ix.from THEN Ix.in ELSE 0) + out
        BY <2>40, <3>2
      <4>2. Holding(to) \in Int /\ (short \/ Holding(to) >= 0) /\ (to = Ix.from => Holding(to) >= Ix.in)
        BY <1>5, <2>7
      <4>3. short => short'
        BY <2>7
      <4>4. Holding(to) >= 0 /\ out >= Ix.in + 1 => Holding(to)' >= Gives(C[m])
        BY <2>1, <2>3, <2>4, <4>1, <4>2
      <4> QED  BY <3>1, <4>2, <4>3, <4>4
    <3>7. owes'[LoanMint] >= owes[LoanMint]
      BY <1>9, <2>7
    <3>8. Sink(C[m]) = to
      BY <2>3, <2>40
    <3>9. short' \/ Holding(Sink(C[m]))' >= Gives(C[m])
      BY <3>6, <3>8
    <3>10. Money(C[m]) /\ C[m] \notin Refreshes /\ C[m].op # "seize"
      BY <2>3
    <3> QED  BY <1>6, <1>7, <1>8, <2>7, <3>5, <3>7, <3>9, <3>10
  <2> QED  BY <2>2, <2>5, <2>6, <2>7
<1> QED  BY <1>3, <1>12, <1>13, <1>14, <1>15, <1>16, <1>17, <1>19, <1>20 DEF Between

\* Instructions that do nothing, or open an account.
LEMMA PrefixedStep ==
  ASSUME FlashStep, Ix \in Prefixed, WalletKept
  PROVE  UNCHANGED <<fault, flash, owes, holds, fresh, short>> /\ WalletKept' /\ pc' = pc + 1
<1>1. /\ LoanMint \in DOMAIN ata /\ short \in BOOLEAN
      /\ \A t : Holding(t) \in Int
      /\ \A t : short \/ Holding(t) >= 0
  BY DEF WalletKept
<1>2. CASE Ix \in Quiet
  <2>1. Ix.op \in {"limit", "price", "tip", "pyth", "cleanup"}
    BY <1>2 DEF Quiet
  <2>2. UNCHANGED <<fault, ata, flash, owes, holds, fresh, short>>
    BY <2>1, Effects
  <2>3. WalletKept'
    BY <1>1, <2>2 DEF WalletKept, Holding
  <2> QED  BY <2>2, <2>3, Effects
<1>3. CASE Ix \in Opening
  <2>1. Ix.op \in {"ata", "setup"}
    BY <1>3 DEF Opening
  <2>2. ata' = Paid(Ix.token, 0) /\ UNCHANGED <<fault, flash, owes, holds, fresh, short>>
    BY <2>1, Effects
  <2>3. /\ \A x : Holding(x)' = IF x = Ix.token THEN Holding(x) + 0 ELSE Holding(x)
        /\ DOMAIN ata \subseteq DOMAIN ata'
    BY <1>1, <2>2, PaidHolds
  <2>4. \A x : Holding(x)' = Holding(x)
    BY <1>1, <2>3
  <2>5. WalletKept'
    BY <1>1, <2>2, <2>3, <2>4 DEF WalletKept
  <2> QED  BY <2>2, <2>5, Effects
<1> QED  BY <1>2, <1>3 DEF Prefixed

\* Before the loan.
LEMMA PrefixStep ==
  ASSUME job \in FlashJobs, NEW A, NEW C, NEW E, Shaped(job, tx, A, C, E), Going(A, C), pc \in Nat,
         FlashStep, pc < Len(A)
  PROVE  Going(A, C)' /\ EnvelopesClose'
<1>1. MiddleAt(job, tx, A, C, E)
  BY Places
<1>2. Len(A) \in Nat /\ Len(C) \in Nat /\ C \in Seq(Between) /\ \A i \in 1..Len(A) : tx[i] \in Prefixed
  BY <1>1 DEF MiddleAt
<1>3. Ix \in Prefixed
  BY <1>2 DEF Ix
<1>4. UNCHANGED <<fault, flash, owes, holds, fresh, short>> /\ WalletKept' /\ pc' = pc + 1
  BY <1>3, PrefixedStep DEF Going
<1>5. job' = job /\ fault' = "none"
  BY <1>4, Effects
<1>6. First(job, A)' = First(job, A) /\ First(job, A) \in Nat /\ Len(A) <= First(job, A)
      /\ (Lender(job) # "none" => First(job, A) = Len(A) + 2)
  BY <1>2, <1>5 DEF First, Offset
<1>7. FlashKept(A, C)'
  BY <1>2, <1>4, <1>5 DEF Going, FlashKept
<1>8. DebtKept(A, C)'
  <2>1. ~(pc \in Len(A) + 2..Len(A) + Len(C) + 2) /\ ~(pc' \in Len(A) + 2..Len(A) + Len(C) + 2)
        /\ pc' <= Len(A) + Len(C) + 2 /\ ~(pc' >= Len(A) + 2)
    BY <1>2, <1>4
  <2>2. \A k \in 2..Len(C) : pc' # First(job, A) + k - 1
    BY <1>2, <1>4, <1>6
  <2> QED  BY <1>4, <1>5, <1>6, <2>1, <2>2 DEF Going, DebtKept
<1>9. FreshKept(A, C)'
  <2>1. ~(pc' > Len(A)) /\ \A i \in 1..Len(C) : ~(First(job, A) + i <= pc')
    BY <1>2, <1>4, <1>6
  <2> QED  BY <1>5, <1>6, <2>1 DEF FreshKept
<1>10. Fed(A, C)'
  <2>1. Lender(job) # "none" => ~(pc' >= First(job, A))
    BY <1>2, <1>4, <1>6
  <2> QED  BY <1>5, <1>6, <2>1 DEF Fed
<1> QED  BY <1>4, <1>5, <1>7, <1>8, <1>9, <1>10, NotRolledBack DEF Going

\* After it.
LEMMA TailStep ==
  ASSUME job \in FlashJobs, NEW A, NEW C, NEW E, Shaped(job, tx, A, C, E), Going(A, C), pc \in Nat,
         FlashStep, Ix \in Prefixed, job.caller # "marginfi",
         pc >= Len(A) + Len(C) + (IF Lender(job) = "marginfi" THEN 4 ELSE IF Lender(job) = "solend" THEN 3 ELSE 0)
  PROVE  Going(A, C)' /\ EnvelopesClose'
<1>1. MiddleAt(job, tx, A, C, E) /\ Lender(job) \in {"marginfi", "solend", "none"}
  BY Places, Lenders
<1>2. Len(A) \in Nat /\ Len(C) \in Nat /\ C \in Seq(Between)
  BY <1>1 DEF MiddleAt
<1>4. UNCHANGED <<fault, flash, owes, holds, fresh, short>> /\ WalletKept' /\ pc' = pc + 1
  BY PrefixedStep DEF Going
<1>5. job' = job /\ fault' = "none"
  BY <1>4, Effects
<1>6. /\ First(job, A)' = First(job, A) /\ First(job, A) \in Nat
      /\ pc >= First(job, A) + Len(C)
      /\ (Lender(job) = "marginfi" => pc >= Len(A) + Len(C) + 4)
      /\ (Lender(job) = "solend" => pc > Len(A))
  BY <1>1, <1>2, <1>5 DEF First, Offset
<1>7. FlashKept(A, C)'
  BY <1>2, <1>4, <1>5, <1>6 DEF Going, FlashKept
<1>8. DebtKept(A, C)'
  <2>1. Lender(job) = "marginfi" =>
          ~(pc \in Len(A) + 2..Len(A) + Len(C) + 2) /\ ~(pc' \in Len(A) + 2..Len(A) + Len(C) + 2)
    BY <1>2, <1>4, <1>6
  <2>2. \A k \in 2..Len(C) : pc' # First(job, A) + k - 1
    BY <1>2, <1>4, <1>6
  <2> QED  BY <1>4, <1>5, <1>6, <2>1, <2>2 DEF Going, DebtKept
<1>9. FreshKept(A, C)'
  <2>1. \A i \in 1..Len(C) : First(job, A) + i <= pc
    BY <1>2, <1>4, <1>6
  <2> QED  BY <1>4, <1>5, <1>6, <2>1 DEF Going, FreshKept
<1>10. Fed(A, C)'
  <2>1. \A k \in 1..Len(C) : ~(First(job, A) + k - 1 >= pc')
    BY <1>2, <1>4, <1>6
  <2> QED  BY <1>5, <1>6, <2>1 DEF Fed
<1> QED  BY <1>4, <1>5, <1>7, <1>8, <1>9, <1>10, NotRolledBack DEF Going

\* A loan of MarginFi is opened and closed.
LEMMA MarginFiOpens ==
  ASSUME job \in FlashJobs, NEW A, NEW C, NEW E, Shaped(job, tx, A, C, E), Going(A, C), pc \in Nat,
         FlashStep, Lender(job) = "marginfi", pc = Len(A) \/ pc = Len(A) + 1
  PROVE  (fault' = "none" => Going(A, C)') /\ EnvelopesClose'
<1>1. MiddleAt(job, tx, A, C, E) /\ MarginFiAt(job, tx, A, C, E)
  BY Places
<1>2. Len(A) \in Nat /\ Len(C) \in Nat /\ Len(E) \in Nat /\ C \in Seq(Between) /\ tx \in Seq(Ixs)
  BY <1>1 DEF MiddleAt
<1>3. /\ LoanMint \in DOMAIN ata /\ short \in BOOLEAN
      /\ \A t : Holding(t) \in Int
      /\ \A t : short \/ Holding(t) >= 0
  BY DEF Going, WalletKept
<1>4. /\ owes \in [{LoanMint, Coll} -> Nat] /\ holds \in [{LoanMint, Coll} -> Nat]
      /\ owes[LoanMint] \in Nat /\ holds[LoanMint] \in Nat /\ owes[Coll] \in Nat /\ holds[Coll] \in Nat
  BY DEF Going, DebtKept
<1>5. fault = "none" /\ job' = job /\ (fault' = "none" => pc' = pc + 1)
  BY Effects
<1>6. First(job, A) = Len(A) + 2 /\ First(job, A)' = First(job, A)
  BY <1>5 DEF First, Offset
<1>7. Loan \in Nat /\ LoanMint # Coll
  BY FlashAssumption
<1>8. CASE pc = Len(A)
  <2>1. Ix = StartFlash(Len(A) + Len(C) + 3)
    BY <1>1, <1>8 DEF Ix, MarginFiAt
  <2>2. Ix.op = "start" /\ Ix.end = Len(A) + Len(C) + 3
    BY <2>1 DEF StartFlash
  <2>3. At(Ix.end) = "end"
    <3>1. Ix.end + 1 = Len(A) + Len(C) + 4
      BY <1>2, <2>2
    <3>2. Len(A) + Len(C) + 4 \in DOMAIN tx
      BY <1>1, <1>2 DEF MarginFiAt
    <3> QED  BY <1>1, <3>1, <3>2 DEF At, MarginFiAt
  <2>4. flash' = Len(A) + Len(C) + 3 /\ UNCHANGED <<fault, ata, owes, holds, fresh, short>>
    BY <2>2, <2>3, Effects
  <2>5. pc' = Len(A) + 1 /\ fault' = "none"
    BY <1>5, <1>8, <2>4
  <2>6. FlashKept(A, C)'
    BY <1>2, <2>4, <2>5 DEF FlashKept
  <2>7. DebtKept(A, C)'
    <3>1. ~(pc \in Len(A) + 2..Len(A) + Len(C) + 2) /\ ~(pc' \in Len(A) + 2..Len(A) + Len(C) + 2)
          /\ pc' <= Len(A) + Len(C) + 2 /\ ~(pc' >= Len(A) + 2)
      BY <1>2, <1>8, <2>5
    <3>2. \A k \in 2..Len(C) : pc' # First(job, A) + k - 1
      BY <1>2, <1>6, <2>5
    <3> QED  BY <1>5, <1>6, <2>4, <3>1, <3>2 DEF Going, DebtKept
  <2>8. FreshKept(A, C)'
    <3>1. \A i \in 1..Len(C) : ~(First(job, A) + i <= pc')
      BY <1>2, <1>6, <2>5
    <3>2. Lender(job) # "solend"
      OBVIOUS
    <3> QED  BY <1>5, <1>6, <3>1, <3>2 DEF FreshKept
  <2>9. WalletKept'
    BY <2>4 DEF Going, WalletKept, Holding
  <2>10. Fed(A, C)'
    <3>1. ~(pc' >= First(job, A))
      BY <1>2, <1>6, <2>5
    <3> QED  BY <1>6, <3>1 DEF Fed
  <2> QED  BY <2>5, <2>6, <2>7, <2>8, <2>9, <2>10, NotRolledBack DEF Going
<1>9. CASE pc = Len(A) + 1
  <2>1. Ix = Borrow(LoanMint, Loan)
    <3>1. pc + 1 = Len(A) + 2
      BY <1>2, <1>9
    <3> QED  BY <1>1, <3>1 DEF Ix, MarginFiAt
  <2>2. Ix.op = "borrow" /\ Ix.bank = LoanMint /\ Ix.amount = Loan
    BY <2>1 DEF Borrow
  <2>4. /\ owes' = [owes EXCEPT ![LoanMint] = @ + Loan] /\ ata' = Paid(LoanMint, Loan)
        /\ UNCHANGED <<fault, flash, holds, fresh, short>>
    BY <2>2, Effects
  <2>5. pc' = Len(A) + 2 /\ fault' = "none"
    BY <1>2, <1>5, <1>9, <2>4
  <2>6. FlashKept(A, C)'
    BY <1>2, <1>5, <1>9, <2>4, <2>5 DEF Going, FlashKept
  <2>7. DebtKept(A, C)'
    <3>1. ~(pc \in Len(A) + 2..Len(A) + Len(C) + 2) /\ pc' \in Len(A) + 2..Len(A) + Len(C) + 2
          /\ pc' <= Len(A) + Len(C) + 2
      BY <1>2, <1>9, <2>5
    <3>2. \A k \in 2..Len(C) : pc' # First(job, A) + k - 1
      BY <1>2, <1>6, <2>5
    <3>3. /\ owes' \in [{LoanMint, Coll} -> Nat] /\ owes'[LoanMint] = owes[LoanMint] + Loan
          /\ owes'[Coll] = owes[Coll]
      BY <1>4, <1>7, <2>4
    <3>4. owes'[LoanMint] >= Loan
      BY <1>4, <1>7, <3>3
    <3>5. job.caller # "marginfi" => owes[LoanMint] = 0 /\ owes[Coll] = 0 /\ holds[LoanMint] = 0 /\ holds[Coll] = 0
      BY <3>1 DEF Going, DebtKept
    <3>6. job.caller # "marginfi" => owes'[LoanMint] = Loan
      BY <1>7, <3>3, <3>5
    <3> QED  BY <1>4, <1>5, <1>6, <2>4, <3>1, <3>2, <3>3, <3>4, <3>5, <3>6 DEF DebtKept
  <2>8. FreshKept(A, C)'
    <3>1. \A i \in 1..Len(C) : ~(First(job, A) + i <= pc')
      BY <1>2, <1>6, <2>5
    <3>2. Lender(job) # "solend"
      OBVIOUS
    <3> QED  BY <1>5, <1>6, <3>1, <3>2 DEF FreshKept
  <2>9. /\ \A x : Holding(x)' = IF x = LoanMint THEN Holding(x) + Loan ELSE Holding(x)
        /\ DOMAIN ata \subseteq DOMAIN ata'
    BY <1>3, <1>7, <2>4, PaidHolds
  <2>10. WalletKept'
    BY <1>3, <1>7, <2>4, <2>9 DEF WalletKept
  <2>11. short' \/ Holding(LoanMint)' >= Loan
    <3>1. Holding(LoanMint)' = Holding(LoanMint) + Loan
      BY <2>9
    <3> QED  BY <1>3, <1>7, <2>4, <3>1
  <2>12. Fed(A, C)'
    <3> SUFFICES ASSUME NEW k \in 1..Len(C), Money(C[k]), NoneIn(C, pc' - First(job, A) + 1, k - 1)
                 PROVE  short' \/ Holding(Source(C[k]))' >= Need(C[k])
      BY <1>5, <1>6 DEF Fed
    <3>1. NoneIn(C, 1, k - 1)
      <4>1. pc' - First(job, A) + 1 = 1
        BY <1>2, <1>6, <2>5
      <4> QED  BY <4>1
    <3>2. Source(C[k]) = LoanMint /\ Need(C[k]) <= Loan
      BY <3>1 DEF Shaped, MiddleOk, Chained
    <3>3. Need(C[k]) \in Int /\ Holding(LoanMint)' \in Int
      BY <1>2, <2>10, Spends DEF WalletKept
    <3>4. Holding(Source(C[k]))' = Holding(LoanMint)'
      BY <3>2
    <3>5. Holding(LoanMint)' >= Loan => Holding(LoanMint)' >= Need(C[k])
      BY <1>7, <3>2, <3>3
    <3> QED  BY <2>11, <3>4, <3>5
  <2> QED  BY <2>5, <2>6, <2>7, <2>8, <2>10, <2>12, NotRolledBack DEF Going
<1> QED  BY <1>8, <1>9

LEMMA MarginFiCloses ==
  ASSUME job \in FlashJobs, NEW A, NEW C, NEW E, Shaped(job, tx, A, C, E), Going(A, C), pc \in Nat,
         FlashStep, Lender(job) = "marginfi", pc = Len(A) + Len(C) + 2 \/ pc = Len(A) + Len(C) + 3
  PROVE  (fault' = "none" => Going(A, C)') /\ EnvelopesClose'
<1>1. MiddleAt(job, tx, A, C, E) /\ MarginFiAt(job, tx, A, C, E)
  BY Places
<1>2. Len(A) \in Nat /\ Len(C) \in Nat /\ Len(E) \in Nat /\ C \in Seq(Between)
  BY <1>1 DEF MiddleAt
<1>3. /\ LoanMint \in DOMAIN ata /\ short \in BOOLEAN
      /\ \A t : Holding(t) \in Int
      /\ \A t : short \/ Holding(t) >= 0
  BY DEF Going, WalletKept
<1>4. /\ owes \in [{LoanMint, Coll} -> Nat] /\ holds \in [{LoanMint, Coll} -> Nat]
      /\ owes[LoanMint] \in Nat
  BY DEF Going, DebtKept
<1>5. fault = "none" /\ job' = job /\ (fault' = "none" => pc' = pc + 1)
  BY Effects
<1>6. First(job, A) = Len(A) + 2 /\ First(job, A)' = First(job, A)
  BY <1>5 DEF First, Offset
<1>7. Loan \in Nat /\ Loan > 0 /\ LoanMint # Coll
  BY FlashAssumption
\* Nothing of the middle is left.
<1>8. pc' = pc + 1 => /\ \A k \in 2..Len(C) : pc' # First(job, A) + k - 1
                      /\ \A k \in 1..Len(C) : ~(First(job, A) + k - 1 >= pc')
                      /\ \A i \in 1..Len(C) : First(job, A) + i <= pc
  BY <1>2, <1>6
<1>9. pc' = pc + 1 /\ fresh' = fresh => FreshKept(A, C)' /\ Fed(A, C)'
  <2> SUFFICES ASSUME pc' = pc + 1, fresh' = fresh PROVE FreshKept(A, C)' /\ Fed(A, C)'
    OBVIOUS
  <2>1. Lender(job) # "solend"
    OBVIOUS
  <2> QED  BY <1>5, <1>6, <1>8, <2>1 DEF Going, FreshKept, Fed
<1>10. CASE pc = Len(A) + Len(C) + 2 /\ job.caller = "marginfi"
  <2>1. Ix = Deposit(LoanMint, Loan)
    <3>1. pc + 1 = Len(A) + Len(C) + 3
      BY <1>2, <1>10
    <3> QED  BY <1>1, <1>10, <3>1 DEF Ix, MarginFiAt
  <2>2. Ix.op = "deposit" /\ Ix.bank = LoanMint
    BY <2>1 DEF Deposit
  <2>3. owes[LoanMint] >= Loan
    <3>1. pc >= Len(A) + 2
      BY <1>2, <1>10
    <3> QED  BY <1>10, <3>1 DEF Going, DebtKept
  <2>4. owes[LoanMint] # 0
    BY <1>4, <1>7, <2>3
  <2>5. Fails("depositOnly")
    BY <2>2, <2>4, EffectsOfRepaying
  <2>6. Excused("depositOnly")
    BY <1>10 DEF Excused
  <2> QED  BY <2>5, <2>6, RolledBack
<1>11. CASE pc = Len(A) + Len(C) + 2 /\ job.caller # "marginfi"
  <2>1. Ix = Repay(LoanMint, Loan)
    <3>1. pc + 1 = Len(A) + Len(C) + 3
      BY <1>2, <1>11
    <3> QED  BY <1>1, <1>11, <3>1 DEF Ix, MarginFiAt
  <2>2. Ix.op = "repay" /\ Ix.bank = LoanMint /\ Ix.amount = Loan
    BY <2>1 DEF Repay
  <2>3. CASE Fails("funds")
    <3>1. Excused("funds")
      BY <2>2 DEF Excused
    <3> QED  BY <2>3, <3>1, RolledBack
  <2>4. CASE /\ ata[LoanMint] >= Loan /\ owes' = [owes EXCEPT ![LoanMint] = @ - Loan]
             /\ ata' = Paid(LoanMint, -Loan) /\ UNCHANGED <<fault, flash, holds, fresh, short>>
    <3>1. pc' = pc + 1 /\ fault' = "none"
      BY <1>5, <2>4
    <3>2. FlashKept(A, C)'
      BY <1>2, <1>5, <1>11, <2>4, <3>1 DEF Going, FlashKept
    <3>3. DebtKept(A, C)'
      <4>1. pc \in Len(A) + 2..Len(A) + Len(C) + 2 /\ ~(pc' \in Len(A) + 2..Len(A) + Len(C) + 2)
        BY <1>2, <1>11, <3>1
      <4>2. /\ owes[LoanMint] = Loan /\ owes[Coll] = 0 /\ holds[LoanMint] = 0 /\ holds[Coll] = 0
        BY <1>11, <4>1 DEF Going, DebtKept
      <4>3. /\ owes'[LoanMint] = Loan - Loan /\ owes'[Coll] = owes[Coll]
        BY <1>4, <1>7, <2>4, <4>2
      <4>4. Loan - Loan = 0
        BY <1>7
      <4>5. owes' \in [{LoanMint, Coll} -> Nat]
        BY <1>4, <2>4, <4>2, <4>4
      <4> QED  BY <1>4, <1>5, <1>6, <1>8, <1>11, <2>4, <3>1, <4>1, <4>2, <4>3, <4>4, <4>5 DEF DebtKept
    <3>4. /\ \A x : Holding(x)' = IF x = LoanMint THEN Holding(x) + (-Loan) ELSE Holding(x)
          /\ DOMAIN ata \subseteq DOMAIN ata'
      <4>1. -Loan \in Int
        BY <1>7
      <4> QED  BY <1>3, <2>4, <4>1, PaidHolds
    <3>5. Holding(LoanMint) >= Loan
      BY <1>3, <2>4 DEF Holding
    <3>6. WalletKept'
      <4>1. ASSUME NEW x PROVE Holding(x)' \in Int /\ (short' \/ Holding(x)' >= 0)
        <5>1. CASE x = LoanMint
          <6>1. Holding(x)' = Holding(x) + (-Loan)
            BY <3>4, <5>1
          <6> QED  BY <1>3, <1>7, <3>5, <5>1, <6>1
        <5>2. CASE x # LoanMint
          <6>1. Holding(x)' = Holding(x) /\ short' = short
            BY <2>4, <3>4, <5>2
          <6> QED  BY <1>3, <6>1
        <5> QED  BY <5>1, <5>2
      <4> QED  BY <1>3, <2>4, <3>4, <4>1 DEF WalletKept
    <3> QED  BY <1>9, <2>4, <3>1, <3>2, <3>3, <3>6, NotRolledBack DEF Going
  <2> QED  BY <2>2, <2>3, <2>4, EffectsOfRepaying
<1>12. CASE pc = Len(A) + Len(C) + 3
  <2>1. job.caller # "marginfi"
    <3>1. ~(pc <= Len(A) + Len(C) + 2)
      BY <1>2, <1>12
    <3> QED  BY <3>1 DEF Going, DebtKept
  <2>2. Ix = EndFlash({LoanMint})
    <3>1. pc + 1 = Len(A) + Len(C) + 4
      BY <1>2, <1>12
    <3> QED  BY <1>1, <2>1, <3>1 DEF Ix, MarginFiAt
  <2>3. Ix.op = "end"
    BY <2>2 DEF EndFlash
  <2>4. flash = pc
    <3>1. pc \in Len(A) + 1..Len(A) + Len(C) + 3
      BY <1>2, <1>12
    <3> QED  BY <1>12, <3>1 DEF Going, FlashKept
  <2>5. /\ owes[LoanMint] = 0 /\ owes[Coll] = 0 /\ holds[LoanMint] = 0 /\ holds[Coll] = 0
    <3>1. ~(pc \in Len(A) + 2..Len(A) + Len(C) + 2)
      BY <1>2, <1>12
    <3> QED  BY <2>1, <3>1 DEF Going, DebtKept
  <2>6. \A b \in DOMAIN owes : owes[b] = 0 /\ holds[b] = 0
    BY <1>4, <2>5
  <2>7. flash' = NoFlash /\ UNCHANGED <<fault, ata, owes, holds, fresh, short>>
    <3>1. ~(\E b \in DOMAIN owes : owes[b] + holds[b] > 0 /\ b \notin Ix.banks)
      BY <2>6
    <3>2. ~(\E b \in DOMAIN owes : owes[b] > 0)
      BY <2>6
    <3> QED  BY <2>3, <2>4, <3>1, <3>2, EffectsOfEnding
  <2>8. pc' = pc + 1 /\ fault' = "none"
    BY <1>5, <2>7
  <2>9. FlashKept(A, C)'
    <3>1. ~(pc' \in Len(A) + 1..Len(A) + Len(C) + 3)
      BY <1>2, <1>12, <2>8
    <3> QED  BY <1>5, <2>7, <3>1 DEF FlashKept
  <2>10. DebtKept(A, C)'
    <3>1. ~(pc' \in Len(A) + 2..Len(A) + Len(C) + 2)
      BY <1>2, <1>12, <2>8
    <3> QED  BY <1>4, <1>5, <1>6, <1>8, <2>1, <2>5, <2>7, <2>8, <3>1 DEF DebtKept
  <2>11. WalletKept'
    BY <2>7 DEF Going, WalletKept, Holding
  <2> QED  BY <1>9, <2>7, <2>8, <2>9, <2>10, <2>11, NotRolledBack DEF Going
<1> QED  BY <1>10, <1>11, <1>12

\* A loan of Solend.
LEMMA SolendStep ==
  ASSUME job \in FlashJobs, NEW A, NEW C, NEW E, Shaped(job, tx, A, C, E), Going(A, C), pc \in Nat,
         FlashStep, Lender(job) = "solend",
         pc = Len(A) \/ pc = Len(A) + 1 \/ pc = Len(A) + Len(C) + 2
  PROVE  (fault' = "none" => Going(A, C)') /\ EnvelopesClose'
<1>1. MiddleAt(job, tx, A, C, E) /\ SolendAt(job, tx, A, C, E)
  BY Places
<1>2. Len(A) \in Nat /\ Len(C) \in Nat /\ Len(E) \in Nat /\ C \in Seq(Between) /\ tx \in Seq(Ixs)
  BY <1>1 DEF MiddleAt
<1>3. /\ LoanMint \in DOMAIN ata /\ short \in BOOLEAN
      /\ \A t : Holding(t) \in Int
      /\ \A t : short \/ Holding(t) >= 0
  BY DEF Going, WalletKept
<1>4. job.caller \in {"native", "solend"} /\ job.lender = "solend" /\ job.caller # "marginfi"
  BY Lenders
<1>5. fault = "none" /\ job' = job /\ (fault' = "none" => pc' = pc + 1)
  BY Effects
<1>6. First(job, A) = Len(A) + 2 /\ First(job, A)' = First(job, A)
  BY <1>5 DEF First, Offset
<1>7. Loan \in Nat /\ SolendFee \in Nat
  BY FlashAssumption
<1>8. UNCHANGED <<flash, owes, holds>> /\ pc' = pc + 1 => FlashKept(A, C)' /\ DebtKept(A, C)'
  <2> SUFFICES ASSUME UNCHANGED <<flash, owes, holds>>, pc' = pc + 1 PROVE FlashKept(A, C)' /\ DebtKept(A, C)'
    OBVIOUS
  <2>1. FlashKept(A, C)'
    BY <1>5 DEF FlashKept, Lender
  <2>2. Lender(job) # "marginfi" /\ Lender(job)' = Lender(job)
    BY <1>5
  <2>3. ASSUME NEW k \in 2..Len(C), pc' = First(job, A) + k - 1 PROVE C[k - 1].op # "seize"
    BY <1>2, <1>4 DEF Shaped, MiddleOk, SeizedHere
  <2>4. /\ owes' \in [{LoanMint, Coll} -> Nat] /\ holds' \in [{LoanMint, Coll} -> Nat]
        /\ holds'[LoanMint] = 0 /\ holds'[Coll] = 0 /\ owes'[Coll] = 0 /\ owes'[LoanMint] = 0
    BY <1>4, <2>2 DEF Going, DebtKept
  <2>5. DebtKept(A, C)'
    BY <1>4, <1>5, <1>6, <2>2, <2>3, <2>4 DEF DebtKept
  <2> QED  BY <2>1, <2>5
<1>9. CASE pc = Len(A)
  <2>1. Ix = [op |-> "refresh", reserve |-> LoanMint]
    BY <1>1, <1>9 DEF Ix, SolendAt
  <2>2. fresh' = fresh \cup {LoanMint} /\ UNCHANGED <<fault, ata, flash, owes, holds, short>>
    BY <2>1, Effects
  <2>3. pc' = pc + 1 /\ fault' = "none"
    BY <1>5, <2>2
  <2>4. FreshKept(A, C)'
    <3>1. \A i \in 1..Len(C) : ~(First(job, A) + i <= pc')
      BY <1>2, <1>6, <1>9, <2>3
    <3> QED  BY <1>5, <1>6, <2>2, <3>1 DEF FreshKept
  <2>5. WalletKept'
    BY <2>2 DEF Going, WalletKept, Holding
  <2>6. Fed(A, C)'
    <3>1. ~(pc' >= First(job, A))
      BY <1>2, <1>6, <1>9, <2>3
    <3> QED  BY <1>6, <3>1 DEF Fed
  <2> QED  BY <1>8, <2>2, <2>3, <2>4, <2>5, <2>6, NotRolledBack DEF Going
<1>10. CASE pc = Len(A) + 1
  <2>1. Ix = [op |-> "sborrow", amount |-> Loan]
    <3>1. pc + 1 = Len(A) + 2
      BY <1>2, <1>10
    <3> QED  BY <1>1, <3>1 DEF Ix, SolendAt
  <2>2. LoanMint \in fresh
    <3>1. pc > Len(A)
      BY <1>2, <1>10
    <3> QED  BY <3>1 DEF Going, FreshKept
  <2>3. ata' = Paid(LoanMint, Loan) /\ UNCHANGED <<fault, flash, owes, holds, fresh, short>>
    BY <2>1, <2>2, EffectsOfRepaying
  <2>4. pc' = pc + 1 /\ fault' = "none" /\ pc' = Len(A) + 2
    BY <1>2, <1>5, <1>10, <2>3
  <2>5. FreshKept(A, C)'
    <3>1. \A i \in 1..Len(C) : ~(First(job, A) + i <= pc')
      BY <1>2, <1>6, <2>4
    <3> QED  BY <1>5, <1>6, <2>2, <2>3, <3>1 DEF FreshKept
  <2>6. /\ \A x : Holding(x)' = IF x = LoanMint THEN Holding(x) + Loan ELSE Holding(x)
        /\ DOMAIN ata \subseteq DOMAIN ata'
    BY <1>3, <1>7, <2>3, PaidHolds
  <2>7. WalletKept'
    BY <1>3, <1>7, <2>3, <2>6 DEF WalletKept
  <2>8. short' \/ Holding(LoanMint)' >= Loan
    <3>1. Holding(LoanMint)' = Holding(LoanMint) + Loan
      BY <2>6
    <3> QED  BY <1>3, <1>7, <2>3, <3>1
  <2>9. Fed(A, C)'
    <3> SUFFICES ASSUME NEW k \in 1..Len(C), Money(C[k]), NoneIn(C, pc' - First(job, A) + 1, k - 1)
                 PROVE  short' \/ Holding(Source(C[k]))' >= Need(C[k])
      BY <1>5, <1>6 DEF Fed
    <3>1. NoneIn(C, 1, k - 1)
      <4>1. pc' - First(job, A) + 1 = 1
        BY <1>2, <1>6, <2>4
      <4> QED  BY <4>1
    <3>2. Source(C[k]) = LoanMint /\ Need(C[k]) <= Loan
      BY <3>1 DEF Shaped, MiddleOk, Chained
    <3>3. Need(C[k]) \in Int /\ Holding(LoanMint)' \in Int
      BY <1>2, <2>7, Spends DEF WalletKept
    <3>4. Holding(Source(C[k]))' = Holding(LoanMint)'
      BY <3>2
    <3>5. Holding(LoanMint)' >= Loan => Holding(LoanMint)' >= Need(C[k])
      BY <1>7, <3>2, <3>3
    <3> QED  BY <2>8, <3>4, <3>5
  <2> QED  BY <1>8, <2>3, <2>4, <2>5, <2>7, <2>9, NotRolledBack DEF Going
<1>11. CASE pc = Len(A) + Len(C) + 2
  <2> DEFINE index == IF job.caller = "native" THEN 6 ELSE 3
  <2>1. Ix = [op |-> "srepay", amount |-> Loan, index |-> index]
    <3>1. pc + 1 = Len(A) + Len(C) + 3
      BY <1>2, <1>11
    <3> QED  BY <1>1, <3>1 DEF Ix, SolendAt
  <2>2. Ix.op = "srepay" /\ Ix.amount = Loan /\ Ix.index = index
    BY <2>1
  <2>3. CASE (At(Ix.index) # "sborrow" \/ Ix.index >= pc) /\ Fails("borrowIndex")
    <3>1. ASSUME index = Len(A) + 1 PROVE FALSE
      <4>1. index + 1 = Len(A) + 2 /\ Len(A) + 2 \in 1..Len(tx) /\ ~(index >= pc)
        BY <1>1, <1>2, <1>11, <3>1 DEF SolendAt
      <4>2. At(index) = "sborrow"
        <5>1. index + 1 \in DOMAIN tx
          BY <1>2, <4>1, LenProperties
        <5>2. tx[index + 1].op = "sborrow"
          BY <1>1, <4>1 DEF SolendAt
        <5> HIDE DEF index
        <5> QED  BY <5>1, <5>2 DEF At
      <4> QED  BY <2>2, <2>3, <4>1, <4>2
    <3>2. \/ job.caller = "native" /\ Len(Interim(job.path)) # 1
          \/ job.caller = "solend" /\ ~job.price
      <4>1. Len(A) = IF job.caller = "native" THEN 4 + Len(Interim(job.path)) ELSE IF job.price THEN 2 ELSE 1
        BY <1>1 DEF SolendAt
      <4>2. job.caller = "native" /\ Len(Interim(job.path)) = 1 => index = Len(A) + 1
        BY <4>1
      <4>3. job.caller = "solend" /\ job.price => index = Len(A) + 1
        BY <4>1
      <4> QED  BY <1>4, <3>1, <4>2, <4>3
    <3>3. Excused("borrowIndex")
      BY <1>4, <3>2 DEF Excused
    <3> QED  BY <2>3, <3>3, RolledBack
  <2>4. CASE Fails("funds")
    <3>1. Excused("funds")
      BY <2>2 DEF Excused
    <3> QED  BY <2>4, <3>1, RolledBack
  <2>5. CASE /\ ata[LoanMint] >= Loan + SolendFee /\ ata' = Paid(LoanMint, -(Loan + SolendFee))
             /\ UNCHANGED <<fault, flash, owes, holds, fresh, short>>
    <3> DEFINE n == -(Loan + SolendFee)
    <3>1. pc' = pc + 1 /\ fault' = "none"
      BY <1>5, <2>5
    <3>2. FreshKept(A, C)'
      <4>1. \A i \in 1..Len(C) : First(job, A) + i <= pc
        BY <1>2, <1>6, <1>11
      <4>2. pc > Len(A)
        BY <1>2, <1>11
      <4> QED  BY <1>5, <1>6, <2>5, <4>1, <4>2 DEF Going, FreshKept
    <3>3. Fed(A, C)'
      <4>1. \A k \in 1..Len(C) : ~(First(job, A) + k - 1 >= pc')
        BY <1>2, <1>6, <1>11, <3>1
      <4> QED  BY <1>5, <1>6, <4>1 DEF Fed
    <3>4. n \in Int /\ ata' = Paid(LoanMint, n)
      BY <1>7, <2>5
    <3>5. Holding(LoanMint) + n >= 0 /\ Holding(LoanMint) + n \in Int
      <4>1. Holding(LoanMint) >= Loan + SolendFee
        BY <1>3, <2>5 DEF Holding
      <4> QED  BY <1>3, <1>7, <4>1
    <3> HIDE DEF n
    <3>6. /\ \A x : Holding(x)' = IF x = LoanMint THEN Holding(x) + n ELSE Holding(x)
          /\ DOMAIN ata \subseteq DOMAIN ata'
      BY <1>3, <3>4, PaidHolds
    <3>7. WalletKept'
      <4>1. ASSUME NEW x PROVE Holding(x)' \in Int /\ (short' \/ Holding(x)' >= 0)
        <5>1. CASE x = LoanMint
          <6>1. Holding(x)' = Holding(x) + n
            BY <3>6, <5>1
          <6> QED  BY <3>5, <5>1, <6>1
        <5>2. CASE x # LoanMint
          <6>1. Holding(x)' = Holding(x) /\ short' = short
            BY <2>5, <3>6, <5>2
          <6> QED  BY <1>3, <6>1
        <5> QED  BY <5>1, <5>2
      <4> QED  BY <1>3, <2>5, <3>6, <4>1 DEF WalletKept
    <3> QED  BY <1>8, <2>5, <3>1, <3>2, <3>3, <3>7, NotRolledBack DEF Going
  <2> QED  BY <2>2, <2>3, <2>4, <2>5, EffectsOfRepaying
<1> QED  BY <1>9, <1>10, <1>11

---------------------------------------------------------------------------
FlashInv ==
  /\ job \in FlashJobs /\ pc \in Nat /\ EnvelopesClose
  /\ \E A, C, E : Shaped(job, tx, A, C, E) /\ (fault = "none" => Going(A, C))

LEMMA FlashStarts == FlashInit => FlashInv
<1> SUFFICES ASSUME FlashInit PROVE FlashInv
  OBVIOUS
<1>1. /\ job \in FlashJobs /\ tx = LayOut(job) /\ pc = 0 /\ fault = "none" /\ flash = NoFlash /\ short = FALSE
      /\ owes = [b \in {LoanMint, Coll} |-> 0] /\ holds = [b \in {LoanMint, Coll} |-> 0]
  BY DEF FlashInit
<1>2. PICK A, C, E : Shaped(job, tx, A, C, E)
  BY <1>1, LayOutShaped
<1>3. Len(A) \in Nat /\ Len(C) \in Nat
  BY <1>1, <1>2, Places DEF MiddleAt
<1>4. First(job, A) \in Nat /\ (Lender(job) # "none" => First(job, A) = Len(A) + 2)
  BY <1>3 DEF First, Offset
<1>5. FlashKept(A, C)
  BY <1>1, <1>3 DEF FlashKept
<1>6. DebtKept(A, C)
  <2>1. \A k \in 2..Len(C) : pc # First(job, A) + k - 1
    BY <1>1, <1>3, <1>4
  <2>2. ~(pc >= Len(A) + 2) /\ pc <= Len(A) + Len(C) + 2 /\ ~(pc \in Len(A) + 2..Len(A) + Len(C) + 2)
    BY <1>1, <1>3
  <2>3. owes \in [{LoanMint, Coll} -> Nat] /\ holds \in [{LoanMint, Coll} -> Nat]
    BY <1>1
  <2> QED  BY <1>1, <2>1, <2>2, <2>3 DEF DebtKept
<1>7. FreshKept(A, C)
  <2>1. ~(pc > Len(A)) /\ \A i \in 1..Len(C) : ~(First(job, A) + i <= pc)
    BY <1>1, <1>3, <1>4
  <2> QED  BY <2>1 DEF FreshKept
<1>8. WalletKept
  <2>1. PICK float \in Floats : ata = [t \in {LoanMint, Coll, CToken} |-> IF t = LoanMint THEN float ELSE 0]
    BY DEF FlashInit
  <2>2. float \in Nat
    BY <2>1, FlashAssumption
  <2>3. DOMAIN ata = {LoanMint, Coll, CToken} /\ \A t \in DOMAIN ata : ata[t] \in Nat
    BY <2>1, <2>2
  <2>4. \A t : Holding(t) \in Int /\ Holding(t) >= 0
    BY <2>3 DEF Holding
  <2> QED  BY <1>1, <2>3, <2>4 DEF WalletKept
<1>9. Fed(A, C)
  <2>1. Lender(job) # "none" => ~(pc >= First(job, A))
    BY <1>1, <1>3, <1>4
  <2> QED  BY <2>1 DEF Fed
<1>10. EnvelopesClose
  BY <1>1 DEF EnvelopesClose
<1> QED  BY <1>1, <1>2, <1>5, <1>6, <1>7, <1>8, <1>9, <1>10 DEF FlashInv, Going

LEMMA FlashGoesOn == FlashInv /\ [FlashStep]_flashVars => FlashInv'
<1> SUFFICES ASSUME FlashInv, [FlashStep]_flashVars PROVE FlashInv'
  OBVIOUS
<1>1. CASE UNCHANGED flashVars
  BY <1>1 DEF flashVars, FlashInv, EnvelopesClose, Ix, Going, FlashKept, DebtKept, FreshKept, WalletKept,
              Fed, Holding
<1>2. CASE FlashStep
  <2>1. job \in FlashJobs /\ pc \in Nat /\ fault = "none"
    BY <1>2, Effects DEF FlashInv
  <2>2. PICK A, C, E : Shaped(job, tx, A, C, E) /\ Going(A, C)
    BY <2>1 DEF FlashInv
  <2>3. MiddleAt(job, tx, A, C, E) /\ Lender(job) \in {"marginfi", "solend", "none"}
    BY <2>1, <2>2, Places, Lenders
  <2>4. Len(A) \in Nat /\ Len(C) \in Nat /\ Len(E) \in Nat /\ tx \in Seq(Ixs)
    BY <2>3 DEF MiddleAt
  <2>5. pc < Len(tx) /\ job' = job /\ tx' = tx /\ pc' = IF fault' = "none" THEN pc + 1 ELSE pc
    BY <1>2, Effects
  <2>6. (fault' = "none" => Going(A, C)') /\ EnvelopesClose'
    <3>1. CASE pc < Len(A)
      BY <1>2, <2>1, <2>2, <3>1, PrefixStep
    <3>2. ASSUME NEW m \in 1..Len(C), pc = First(job, A) + m - 1
          PROVE  (fault' = "none" => Going(A, C)') /\ EnvelopesClose'
      BY <1>2, <2>1, <2>2, <3>2, MiddleStep
    <3>3. ASSUME pc >= Len(A) + Offset(job), pc < Len(A) + Offset(job) + Len(C)
          PROVE  (fault' = "none" => Going(A, C)') /\ EnvelopesClose'
      <4> DEFINE m == pc - (Len(A) + Offset(job)) + 1
      <4>1. m \in 1..Len(C) /\ pc = First(job, A) + m - 1
        <5>1. Offset(job) \in Nat /\ First(job, A) = Len(A) + Offset(job)
          BY DEF First, Offset
        <5> QED  BY <2>1, <2>4, <3>3, <5>1
      <4> HIDE DEF m
      <4> QED  BY <3>2, <4>1
    <3>4. CASE Lender(job) = "marginfi"
      <4>1. MarginFiAt(job, tx, A, C, E) /\ Offset(job) = 2
        BY <2>1, <2>2, <3>4, Places DEF Offset
      <4>2. CASE pc = Len(A) \/ pc = Len(A) + 1
        BY <1>2, <2>1, <2>2, <3>4, <4>2, MarginFiOpens
      <4>3. CASE pc = Len(A) + Len(C) + 2 \/ pc = Len(A) + Len(C) + 3
        BY <1>2, <2>1, <2>2, <3>4, <4>3, MarginFiCloses
      <4>4. CASE pc >= Len(A) + Len(C) + 4
        <5>1. job.caller # "marginfi"
          <6>1. ~(pc <= Len(A) + Len(C) + 2)
            BY <2>1, <2>4, <4>4
          <6> QED  BY <2>2, <6>1 DEF Going, DebtKept
        <5>2. Ix \in Quiet
          <6> DEFINE i == pc + 1 - (Len(A) + Len(C) + 4)
          <6>1. i \in 1..Len(E) /\ pc + 1 = Len(A) + Len(C) + 4 + i
            <7>1. pc < Len(A) + Len(C) + 4 + Len(E)
              BY <2>5, <4>1 DEF MarginFiAt
            <7> QED  BY <2>1, <2>4, <4>4, <7>1
          <6> HIDE DEF i
          <6> QED  BY <4>1, <6>1 DEF Ix, MarginFiAt
        <5> QED  BY <1>2, <2>1, <2>2, <3>4, <4>4, <5>1, <5>2, TailStep DEF Prefixed
      <4> QED  BY <2>1, <2>4, <3>1, <3>3, <4>1, <4>2, <4>3, <4>4
    <3>5. CASE Lender(job) = "solend"
      <4>1. SolendAt(job, tx, A, C, E) /\ Offset(job) = 2 /\ job.caller # "marginfi"
        BY <2>1, <2>2, <3>5, Places, Lenders DEF Offset
      <4>2. CASE pc = Len(A) \/ pc = Len(A) + 1 \/ pc = Len(A) + Len(C) + 2
        BY <1>2, <2>1, <2>2, <3>5, <4>2, SolendStep
      <4>3. CASE pc >= Len(A) + Len(C) + 3
        <5>2. Ix \in Quiet
          <6> DEFINE i == pc + 1 - (Len(A) + Len(C) + 3)
          <6>1. i \in 1..Len(E) /\ pc + 1 = Len(A) + Len(C) + 3 + i
            <7>1. pc < Len(A) + Len(C) + 3 + Len(E)
              BY <2>5, <4>1 DEF SolendAt
            <7> QED  BY <2>1, <2>4, <4>3, <7>1
          <6> HIDE DEF i
          <6> QED  BY <4>1, <6>1 DEF Ix, SolendAt
        <5> QED  BY <1>2, <2>1, <2>2, <3>5, <4>1, <4>3, <5>2, TailStep DEF Prefixed
      <4> QED  BY <2>1, <2>4, <3>1, <3>3, <4>1, <4>2, <4>3
    <3>6. CASE Lender(job) = "none"
      <4>1. BareAt(tx, A, C, E) /\ Offset(job) = 0 /\ job.caller # "marginfi"
        BY <2>1, <2>2, <3>6, Places, Lenders DEF Offset
      <4>3. CASE pc >= Len(A) + Len(C)
        <5>2. Ix \in Quiet
          <6> DEFINE i == pc + 1 - (Len(A) + Len(C))
          <6>1. i \in 1..Len(E) /\ pc + 1 = Len(A) + Len(C) + i
            BY <2>1, <2>4, <2>5, <4>1, <4>3 DEF BareAt
          <6> HIDE DEF i
          <6> QED  BY <4>1, <6>1 DEF Ix, BareAt
        <5>3. pc >= Len(A) + Len(C) + 0
          BY <2>4, <4>3
        <5> QED  BY <1>2, <2>1, <2>2, <3>6, <4>1, <5>2, <5>3, TailStep DEF Prefixed
      <4> QED  BY <2>1, <2>4, <3>1, <3>3, <4>1, <4>3
    <3> QED  BY <2>3, <3>4, <3>5, <3>6
  <2>7. Shaped(job, tx, A, C, E)' /\ pc' \in Nat
    BY <2>1, <2>2, <2>5
  <2> QED  BY <2>1, <2>5, <2>6, <2>7 DEF FlashInv
<1> QED  BY <1>1, <1>2

\* Whatever a caller was asked to lay out, the transaction fails for what the
\* market did, at the repayment, or for one of the four known layouts, and never
\* because a loan does not find its other half, an account is unobserved or a
\* reserve stale (marginfi.rs:326, solend.rs:162, native_executor.rs:1323).
THEOREM FlashLoansClose == FlashSpec => []EnvelopesClose
<1>1. FlashInv => EnvelopesClose
  BY DEF FlashInv
<1> QED  BY <1>1, FlashStarts, FlashGoesOn, PTL DEF FlashSpec
=============================================================================
