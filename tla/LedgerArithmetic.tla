-------------------------- MODULE LedgerArithmetic --------------------------
(***************************************************************************)
(* What the ledger's proofs need to know of sums and of the bucket         *)
(* arithmetic, for every wallet and every amount.                          *)
(***************************************************************************)
EXTENDS BucketReference, Totals, Functions, FiniteSetTheorems, TLAPS

-----------------------------------------------------------------------------
(* Sums.                                                                   *)

(* The unit markers of a function with a finite domain are finitely many.  *)
LEMMA MarkersFinite ==
  ASSUME NEW D, IsFiniteSet(D), NEW f \in [D -> Nat]
  PROVE  IsFiniteSet(Markers(f))
<1> DEFINE F == [x \in D |-> {x} \X (1 .. f[x])]
           T == {{x} \X (1 .. f[x]) : x \in D}
<1>1. F \in Surjection(D, T)
  BY DEF Surjection
<1>2. IsFiniteSet(T)
  BY <1>1, FS_Surjection
<1>3. ASSUME NEW S \in T PROVE IsFiniteSet(S)
  <2>1. PICK x \in D : S = {x} \X (1 .. f[x])
    OBVIOUS
  <2>2. IsFiniteSet({x})
    BY FS_Singleton
  <2>3. f[x] \in Int
    OBVIOUS
  <2>4. IsFiniteSet(1 .. f[x])
    BY <2>3, FS_Interval
  <2>5. IsFiniteSet({x} \X (1 .. f[x]))
    BY <2>2, <2>4, FS_Product
  <2>6. QED
    BY <2>1, <2>5
<1>4. Markers(f) = UNION T
  BY DEF Markers
<1>5. QED
  BY <1>2, <1>3, <1>4, FS_UNION

(* The sum over no rows.                                                   *)
LEMMA TotalOfNone ==
  ASSUME NEW f, DOMAIN f = {}
  PROVE  Total(f) = 0
<1>1. Markers(f) = {}
  BY DEF Markers
<1>2. QED
  BY <1>1, FS_EmptySet DEF Total

(* A sum of naturals is a natural number.                                  *)
LEMMA TotalIsNat ==
  ASSUME NEW D, IsFiniteSet(D), NEW f \in [D -> Nat]
  PROVE  Total(f) \in Nat
BY MarkersFinite, FS_CardinalityType DEF Total

(* Taking one row out of the sum takes its value off the total.            *)
LEMMA TotalWithout ==
  ASSUME NEW D, IsFiniteSet(D), NEW f \in [D -> Nat], NEW d \in D
  PROVE  Total(f) = Total([x \in D \ {d} |-> f[x]]) + f[d]
<1> DEFINE g == [x \in D \ {d} |-> f[x]]
           own == {d} \X (1 .. f[d])
<1>1. IsFiniteSet(D \ {d}) /\ g \in [D \ {d} -> Nat]
  BY FS_RemoveElement
<1>2. IsFiniteSet(Markers(g)) /\ Cardinality(Markers(g)) \in Nat
  BY <1>1, MarkersFinite, FS_CardinalityType
<1>3. IsFiniteSet(own) /\ Cardinality(own) = f[d]
  <2>1. IsFiniteSet({d}) /\ Cardinality({d}) = 1
    BY FS_Singleton
  <2>2. f[d] \in Nat
    OBVIOUS
  <2>3. IsFiniteSet(1 .. f[d])
    BY <2>2, FS_Interval
  <2>4. Cardinality(1 .. f[d]) = f[d]
    BY <2>2, FS_Interval
  <2>5. /\ IsFiniteSet(own)
        /\ Cardinality(own) = Cardinality({d}) * Cardinality(1 .. f[d])
    BY <2>1, <2>3, FS_Product
  <2>6. QED
    BY <2>1, <2>2, <2>4, <2>5
<1>4. Markers(f) = Markers(g) \cup own
  <2>1. DOMAIN f = (DOMAIN g) \cup {d}
    OBVIOUS
  <2>2. \A x \in DOMAIN g : {x} \X (1 .. f[x]) = {x} \X (1 .. g[x])
    OBVIOUS
  <2>3. QED
    BY <2>1, <2>2 DEF Markers
<1>5. Markers(g) \cap own = {}
  BY DEF Markers
<1>6. Cardinality(Markers(f)) = Cardinality(Markers(g)) + Cardinality(own)
  <2>1. Cardinality(Markers(g) \cup own) =
          Cardinality(Markers(g)) + Cardinality(own) - Cardinality(Markers(g) \cap own)
    BY <1>2, <1>3, FS_Union
  <2>2. Cardinality(Markers(g) \cap own) = 0
    BY <1>5, FS_EmptySet
  <2>3. f[d] \in Nat
    OBVIOUS
  <2> HIDE DEF g, own
  <2>4. QED
    BY <1>2, <1>3, <1>4, <2>1, <2>2, <2>3
<1>7. QED
  BY <1>2, <1>3, <1>6 DEF Total

(* Adding one row to a sum adds its value.                                 *)
LEMMA TotalWith ==
  ASSUME NEW D, IsFiniteSet(D), NEW d, d \notin D, NEW f \in [D \cup {d} -> Nat]
  PROVE  Total(f) = Total([x \in D |-> f[x]]) + f[d]
<1> DEFINE E == D \cup {d}
<1>1. IsFiniteSet(E) /\ d \in E /\ f \in [E -> Nat]
  BY FS_AddElement
<1>2. E \ {d} = D
  OBVIOUS
<1> HIDE DEF E
<1>3. Total(f) = Total([x \in E \ {d} |-> f[x]]) + f[d]
  BY <1>1, TotalWithout
<1>4. QED
  BY <1>2, <1>3

-----------------------------------------------------------------------------
(* The bucket arithmetic.                                                  *)

(* A debit takes from each bucket at most what it has, and what it takes with the
   shortfall makes up the amount: nothing is overdrawn and nothing vanishes. *)
LEMMA DebitBounds ==
  ASSUME NEW b \in Bucket, NEW n \in Nat
  PROVE  LET d == Debit(b, n)
         IN  /\ d.daily \in 0 .. b.daily
             /\ d.period \in 0 .. b.period
             /\ d.permanent \in 0 .. b.permanent
             /\ d.shortfall \in Nat
             /\ d.daily + d.period + d.permanent + d.shortfall = n
BY DEF Bucket, Debit, Lesser

(* What a debit leaves is a wallet, and with no shortfall the wallet is worth
   exactly the amount less.                                                *)
LEMMA DebitLeaves ==
  ASSUME NEW b \in Bucket, NEW n \in Nat
  PROVE  /\ Minus(b, Debit(b, n)) \in Bucket
         /\ Debit(b, n).shortfall = 0 =>
              Available(Minus(b, Debit(b, n))) = Available(b) - n
BY DebitBounds DEF Bucket, Minus, Available

(* What a debit takes is a wallet worth the amount less the shortfall.     *)
LEMMA DebitTakes ==
  ASSUME NEW b \in Bucket, NEW n \in Nat
  PROVE  /\ Minus(b, Minus(b, Debit(b, n))) \in Bucket
         /\ Available(Minus(b, Minus(b, Debit(b, n)))) = n - Debit(b, n).shortfall
<1> DEFINE d == Debit(b, n)
<1>1. /\ d.daily \in 0 .. b.daily
      /\ d.period \in 0 .. b.period
      /\ d.permanent \in 0 .. b.permanent
      /\ d.shortfall \in Nat
      /\ d.daily + d.period + d.permanent + d.shortfall = n
  BY DebitBounds
<1> HIDE DEF d
<1>2. /\ Minus(b, Minus(b, d)) \in Bucket
      /\ Available(Minus(b, Minus(b, d))) = n - d.shortfall
  BY <1>1 DEF Bucket, Minus, Available
<1>3. QED
  BY <1>2 DEF d

(* A refresh yields a wallet and never touches permanent credit.           *)
LEMMA RefreshIsBucket ==
  ASSUME NEW b \in Bucket, NEW al \in Allowances,
         NEW stale \in [daily : BOOLEAN, period : BOOLEAN]
  PROVE  /\ Refresh(b, al, stale) \in Bucket
         /\ Refresh(b, al, stale).permanent = b.permanent
BY DEF Bucket, Allowances, Refresh

(* A return, clamped to the allowance, leaves a wallet within it.          *)
LEMMA CreditBackIsBucket ==
  ASSUME NEW b \in Bucket, NEW delta \in Bucket, NEW al \in Allowances
  PROVE  /\ CreditBack(b, delta, al) \in Bucket
         /\ CreditBack(b, delta, al).daily <= al.daily
         /\ CreditBack(b, delta, al).period <= al.period
         /\ CreditBack(b, delta, al).permanent = b.permanent + delta.permanent
BY DEF Bucket, Allowances, CreditBack, Lesser

(* A debit the wallet covers has no shortfall.                             *)
LEMMA CoveredDebit ==
  ASSUME NEW b \in Bucket, NEW n \in Nat, n <= Available(b)
  PROVE  Debit(b, n).shortfall = 0
BY DEF Bucket, Available, Debit, Lesser

(* The buckets, and the arithmetic bucket by bucket.                       *)
BucketNames == {"daily", "period", "permanent"}

(* A statement about every bucket name, taken bucket by bucket.           *)
LEMMA ByBucket ==
  ASSUME NEW b \in Bucket, NEW d \in Bucket, NEW c \in BucketNames
  PROVE  /\ b[c] \in Nat
         /\ Minus(b, d)[c] = b[c] - d[c]
         /\ Empty[c] = 0
BY DEF BucketNames, Bucket, Minus, Empty

(* A return adds at most what comes back, to the permanent credit exactly that. *)
LEMMA CreditBackAdds ==
  ASSUME NEW b \in Bucket, NEW d \in Bucket, NEW al \in Allowances
  PROVE  /\ CreditBack(b, d, al) \in Bucket
         /\ \A c \in BucketNames : CreditBack(b, d, al)[c] <= b[c] + d[c]
         /\ CreditBack(b, d, al)["permanent"] = b["permanent"] + d["permanent"]
<1>1. CreditBack(b, d, al) \in Bucket
  BY CreditBackIsBucket
<1>2. \A c \in BucketNames : CreditBack(b, d, al)[c] <= b[c] + d[c]
  BY DEF BucketNames, Bucket, Allowances, CreditBack, Lesser
<1>3. CreditBack(b, d, al)["permanent"] = b["permanent"] + d["permanent"]
  BY DEF Bucket, CreditBack
<1>4. QED
  BY <1>1, <1>2, <1>3

-----------------------------------------------------------------------------
(* The arithmetic against its reference.                                   *)

(* What a debit draws, bucket by bucket.                                   *)
LEMMA DrawnIs ==
  ASSUME NEW b \in Bucket, NEW n \in Nat
  PROVE  LET d == Debit(b, n)
         IN  /\ Drawn(b, n) = [daily |-> d.daily, period |-> d.period, permanent |-> d.permanent]
             /\ d.daily = Lesser(b.daily, n)
             /\ d.period = Lesser(b.period, n - d.daily)
             /\ d.permanent = Lesser(b.permanent, n - d.daily - d.period)
             /\ d.shortfall = n - d.daily - d.period - d.permanent
             /\ d.daily \in Nat /\ d.period \in Nat /\ d.permanent \in Nat
             /\ Drawn(b, n) \in Bucket
<1> DEFINE d == Debit(b, n)
<1>1. b.daily \in Nat /\ b.period \in Nat /\ b.permanent \in Nat
  BY DEF Bucket
<1>2. /\ d.daily = Lesser(b.daily, n)
      /\ d.period = Lesser(b.period, n - d.daily)
      /\ d.permanent = Lesser(b.permanent, n - d.daily - d.period)
      /\ d.shortfall = n - d.daily - d.period - d.permanent
  BY DEF Debit, Lesser
<1> HIDE DEF d
<1>3. d.daily \in Nat /\ d.period \in Nat /\ d.permanent \in Nat
  BY <1>1, <1>2 DEF Lesser
<1>4. Minus(b, Minus(b, d)) = [daily |-> d.daily, period |-> d.period, permanent |-> d.permanent]
  BY <1>1, <1>3 DEF Minus
<1>5. Drawn(b, n) = [daily |-> d.daily, period |-> d.period, permanent |-> d.permanent]
  BY <1>4 DEF Drawn, d
<1>6. Drawn(b, n) \in Bucket
  BY <1>3, <1>5 DEF Bucket
<1>7. QED
  BY <1>2, <1>3, <1>5, <1>6 DEF d

(* Of all ways to split an amount the debit is the thriftiest.             *)
LEMMA DebitThriftiest ==
  ASSUME NEW b \in Bucket, NEW n \in Nat
  PROVE  Thriftiest(b, n)
<1> DEFINE d == Debit(b, n)
<1>1. b.daily \in Nat /\ b.period \in Nat /\ b.permanent \in Nat
  BY DEF Bucket
<1>2. /\ Drawn(b, n) = [daily |-> d.daily, period |-> d.period, permanent |-> d.permanent]
      /\ d.daily = Lesser(b.daily, n)
      /\ d.period = Lesser(b.period, n - d.daily)
      /\ d.permanent = Lesser(b.permanent, n - d.daily - d.period)
      /\ d.shortfall = n - d.daily - d.period - d.permanent
      /\ d.daily \in Nat /\ d.period \in Nat /\ d.permanent \in Nat
  BY DrawnIs
<1> HIDE DEF d
<1>3. /\ d.daily \in 0 .. b.daily /\ d.period \in 0 .. b.period
      /\ d.permanent \in 0 .. b.permanent
      /\ d.daily + d.period + d.permanent = Lesser(n, b.daily + b.period + b.permanent)
  <2>1. /\ d.daily \in 0 .. b.daily /\ d.period \in 0 .. b.period
        /\ d.permanent \in 0 .. b.permanent
    BY <1>1, <1>2 DEF Lesser
  <2>2. CASE n < b.daily + b.period + b.permanent
    BY <1>1, <1>2, <2>2, <2>1 DEF Lesser
  <2>3. CASE ~ (n < b.daily + b.period + b.permanent)
    <3>1. d.daily = b.daily
      BY <1>1, <1>2, <2>3 DEF Lesser
    <3>2. d.period = b.period
      <4>1. CASE b.period < n - d.daily
        BY <1>1, <1>2, <4>1 DEF Lesser
      <4>2. CASE ~ (b.period < n - d.daily)
        <5>1. d.period = n - d.daily
          BY <1>2, <4>2 DEF Lesser
        <5>2. n - d.daily = b.period
          BY <1>1, <2>3, <3>1, <4>2
        <5>3. QED
          BY <5>1, <5>2
      <4>3. QED
        BY <4>1, <4>2
    <3>3. d.permanent = b.permanent
      BY <1>1, <1>2, <2>3, <3>1, <3>2 DEF Lesser
    <3>4. QED
      BY <1>1, <2>3, <3>1, <3>2, <3>3 DEF Lesser
  <2>4. QED
    BY <2>1, <2>2, <2>3
<1>4. Drawn(b, n) \in Splits(b, n)
  BY <1>2, <1>3 DEF Splits, Available
<1>5. d.shortfall = n - Lesser(n, Available(b))
  BY <1>1, <1>2, <1>3 DEF Available
<1>6. ASSUME NEW s \in Splits(b, n)
      PROVE  d.permanent < s.permanent \/ (d.permanent = s.permanent /\ d.period <= s.period)
  <2>1. /\ s.daily \in 0 .. b.daily /\ s.period \in 0 .. b.period
        /\ s.permanent \in 0 .. b.permanent
        /\ s.daily + s.period + s.permanent = Lesser(n, b.daily + b.period + b.permanent)
    BY <1>6 DEF Splits, Available
  <2>2. QED
    BY <1>1, <1>2, <1>3, <2>1 DEF Lesser
<1>7. QED
  BY <1>4, <1>5, <1>6 DEF Thriftiest, d

(* A capture of m out of a reservation of n is a spend of m.               *)
LEMMA CapturesAsSpent ==
  ASSUME NEW b \in Bucket, NEW n \in 0 .. Available(b), NEW m \in 0 .. n
  PROVE  CaptureIsSpend(b, n, m)
<1>1. b.daily \in Nat /\ b.period \in Nat /\ b.permanent \in Nat
      /\ Available(b) = b.daily + b.period + b.permanent
  BY DEF Bucket, Available
<1>2. n \in Nat /\ m \in Nat /\ m <= n /\ n <= b.daily + b.period + b.permanent
  BY <1>1
<1> DEFINE r == Drawn(b, n)
           dn == Debit(b, n)
           dm == Debit(b, m)
           dr == Debit(r, m)
<1>3. /\ r \in Bucket
      /\ r.daily = Lesser(b.daily, n)
      /\ r.period = Lesser(b.period, n - r.daily)
      /\ r.permanent = Lesser(b.permanent, n - r.daily - r.period)
      /\ r.daily \in Nat /\ r.period \in Nat /\ r.permanent \in Nat
  <2>1. /\ r = [daily |-> dn.daily, period |-> dn.period, permanent |-> dn.permanent]
        /\ dn.daily = Lesser(b.daily, n)
        /\ dn.period = Lesser(b.period, n - dn.daily)
        /\ dn.permanent = Lesser(b.permanent, n - dn.daily - dn.period)
        /\ dn.daily \in Nat /\ dn.period \in Nat /\ dn.permanent \in Nat
        /\ r \in Bucket
    BY <1>2, DrawnIs
  <2> HIDE DEF r, dn
  <2>2. r.daily = dn.daily /\ r.period = dn.period /\ r.permanent = dn.permanent
    BY <2>1
  <2>3. QED
    BY <2>1, <2>2
<1>4. /\ Drawn(b, m) = [daily |-> dm.daily, period |-> dm.period, permanent |-> dm.permanent]
      /\ dm.daily = Lesser(b.daily, m)
      /\ dm.period = Lesser(b.period, m - dm.daily)
      /\ dm.permanent = Lesser(b.permanent, m - dm.daily - dm.period)
      /\ dm.daily \in Nat /\ dm.period \in Nat /\ dm.permanent \in Nat
  BY <1>2, DrawnIs
<1> HIDE DEF r, dm
<1>5. /\ Drawn(r, m) = [daily |-> dr.daily, period |-> dr.period, permanent |-> dr.permanent]
      /\ dr.daily = Lesser(r.daily, m)
      /\ dr.period = Lesser(r.period, m - dr.daily)
      /\ dr.permanent = Lesser(r.permanent, m - dr.daily - dr.period)
      /\ dr.daily \in Nat /\ dr.period \in Nat /\ dr.permanent \in Nat
  BY <1>2, <1>3, DrawnIs
<1> HIDE DEF dr
<1>6. dr.daily = dm.daily
  BY <1>1, <1>2, <1>3, <1>4, <1>5 DEF Lesser
<1>7. dr.period = dm.period
  BY <1>1, <1>2, <1>3, <1>4, <1>5, <1>6 DEF Lesser
<1>8. dr.permanent = dm.permanent
  BY <1>1, <1>2, <1>3, <1>4, <1>5, <1>6, <1>7 DEF Lesser
<1>9. QED
  BY <1>4, <1>5, <1>6, <1>7, <1>8 DEF CaptureIsSpend, r

(* In a wallet within its allowance a reservation and its return cancel.   *)
LEMMA ReturnsCancel ==
  ASSUME NEW b \in Bucket, NEW al \in Allowances, NEW n \in 0 .. Available(b),
         b.daily <= al.daily, b.period <= al.period
  PROVE  ReturnCancels(b, n, al)
<1>1. b.daily \in Nat /\ b.period \in Nat /\ b.permanent \in Nat
      /\ al.daily \in Nat /\ al.period \in Nat /\ n \in Nat
  BY DEF Bucket, Available, Allowances
<1> DEFINE r == Drawn(b, n)
<1>2. r \in Bucket /\ r.daily \in Nat /\ r.period \in Nat /\ r.permanent \in Nat
  BY <1>1, DrawnIs DEF Bucket
<1> HIDE DEF r
<1>3. CreditBack(Minus(b, r), r, al) = [daily |-> b.daily, period |-> b.period, permanent |-> b.permanent]
  BY <1>1, <1>2 DEF CreditBack, Minus, Lesser
<1>4. b = [daily |-> b.daily, period |-> b.period, permanent |-> b.permanent]
  BY DEF Bucket
<1>5. QED
  BY <1>3, <1>4 DEF ReturnCancels, r
=============================================================================
