-------------------------- MODULE PaymentPlanProofs --------------------------
(***************************************************************************)
(* Proofs about PaymentPlan, for every plan, price, alert, tolerance and   *)
(* number of days.  What a registration is asked for was computed on some  *)
(* day d; the facts of the first part say what was owed and when on a day, *)
(* and how that changes as days pass or money comes in.                    *)
(***************************************************************************)
EXTENDS PaymentPlan, SumLemmas, SequenceTheorems

FactsType == [price : Nat, paid : Nat, cancelled : BOOLEAN, today : Nat, approved : Nat \cup {Never}]

LEMMA PlanType ==
  ASSUME NEW p \in Plans
  PROVE  /\ p.kind \in {"quotas", "installments"} /\ p.start \in Nat /\ p.quotas \in 1..5
         /\ Len(p.terms) \in Nat
         /\ \A k \in 1..Len(p.terms) : /\ p.terms[k].amount \in Nat /\ p.terms[k].day \in Int
                                       /\ Amounts(p)[k] = p.terms[k].amount
  <1>1. /\ p.kind \in {"quotas", "installments"} /\ p.start \in Nat /\ p.quotas \in 1..5
        /\ p.terms \in Seq(Terms)
    BY ConstantsAssumption DEF ConstantsAssumption
  <1>2. Len(p.terms) \in Nat /\ \A k \in 1..Len(p.terms) : p.terms[k] \in Terms
    BY <1>1, ElementOfSeq, LenProperties
  <1>3. QED
    BY <1>1, <1>2 DEF Terms, Amounts

-----------------------------------------------------------------------------
(* The oldest of some days, which are those of terms.                      *)
LEMMA LeastIs ==
  ASSUME NEW S, IsFiniteSet(S), S # {}, S \subseteq Int
  PROVE  Min(S) \in S /\ \A x \in S : Min(S) <= x
  <1>1. \E a \in S : \A x \in S : a <= x
    BY LeastAndGreatest
  <1>2. QED
    BY <1>1 DEF Min

LEMMA GreatestIs ==
  ASSUME NEW S, IsFiniteSet(S), S # {}, S \subseteq Int
  PROVE  Max(S) \in S /\ \A x \in S : Max(S) >= x
  <1>1. \E b \in S : \A x \in S : b >= x
    BY LeastAndGreatest
  <1>2. QED
    BY <1>1 DEF Max

LEMMA OldestIsOne ==
  ASSUME NEW D, IsFiniteSet(D), D \subseteq Int
  PROVE  /\ OldestOf(D) \in Int /\ (OldestOf(D) # 0 => OldestOf(D) \in D)
         /\ (\A x \in D : x < 0) => OldestOf(D) <= 0
         /\ \A x \in D : OldestOf(D) <= x
  <1>1. CASE D = {}
    BY <1>1 DEF OldestOf
  <1>2. CASE D # {}
    <2>1. Min(D) \in D /\ \A x \in D : Min(D) <= x
      BY <1>2, LeastIs
    <2>2. OldestOf(D) = Min(D) /\ Min(D) \in Int
      BY <1>2, <2>1 DEF OldestOf
    <2>3. (\A x \in D : x < 0) => Min(D) <= 0
      BY <2>1, <2>2
    <2>4. QED
      BY <2>1, <2>2, <2>3
  <1>3. QED
    BY <1>1, <1>2

(* The images of some of the numbers from 1 to n are finitely many.        *)
LEMMA SomeOfThem ==
  ASSUME NEW n \in Nat, NEW S, S \subseteq 1..n
  PROVE  IsFiniteSet(S) /\ S \subseteq Int
  <1>1. IsFiniteSet(1..n)
    BY FS_Interval
  <1>2. IsFiniteSet(S)
    BY <1>1, FS_Subset
  <1>3. QED
    BY <1>2

-----------------------------------------------------------------------------
(* Days.                                                                   *)
Parts(s, d, q, a) == ((s - d) * q - a) \div q

LEMMA PartsType ==
  ASSUME NEW a \in Int, NEW s \in Int, NEW d \in Int, NEW q \in 1..5
  PROVE  Parts(s, d, q, a) \in Int
  BY DEF Parts

PartsMove(s, d, e, q, a) == Parts(s, e, q, a) = Parts(s, d, q, a) - (e - d)

LEMMA PartsMoved ==
  ASSUME NEW a \in Int, NEW s \in Int, NEW d \in Int, NEW e \in Int, NEW q \in 1..5
  PROVE  PartsMove(s, d, e, q, a)
  <1> USE DEF Parts, PartsMove
  <1>1. CASE q = 1
    BY <1>1
  <1>2. CASE q = 2
    BY <1>2
  <1>3. CASE q = 3
    BY <1>3
  <1>4. CASE q = 4
    BY <1>4
  <1>5. CASE q = 5
    BY <1>5
  <1>6. QED
    BY <1>1, <1>2, <1>3, <1>4, <1>5

(* A day later every deadline is a day nearer.                             *)
LEMMA DaysPass ==
  ASSUME NEW p \in Plans, NEW f \in FactsType, NEW g \in FactsType, NEW n \in Int,
         g.today = f.today + n, g.approved = f.approved
  PROVE  /\ \A k \in 1..p.quotas : /\ QuotaDeadline(p, f, k) \in Int
                                   /\ QuotaDeadline(p, g, k) = QuotaDeadline(p, f, k) - n
         /\ \A k \in 1..Len(p.terms) : /\ TermDeadline(p, f, k) \in Int
                                       /\ TermDeadline(p, g, k) = TermDeadline(p, f, k) - n
  <1>1. f.today \in Int /\ f.approved \in Int /\ g.today \in Int
    BY DEF FactsType, Never
  <1>2. Later(0, f.approved) \in Int
    BY <1>1 DEF Later
  <1>3. ASSUME NEW k \in 1..p.quotas
        PROVE  /\ QuotaDeadline(p, f, k) \in Int
               /\ QuotaDeadline(p, g, k) = QuotaDeadline(p, f, k) - n
    <2> DEFINE a == p.start * (p.quotas - (k - 1))
    <2>1. p.start \in Int /\ p.quotas \in 1..5 /\ a \in Int
      BY PlanType
    <2>2. CASE k = 1
      BY <1>1, <1>2, <2>2 DEF QuotaDeadline, PaymentDeadline
    <2>3. CASE k # 1
      <3>1. /\ QuotaDeadline(p, f, k) = Parts(p.start, f.today, p.quotas, a)
            /\ QuotaDeadline(p, g, k) = Parts(p.start, g.today, p.quotas, a)
        BY <2>3 DEF QuotaDeadline, Parts
      <3> HIDE DEF a
      <3>2. Parts(p.start, f.today, p.quotas, a) \in Int
        BY <1>1, <2>1, PartsType
      <3>3. PartsMove(p.start, f.today, g.today, p.quotas, a)
        BY <1>1, <2>1, PartsMoved
      <3>4. QED
        BY <1>1, <3>1, <3>2, <3>3 DEF PartsMove
    <2>4. QED
      BY <2>2, <2>3
  <1>4. ASSUME NEW k \in 1..Len(p.terms)
        PROVE  /\ TermDeadline(p, f, k) \in Int
               /\ TermDeadline(p, g, k) = TermDeadline(p, f, k) - n
    <2>1. p.terms[k].day \in Int
      BY PlanType
    <2>2. CASE p.terms[k].due = "days"
      <3>1. /\ TermDeadline(p, f, k) = Later(0, f.approved) + p.terms[k].day - f.today
            /\ TermDeadline(p, g, k) = Later(0, f.approved) + p.terms[k].day - (f.today + n)
        BY <2>2 DEF TermDeadline, PaymentDeadline
      <3>2. QED
        BY <1>1, <1>2, <2>1, <3>1
    <2>3. CASE p.terms[k].due # "days"
      BY <1>1, <2>1, <2>3 DEF TermDeadline
    <2>4. QED
      BY <2>2, <2>3
  <1>5. QED
    BY <1>3, <1>4

LEMMA DaysType ==
  ASSUME NEW p \in Plans, NEW f \in FactsType
  PROVE  /\ \A k \in 1..p.quotas : QuotaDeadline(p, f, k) \in Int
         /\ \A k \in 1..Len(p.terms) : TermDeadline(p, f, k) \in Int
  <1>1. f.today = f.today + 0
    BY DEF FactsType
  <1>2. QED
    BY <1>1, DaysPass

-----------------------------------------------------------------------------
(* Amounts.                                                                *)
LEMMA SharePart ==
  ASSUME NEW n \in 1..5, NEW k \in 1..n, NEW price \in Nat, NEW c \in {0, 1}
  PROVE  /\ (price * k - c) \div n \in Int
         /\ (price * k - c) \div n <= price
         /\ k = n => (price * k - c) \div n >= price - 1
  <1>1. price * k \in Nat /\ price * k <= price * n
    OBVIOUS
  <1>2. CASE n = 1
    BY <1>1, <1>2
  <1>3. CASE n = 2
    BY <1>1, <1>3
  <1>4. CASE n = 3
    BY <1>1, <1>4
  <1>5. CASE n = 4
    BY <1>1, <1>5
  <1>6. CASE n = 5
    BY <1>1, <1>6
  <1>7. QED
    BY <1>2, <1>3, <1>4, <1>5, <1>6

LEMMA QuotaPart ==
  ASSUME NEW p \in Plans, NEW f \in FactsType, NEW k \in 1..p.quotas, NEW last \in BOOLEAN
  PROVE  /\ QuotaAmount(p, f, k, last) \in Int
         /\ QuotaAmount(p, f, k, last) <= f.price - f.paid
         /\ QuotaAmount(p, f, p.quotas, FALSE) >= f.price - f.paid - 1
  <1>1. f.price \in Nat /\ f.paid \in Nat /\ p.quotas \in 1..5 /\ p.quotas \in 1..p.quotas
    BY PlanType DEF FactsType
  <1>2. /\ Share(p, f, k) \in Int /\ Share(p, f, k) <= f.price
        /\ Share(p, f, p.quotas) \in Int /\ Share(p, f, p.quotas) >= f.price - 1
    <2>1. CASE p.quotas \in ShortShares
      BY <1>1, <2>1, SharePart DEF Share
    <2>2. CASE p.quotas \notin ShortShares
      BY <1>1, <2>2, SharePart DEF Share
    <2>3. QED
      BY <2>1, <2>2
  <1>3. QED
    BY <1>1, <1>2 DEF QuotaAmount

(* What the first terms add up to: at most the price, and never less when  *)
(* more terms are near.                                                    *)
NearUpTo(p, f, k) == {j \in NearTerms(p, f) : j <= k}

LEMMA CumulativeGrows ==
  ASSUME NEW p \in Plans, NEW f \in FactsType, NEW g \in FactsType, g.price = f.price,
         NEW k, NEW l, NearUpTo(p, f, k) \subseteq NearUpTo(p, g, l)
  PROVE  /\ Cumulative(p, f, k) \in Nat /\ Cumulative(p, f, k) <= f.price
         /\ Cumulative(p, f, k) <= Cumulative(p, g, l)
  <1> DEFINE S == NearUpTo(p, f, k)
             T == NearUpTo(p, g, l)
             a == Amounts(p)
  <1>1. /\ S \subseteq T /\ T \subseteq 1..Len(p.terms)
        /\ \A j \in T : a[j] \in Nat /\ a[j] = p.terms[j].amount
        /\ f.price \in Nat
    BY PlanType DEF NearUpTo, NearTerms, FactsType
  <1>2. IsFiniteSet(T) /\ IsFiniteSet(S)
    BY <1>1, SomeOfThem, FS_Subset, PlanType
  <1>3. /\ SumFunctionOnSet(a, S) \in Nat /\ SumFunctionOnSet(a, T) \in Nat
        /\ SumFunctionOnSet(a, S) <= SumFunctionOnSet(a, T)
    <2> HIDE DEF S, T, a
    <2> QED BY <1>1, <1>2, SumNatural, SumOfPart
  <1>4. /\ Cumulative(p, f, k) = IF SumFunctionOnSet(a, S) > f.price \/ \E j \in S : p.terms[j].amount = 0
                                 THEN f.price ELSE SumFunctionOnSet(a, S)
        /\ Cumulative(p, g, l) = IF SumFunctionOnSet(a, T) > f.price \/ \E j \in T : p.terms[j].amount = 0
                                 THEN f.price ELSE SumFunctionOnSet(a, T)
    BY DEF Cumulative, NearUpTo
  <1> HIDE DEF S, T, a
  <1>5. QED
    BY <1>1, <1>3, <1>4

-----------------------------------------------------------------------------
(* The days of what is near and not paid.  A plan without terms asks for   *)
(* all from the first day.                                                 *)
NoTerms(p) == p.kind = "installments" /\ Len(p.terms) = 0

OwedDays(p, f) ==
  IF p.kind = "quotas" THEN {QuotaDeadline(p, f, k) : k \in OwedQuotas(p, f)}
  ELSE IF Len(p.terms) = 0 THEN {x \in {0 - f.today} : f.price > f.paid}
  ELSE {TermDeadline(p, f, k) : k \in OwedTerms(p, f)}

LEMMA OwedTypes ==
  ASSUME NEW p \in Plans, NEW f \in FactsType
  PROVE  /\ OwedQuotas(p, f) \subseteq 1..p.quotas /\ NearQuotas(p, f) \subseteq 1..p.quotas
         /\ OverdueQuotas(p, f) \subseteq OwedQuotas(p, f)
         /\ OwedTerms(p, f) \subseteq 1..Len(p.terms) /\ NearTerms(p, f) \subseteq 1..Len(p.terms)
         /\ OverdueTerms(p, f) \subseteq 1..Len(p.terms)
         /\ \A k \in 1..Len(p.terms) : /\ Cumulative(p, f, k) \in Nat
                                       /\ Cumulative(p, f, k) <= f.price
                                       /\ Cumulative(p, f, k) <= Cumulative(p, f, Len(p.terms))
         /\ Cumulative(p, f, Len(p.terms)) \in Nat /\ Cumulative(p, f, Len(p.terms)) <= f.price
  <1>1. \A k : NearUpTo(p, f, k) \subseteq NearUpTo(p, f, k)
    OBVIOUS
  <1>2. \A k \in 1..Len(p.terms) : NearUpTo(p, f, k) \subseteq NearUpTo(p, f, Len(p.terms))
    BY PlanType DEF NearUpTo, NearTerms
  <1>3. \A k \in 1..Len(p.terms) : /\ Cumulative(p, f, k) \in Nat
                                   /\ Cumulative(p, f, k) <= f.price
                                   /\ Cumulative(p, f, k) <= Cumulative(p, f, Len(p.terms))
    BY <1>2, CumulativeGrows
  <1>4. Cumulative(p, f, Len(p.terms)) \in Nat /\ Cumulative(p, f, Len(p.terms)) <= f.price
    BY <1>1, CumulativeGrows
  <1>5. QED
    BY <1>3, <1>4 DEF OwedQuotas, NearQuotas, OverdueQuotas, OwedTerms, NearTerms, OverdueTerms

(* Only who has not paid the price owes anything; days are whole numbers.  *)
LEMMA OwedMeansDebt ==
  ASSUME NEW p \in Plans, NEW f \in FactsType, NEW x \in OwedDays(p, f)
  PROVE  x \in Int /\ f.price > f.paid
  <1> USE DEF FactsType
  <1>1. CASE p.kind = "quotas"
    <2>1. PICK k \in OwedQuotas(p, f) : x = QuotaDeadline(p, f, k)
      BY <1>1 DEF OwedDays
    <2>2. k \in 1..p.quotas /\ QuotaAmount(p, f, k, k = p.quotas) > 0
      BY OwedTypes DEF OwedQuotas
    <2>3. /\ QuotaAmount(p, f, k, k = p.quotas) \in Int
          /\ QuotaAmount(p, f, k, k = p.quotas) <= f.price - f.paid
      BY <2>2, QuotaPart
    <2>4. QED
      BY <2>1, <2>2, <2>3, DaysType
  <1>2. CASE p.kind # "quotas" /\ Len(p.terms) = 0
    BY <1>2 DEF OwedDays
  <1>3. CASE p.kind # "quotas" /\ Len(p.terms) # 0
    <2>1. PICK k \in OwedTerms(p, f) : x = TermDeadline(p, f, k)
      BY <1>3 DEF OwedDays
    <2>2. k \in 1..Len(p.terms) /\ Cumulative(p, f, k) > f.paid
      BY OwedTypes DEF OwedTerms
    <2>3. QED
      BY <2>1, <2>2, OwedTypes, DaysType
  <1>4. QED
    BY <1>1, <1>2, <1>3

(* Who pays owes no more than before.                                      *)
LEMMA OwedAfterPaying ==
  ASSUME NEW p \in Plans, NEW f \in FactsType, NEW g \in FactsType, g.today = f.today,
         g.approved = f.approved, g.price = f.price, g.paid >= f.paid
  PROVE  OwedDays(p, g) \subseteq OwedDays(p, f)
  <1>1. f.paid \in Nat /\ g.paid \in Nat /\ f.price \in Nat
    BY DEF FactsType
  <1>2. CASE p.kind = "quotas"
    <2>1. \A k : QuotaDeadline(p, g, k) = QuotaDeadline(p, f, k)
      BY DEF QuotaDeadline, PaymentDeadline
    <2>2. \A k \in 1..p.quotas : QuotaAmount(p, g, k, k = p.quotas) > 0 => QuotaAmount(p, f, k, k = p.quotas) > 0
      <3> SUFFICES ASSUME NEW k \in 1..p.quotas, QuotaAmount(p, g, k, k = p.quotas) > 0
                   PROVE  QuotaAmount(p, f, k, k = p.quotas) > 0
        OBVIOUS
      <3> DEFINE whole == IF k = p.quotas THEN f.price ELSE Share(p, f, k)
      <3>1. QuotaAmount(p, g, k, k = p.quotas) = whole - g.paid /\ QuotaAmount(p, f, k, k = p.quotas) = whole - f.paid
        BY DEF QuotaAmount, Share
      <3>2. whole - f.paid \in Int
        BY <3>1, QuotaPart
      <3>3. whole \in Int
        <4>1. f.price * k - (IF p.quotas \in ShortShares THEN 1 ELSE 0) \in Int /\ p.quotas \in 1..5
          BY <1>1, PlanType
        <4>2. QED
          BY <1>1, <4>1 DEF Share
      <3> HIDE DEF whole
      <3>4. QED
        BY <1>1, <3>1, <3>3
    <2>3. OwedQuotas(p, g) \subseteq OwedQuotas(p, f)
      BY <2>1, <2>2 DEF OwedQuotas, NearQuotas
    <2>4. QED
      BY <1>2, <2>1, <2>3 DEF OwedDays
  <1>3. CASE p.kind # "quotas" /\ Len(p.terms) = 0
    BY <1>1, <1>3 DEF OwedDays
  <1>4. CASE p.kind # "quotas" /\ Len(p.terms) # 0
    <2>1. \A k : TermDeadline(p, g, k) = TermDeadline(p, f, k)
      BY DEF TermDeadline, PaymentDeadline
    <2>2. NearTerms(p, g) = NearTerms(p, f)
      BY <2>1 DEF NearTerms
    <2>3. \A k : Cumulative(p, g, k) = Cumulative(p, f, k)
      BY <2>2 DEF Cumulative
    <2>4. \A k \in NearTerms(p, f) : Cumulative(p, f, k) \in Nat
      BY OwedTypes
    <2>5. OwedTerms(p, g) \subseteq OwedTerms(p, f)
      BY <1>1, <2>2, <2>3, <2>4 DEF OwedTerms
    <2>6. QED
      BY <1>4, <2>1, <2>5 DEF OwedDays
  <1>5. QED
    BY <1>2, <1>3, <1>4

(* What is owed stays owed on the days that follow, and is as much nearer. *)
LEMMA OwedLater ==
  ASSUME NEW p \in Plans, NEW f \in FactsType, NEW g \in FactsType, NEW n \in Nat,
         g.today = f.today + n, g.approved = f.approved, g.price = f.price, g.paid = f.paid,
         NEW x \in OwedDays(p, f)
  PROVE  x - n \in OwedDays(p, g)
  <1>1. CASE p.kind = "quotas"
    <2>1. PICK k \in OwedQuotas(p, f) : x = QuotaDeadline(p, f, k)
      BY <1>1 DEF OwedDays
    <2>2. k \in 1..p.quotas /\ QuotaDeadline(p, f, k) < Alert /\ QuotaAmount(p, f, k, k = p.quotas) > 0
      BY OwedTypes DEF OwedQuotas, NearQuotas
    <2>3. QuotaDeadline(p, g, k) = x - n /\ x \in Int
      BY <2>1, <2>2, DaysPass
    <2>4. x - n < Alert
      BY <2>1, <2>2, <2>3, ConstantsAssumption DEF ConstantsAssumption
    <2>5. k \in OwedQuotas(p, g)
      BY <2>2, <2>3, <2>4 DEF OwedQuotas, NearQuotas, QuotaAmount, Share
    <2>6. QED
      BY <1>1, <2>3, <2>5 DEF OwedDays
  <1>2. CASE p.kind # "quotas" /\ Len(p.terms) = 0
    BY <1>2 DEF OwedDays, FactsType
  <1>3. CASE p.kind # "quotas" /\ Len(p.terms) # 0
    <2>1. PICK k \in OwedTerms(p, f) : x = TermDeadline(p, f, k)
      BY <1>3 DEF OwedDays
    <2>2. \A j \in 1..Len(p.terms) : /\ TermDeadline(p, f, j) \in Int
                                     /\ TermDeadline(p, g, j) = TermDeadline(p, f, j) - n
      BY DaysPass
    <2>3. NearTerms(p, f) \subseteq NearTerms(p, g)
      BY <2>2, ConstantsAssumption DEF ConstantsAssumption, NearTerms
    <2>4. Cumulative(p, f, k) <= Cumulative(p, g, k)
      BY <2>3, CumulativeGrows DEF NearUpTo
    <2>5. k \in NearTerms(p, f) /\ k \in 1..Len(p.terms) /\ Cumulative(p, f, k) > f.paid
      BY OwedTypes DEF OwedTerms
    <2>6. Cumulative(p, f, k) \in Nat /\ Cumulative(p, g, k) \in Nat /\ f.paid \in Nat
      BY <2>5, OwedTypes DEF FactsType
    <2>7. k \in OwedTerms(p, g)
      BY <2>3, <2>4, <2>5, <2>6 DEF OwedTerms
    <2>8. QED
      BY <1>3, <2>1, <2>2, <2>5, <2>7 DEF OwedDays
  <1>4. QED
    BY <1>1, <1>2, <1>3

(* What is owed on a day was owed on an earlier one, if its day was within *)
(* the alert then and the terms are in the order of their days.            *)
LEMMA OwedBefore ==
  ASSUME NEW p \in Plans, NEW f \in FactsType, NEW g \in FactsType, NEW n \in Nat,
         g.today = f.today + n, g.approved = f.approved, g.price = f.price, g.paid = f.paid,
         ~OutOfOrder(p, g), NEW x \in OwedDays(p, g), x + n < Alert \/ NoTerms(p)
  PROVE  x + n \in OwedDays(p, f)
  <1>1. CASE p.kind = "quotas"
    <2>1. PICK k \in OwedQuotas(p, g) : x = QuotaDeadline(p, g, k)
      BY <1>1 DEF OwedDays
    <2>2. k \in 1..p.quotas /\ QuotaAmount(p, g, k, k = p.quotas) > 0
      BY OwedTypes DEF OwedQuotas
    <2>3. QuotaDeadline(p, f, k) = x + n
      BY <2>1, <2>2, DaysPass
    <2>4. k \in OwedQuotas(p, f)
      BY <1>1, <2>2, <2>3 DEF OwedQuotas, NearQuotas, QuotaAmount, Share, NoTerms
    <2>5. QED
      BY <1>1, <2>3, <2>4 DEF OwedDays
  <1>2. CASE p.kind # "quotas" /\ Len(p.terms) = 0
    BY <1>2 DEF OwedDays, FactsType
  <1>3. CASE p.kind # "quotas" /\ Len(p.terms) # 0
    <2>1. PICK k \in OwedTerms(p, g) : x = TermDeadline(p, g, k)
      BY <1>3 DEF OwedDays
    <2>2. \A j \in 1..Len(p.terms) : /\ TermDeadline(p, f, j) \in Int
                                     /\ TermDeadline(p, g, j) = TermDeadline(p, f, j) - n
      BY DaysPass
    <2>3. k \in NearTerms(p, g) /\ k \in 1..Len(p.terms) /\ Cumulative(p, g, k) > g.paid
      BY OwedTypes DEF OwedTerms
    <2>4. TermDeadline(p, f, k) = x + n /\ x + n < Alert /\ x + n \in Int
      BY <1>3, <2>1, <2>2, <2>3 DEF NoTerms
    <2>5. ASSUME NEW j \in 1..Len(p.terms), j <= k
          PROVE  TermDeadline(p, f, j) < Alert
      <3>1. TermDeadline(p, g, j) <= TermDeadline(p, g, k)
        <4>1. CASE j = k
          BY <2>2, <2>3, <4>1
        <4>2. CASE j < k
          <5>1. p.kind = "installments"
            BY <1>3, PlanType
          <5>2. ~(TermDeadline(p, g, k) < TermDeadline(p, g, j))
            BY <2>3, <2>5, <4>2, <5>1 DEF OutOfOrder
          <5>3. TermDeadline(p, g, k) \in Int /\ TermDeadline(p, g, j) \in Int
            BY <2>2, <2>3, <2>5
          <5>4. QED
            BY <5>2, <5>3
        <4>3. QED
          BY <2>3, <2>5, <4>1, <4>2
      <3>2. TermDeadline(p, f, j) <= TermDeadline(p, f, k) /\ TermDeadline(p, f, j) \in Int
        BY <2>2, <2>3, <2>5, <3>1
      <3>3. QED
        BY <2>4, <3>2, ConstantsAssumption DEF ConstantsAssumption
    <2>6. NearUpTo(p, g, k) \subseteq NearUpTo(p, f, k)
      BY <2>3, <2>5, OwedTypes DEF NearUpTo, NearTerms
    <2>7. Cumulative(p, g, k) <= Cumulative(p, f, k)
      BY <2>6, CumulativeGrows
    <2>8. Cumulative(p, f, k) \in Nat /\ Cumulative(p, g, k) \in Nat /\ f.paid \in Nat
      BY <2>3, OwedTypes DEF FactsType
    <2>9. k \in OwedTerms(p, f)
      BY <2>3, <2>5, <2>7, <2>8 DEF OwedTerms, NearTerms
    <2>10. QED
      BY <1>3, <2>4, <2>9 DEF OwedDays
  <1>4. QED
    BY <1>1, <1>2, <1>3

-----------------------------------------------------------------------------
(* What the calculation asks for.                                          *)
OldQuotas(p, f) == OldestOf({QuotaDeadline(p, f, k) : k \in OverdueQuotas(p, f)})
OldTerms(p, f) == OldestOf({TermDeadline(p, f, k) : k \in OverdueTerms(p, f)})

LEMMA OldestType ==
  ASSUME NEW p \in Plans, NEW f \in FactsType
  PROVE  /\ OldQuotas(p, f) \in Int /\ OldQuotas(p, f) <= 0
         /\ OldQuotas(p, f) # 0 => \E k \in OverdueQuotas(p, f) : QuotaDeadline(p, f, k) = OldQuotas(p, f)
         /\ OldTerms(p, f) \in Int /\ OldTerms(p, f) <= 0
         /\ OldTerms(p, f) # 0 => \E k \in OverdueTerms(p, f) : TermDeadline(p, f, k) = OldTerms(p, f)
  <1>1. /\ OverdueQuotas(p, f) \subseteq 1..p.quotas /\ OverdueTerms(p, f) \subseteq 1..Len(p.terms)
        /\ p.quotas \in Nat /\ Len(p.terms) \in Nat
    BY OwedTypes, PlanType
  <1>2. IsFiniteSet(OverdueQuotas(p, f)) /\ IsFiniteSet(OverdueTerms(p, f))
    BY <1>1, SomeOfThem
  <1> DEFINE DQ == {QuotaDeadline(p, f, k) : k \in OverdueQuotas(p, f)}
             DT == {TermDeadline(p, f, k) : k \in OverdueTerms(p, f)}
  <1>3. IsFiniteSet(DQ)
    <2>1. [k \in OverdueQuotas(p, f) |-> QuotaDeadline(p, f, k)] \in Surjection(OverdueQuotas(p, f), DQ)
      BY DEF Surjection
    <2>2. QED
      BY <1>2, <2>1, FS_Surjection
  <1>4. IsFiniteSet(DT)
    <2>1. [k \in OverdueTerms(p, f) |-> TermDeadline(p, f, k)] \in Surjection(OverdueTerms(p, f), DT)
      BY DEF Surjection
    <2>2. QED
      BY <1>2, <2>1, FS_Surjection
  <1>5. DQ \subseteq Int /\ \A x \in DQ : x < 0
    BY <1>1, DaysType DEF OverdueQuotas
  <1>6. DT \subseteq Int /\ \A x \in DT : x < 0
    BY <1>1, DaysType DEF OverdueTerms
  <1>7. OldQuotas(p, f) = OldestOf(DQ) /\ OldTerms(p, f) = OldestOf(DT)
    BY DEF OldQuotas, OldTerms
  <1>8. /\ OldestOf(DQ) \in Int /\ (OldestOf(DQ) # 0 => OldestOf(DQ) \in DQ) /\ OldestOf(DQ) <= 0
    <2> HIDE DEF DQ
    <2> QED BY <1>3, <1>5, OldestIsOne
  <1>9. /\ OldestOf(DT) \in Int /\ (OldestOf(DT) # 0 => OldestOf(DT) \in DT) /\ OldestOf(DT) <= 0
    <2> HIDE DEF DT
    <2> QED BY <1>4, <1>6, OldestIsOne
  <1>10. QED
    BY <1>7, <1>8, <1>9

(* A quota as it is asked for, and without what the last one adds to it.   *)
AmountOf(p, f, k) == QuotaAmount(p, f, k, k = p.quotas)
PartOf(p, f, k) == QuotaAmount(p, f, k, FALSE)

LEMMA AmountFacts ==
  ASSUME NEW p \in Plans, NEW f \in FactsType, NEW k \in 1..p.quotas
  PROVE  /\ AmountOf(p, f, k) \in Int /\ AmountOf(p, f, k) <= f.price - f.paid
         /\ PartOf(p, f, k) \in Int /\ PartOf(p, f, k) <= f.price - f.paid
         /\ k \in OwedQuotas(p, f) => AmountOf(p, f, k) > 0 /\ PartOf(p, f, k) >= 0
  <1>1. f.price \in Int /\ f.paid \in Int
    BY DEF FactsType
  <1>2. /\ AmountOf(p, f, k) \in Int /\ AmountOf(p, f, k) <= f.price - f.paid
    BY QuotaPart DEF AmountOf
  <1>3. PartOf(p, f, k) \in Int /\ PartOf(p, f, k) <= f.price - f.paid
    BY QuotaPart DEF PartOf
  <1>4. PartOf(p, f, p.quotas) >= f.price - f.paid - 1
    BY QuotaPart DEF PartOf
  <1>5. k \in OwedQuotas(p, f) => AmountOf(p, f, k) > 0
    BY DEF OwedQuotas, AmountOf
  <1>6. AmountOf(p, f, k) > 0 => PartOf(p, f, k) >= 0
    <2>1. CASE k = p.quotas
      BY <1>1, <1>2, <1>3, <1>4, <2>1
    <2>2. CASE k # p.quotas
      <3>1. (k = p.quotas) = FALSE
        BY <2>2
      <3>2. AmountOf(p, f, k) = PartOf(p, f, k)
        BY <3>1 DEF AmountOf, PartOf
      <3>3. QED
        BY <1>2, <3>2
    <2>3. QED
      BY <2>1, <2>2
  <1>7. QED
    BY <1>2, <1>3, <1>5, <1>6

LEMMA QuotaCases ==
  ASSUME NEW p \in Plans, NEW f \in FactsType
  PROVE  LET a == AskQuota(p, f)
         IN  \/ \E k \in OwedQuotas(p, f) \ OverdueQuotas(p, f) :
                  a.quota = AmountOf(p, f, k) /\ a.deadline = QuotaDeadline(p, f, k)
             \/ /\ OwedQuotas(p, f) \subseteq OverdueQuotas(p, f)
                /\ \/ \E k \in OverdueQuotas(p, f) :
                        a.quota = PartOf(p, f, k) /\ a.deadline = OldQuotas(p, f)
                   \/ f.price > f.paid /\ a.quota = f.price - f.paid /\ a.deadline = OldQuotas(p, f)
                   \/ /\ OverdueQuotas(p, f) = {} \/ ~(f.price > f.paid)
                      /\ a.quota = 0 /\ a.deadline = 0
  <1> DEFINE valid == OwedQuotas(p, f) \ OverdueQuotas(p, f)
             overdue == OverdueQuotas(p, f)
  <1>1. valid \subseteq 1..p.quotas /\ overdue \subseteq 1..p.quotas /\ p.quotas \in Nat
    BY OwedTypes, PlanType
  <1>2. valid # {} => Min(valid) \in valid
    <2> HIDE DEF valid
    <2> QED BY <1>1, SomeOfThem, LeastIs
  <1>3. overdue # {} => Max(overdue) \in overdue
    <2> HIDE DEF overdue
    <2> QED BY <1>1, SomeOfThem, GreatestIs
  <1>4. CASE valid # {}
    BY <1>2, <1>4 DEF AskQuota, AmountOf
  <1>5. CASE valid = {} /\ NearQuotas(p, f) # 1..p.quotas
    BY <1>3, <1>5 DEF AskQuota, OldQuotas, Nothing, PartOf
  <1>6. CASE valid = {} /\ NearQuotas(p, f) = 1..p.quotas
    BY <1>6 DEF AskQuota, OldQuotas, Nothing, PartOf
  <1>7. QED
    BY <1>4, <1>5, <1>6

LEMMA TermCases ==
  ASSUME NEW p \in Plans, NEW f \in FactsType
  PROVE  LET a == AskInstallment(p, f)
             total == Cumulative(p, f, Len(p.terms))
         IN  \/ \E k \in OwedTerms(p, f) : /\ TermDeadline(p, f, k) > 0
                                           /\ a.quota = Cumulative(p, f, k) - f.paid
                                           /\ a.deadline = TermDeadline(p, f, k)
             \/ total > f.paid /\ a.quota = total - f.paid /\ a.deadline = OldTerms(p, f)
             \/ f.price > f.paid /\ a.quota = f.price - f.paid /\ a.deadline = OldTerms(p, f)
             \/ /\ NearTerms(p, f) = 1..Len(p.terms) /\ total = 0
                /\ a.quota = f.price - f.paid /\ a.deadline = 0 - f.today
             \/ /\ (~(total > f.paid) /\ NearTerms(p, f) # 1..Len(p.terms)) \/ ~(f.price > f.paid)
                /\ a.quota = 0 /\ a.deadline = 0
  <1> DEFINE valid == {k \in OwedTerms(p, f) : TermDeadline(p, f, k) > 0}
  <1>1. valid \subseteq 1..Len(p.terms) /\ Len(p.terms) \in Nat
    BY OwedTypes, PlanType
  <1>2. valid # {} => Min(valid) \in valid
    <2> HIDE DEF valid
    <2> QED BY <1>1, SomeOfThem, LeastIs
  <1>3. CASE valid # {}
    BY <1>2, <1>3 DEF AskInstallment
  <1>4. CASE valid = {} /\ NearTerms(p, f) # 1..Len(p.terms)
    BY <1>4 DEF AskInstallment, OldTerms, Nothing
  <1>5. CASE valid = {} /\ NearTerms(p, f) = 1..Len(p.terms)
    BY <1>5 DEF AskInstallment, OldTerms, Nothing
  <1>6. QED
    BY <1>3, <1>4, <1>5

(* Never more than the debt.                                               *)
LEMMA AskAtMost ==
  ASSUME NEW p \in Plans, NEW f \in FactsType
  PROVE  /\ Ask(p, f).quota \in Int /\ Ask(p, f).deadline \in Int
         /\ Ask(p, f).quota <= (IF f.price - f.paid > 0 THEN f.price - f.paid ELSE 0)
  <1>1. f.price \in Nat /\ f.paid \in Nat /\ f.today \in Nat
    BY DEF FactsType
  <1>2. CASE f.price = f.paid \/ f.cancelled \/ f.approved = Never
    BY <1>1, <1>2 DEF Ask, Nothing
  <1>3. CASE ~(f.price = f.paid \/ f.cancelled \/ f.approved = Never) /\ p.kind = "quotas"
    <2>1. Ask(p, f) = AskQuota(p, f)
      BY <1>3 DEF Ask
    <2>2. \A k \in 1..p.quotas : /\ AmountOf(p, f, k) \in Int /\ AmountOf(p, f, k) <= f.price - f.paid
                                 /\ PartOf(p, f, k) \in Int /\ PartOf(p, f, k) <= f.price - f.paid
                                 /\ QuotaDeadline(p, f, k) \in Int
      BY AmountFacts, DaysType
    <2>3. OldQuotas(p, f) \in Int
      BY OldestType
    <2>4. QED
      BY <1>1, <2>1, <2>2, <2>3, QuotaCases, OwedTypes
  <1>4. CASE ~(f.price = f.paid \/ f.cancelled \/ f.approved = Never) /\ p.kind # "quotas"
    <2>1. Ask(p, f) = AskInstallment(p, f)
      BY <1>4 DEF Ask
    <2>2. OldTerms(p, f) \in Int
      BY OldestType
    <2>3. QED
      BY <1>1, <2>1, <2>2, TermCases, OwedTypes, DaysType
  <1>5. QED
    BY <1>2, <1>3, <1>4

(* Terms with amounts add up to something.                                 *)
LEMMA TermsAddUp ==
  ASSUME NEW p \in Plans, NEW f \in FactsType, NearTerms(p, f) = 1..Len(p.terms), Len(p.terms) # 0,
         f.price > 0
  PROVE  Cumulative(p, f, Len(p.terms)) # 0
  <1> DEFINE S == NearUpTo(p, f, Len(p.terms))
             a == Amounts(p)
  <1>1. /\ Len(p.terms) \in Nat /\ 1 \in S /\ S = 1..Len(p.terms)
        /\ \A j \in S : a[j] \in Nat /\ a[j] = p.terms[j].amount
    BY PlanType DEF NearUpTo
  <1>2. IsFiniteSet(S)
    BY <1>1, FS_Interval
  <1>3. Cumulative(p, f, Len(p.terms))
          = IF SumFunctionOnSet(a, S) > f.price \/ \E j \in S : p.terms[j].amount = 0
            THEN f.price ELSE SumFunctionOnSet(a, S)
    BY DEF Cumulative, NearUpTo
  <1>4. CASE \E j \in S : p.terms[j].amount = 0
    BY <1>3, <1>4
  <1>5. CASE ~\E j \in S : p.terms[j].amount = 0
    <2>1. \A j \in S : a[j] \in Nat \ {0}
      BY <1>1, <1>5
    <2>2. Cardinality(S) <= SumFunctionOnSet(a, S)
      <3> HIDE DEF S, a
      <3> QED BY <1>2, <2>1, CountAtMostSum
    <2>3. Cardinality(S) = Len(p.terms)
      BY <1>1, FS_Interval
    <2>4. SumFunctionOnSet(a, S) \in Nat
      <3> HIDE DEF S, a
      <3> QED BY <1>1, <1>2, SumNatural
    <2>5. SumFunctionOnSet(a, S) # 0
      BY <1>1, <2>2, <2>3, <2>4
    <2>6. QED
      BY <1>3, <2>5
  <1>6. QED
    BY <1>4, <1>5

(* Where something is owed an alert is given, except that rounding may     *)
(* leave a quota that is past its day out.                                 *)
LEMMA AskedWhenOwed ==
  ASSUME NEW p \in Plans, NEW f \in FactsType, ~f.cancelled, f.approved # Never,
         NEW x \in OwedDays(p, f)
  PROVE  /\ Ask(p, f).quota >= 0 /\ Ask(p, f).deadline < Alert
         /\ Ask(p, f).quota = 0 => p.kind = "quotas" /\ OverdueQuotas(p, f) # {}
  <1>1. /\ f.price \in Nat /\ f.paid \in Nat /\ f.today \in Nat /\ Alert \in Nat \ {0}
        /\ f.price > f.paid
    BY OwedMeansDebt, ConstantsAssumption DEF FactsType, ConstantsAssumption
  <1>2. CASE p.kind = "quotas"
    <2>1. Ask(p, f) = AskQuota(p, f)
      BY <1>1, <1>2 DEF Ask
    <2>2. OldQuotas(p, f) \in Int /\ OldQuotas(p, f) < Alert
      BY <1>1, OldestType
    <2>3. \A k \in OwedQuotas(p, f) :
            /\ AmountOf(p, f, k) \in Int /\ AmountOf(p, f, k) > 0
            /\ QuotaDeadline(p, f, k) < Alert /\ PartOf(p, f, k) \in Int /\ PartOf(p, f, k) >= 0
      BY AmountFacts, OwedTypes DEF OwedQuotas, NearQuotas
    <2>4. OwedQuotas(p, f) # {} /\ OverdueQuotas(p, f) \subseteq OwedQuotas(p, f)
      BY <1>2, OwedTypes DEF OwedDays
    <2>5. QED
      BY <1>1, <1>2, <2>1, <2>2, <2>3, <2>4, QuotaCases
  <1>3. CASE p.kind # "quotas" /\ Len(p.terms) = 0
    <2>1. NearTerms(p, f) = {} /\ 1..Len(p.terms) = {}
      BY <1>3 DEF NearTerms
    <2>2. OwedTerms(p, f) = {} /\ NearUpTo(p, f, 0) = {}
      BY <2>1 DEF OwedTerms, NearUpTo
    <2>3. Cumulative(p, f, 0) = 0
      BY <1>1, <2>2, SumOfNone DEF Cumulative, NearUpTo
    <2>4. Ask(p, f) = AskInstallment(p, f)
      BY <1>1, <1>3 DEF Ask
    <2>5. AskInstallment(p, f).quota = f.price - f.paid /\ AskInstallment(p, f).deadline = 0 - f.today
      BY <1>3, <2>1, <2>2, <2>3 DEF AskInstallment
    <2>6. QED
      BY <1>1, <2>4, <2>5
  <1>4. CASE p.kind # "quotas" /\ Len(p.terms) # 0
    <2>1. PICK k \in OwedTerms(p, f) : x = TermDeadline(p, f, k)
      BY <1>4 DEF OwedDays
    <2>2. k \in 1..Len(p.terms) /\ Cumulative(p, f, k) > f.paid
      BY OwedTypes DEF OwedTerms
    <2>3. /\ Cumulative(p, f, Len(p.terms)) > f.paid
          /\ Cumulative(p, f, Len(p.terms)) \in Nat
      BY <1>1, <2>2, OwedTypes
    <2>4. Ask(p, f) = AskInstallment(p, f)
      BY <1>1, <1>4 DEF Ask
    <2>5. OldTerms(p, f) \in Int /\ OldTerms(p, f) < Alert
      BY <1>1, OldestType
    <2>6. \A j \in OwedTerms(p, f) : TermDeadline(p, f, j) < Alert /\ Cumulative(p, f, j) - f.paid > 0
      BY <1>1, OwedTypes DEF OwedTerms, NearTerms
    <2>7. AskInstallment(p, f).quota > 0 /\ AskInstallment(p, f).deadline < Alert
      <3>1. CASE \E j \in OwedTerms(p, f) : /\ AskInstallment(p, f).quota = Cumulative(p, f, j) - f.paid
                                            /\ AskInstallment(p, f).deadline = TermDeadline(p, f, j)
        BY <2>6, <3>1
      <3>2. CASE \/ /\ AskInstallment(p, f).quota = Cumulative(p, f, Len(p.terms)) - f.paid
                    /\ AskInstallment(p, f).deadline = OldTerms(p, f)
                 \/ /\ AskInstallment(p, f).quota = f.price - f.paid
                    /\ AskInstallment(p, f).deadline = OldTerms(p, f)
        BY <1>1, <2>3, <2>5, <3>2
      <3>3. QED
        BY <1>1, <2>3, <3>1, <3>2, TermCases
    <2>8. QED
      BY <2>4, <2>7, AskAtMost
  <1>5. QED
    BY <1>2, <1>3, <1>4

(* The day that is shown when it is past is the day of something owed, or  *)
(* that of a term that is paid.                                            *)
LEMMA AskedLate ==
  ASSUME NEW p \in Plans, NEW f \in FactsType, Ask(p, f).quota > 0, Ask(p, f).deadline < 0
  PROVE  \/ Ask(p, f).deadline \in OwedDays(p, f)
         \/ /\ p.kind = "installments"
            /\ \E k \in OverdueTerms(p, f) \ OwedTerms(p, f) : TermDeadline(p, f, k) = Ask(p, f).deadline
  <1>1. /\ f.price \in Nat /\ f.paid \in Nat /\ f.today \in Nat
        /\ p.kind \in {"quotas", "installments"}
    BY PlanType DEF FactsType
  <1>2. ~(f.price = f.paid \/ f.cancelled \/ f.approved = Never)
    BY DEF Ask, Nothing
  <1>3. CASE p.kind = "quotas"
    <2>1. Ask(p, f) = AskQuota(p, f)
      BY <1>2, <1>3 DEF Ask
    <2>2. \A k \in OwedQuotas(p, f) \ OverdueQuotas(p, f) : ~(QuotaDeadline(p, f, k) < 0)
      BY DEF OverdueQuotas
    <2>3. AskQuota(p, f).deadline = OldQuotas(p, f)
      BY <2>1, <2>2, QuotaCases
    <2>4. PICK k \in OverdueQuotas(p, f) : QuotaDeadline(p, f, k) = Ask(p, f).deadline
      BY <2>1, <2>3, OldestType
    <2>5. QED
      BY <1>3, <2>4, OwedTypes DEF OwedDays
  <1>4. CASE p.kind = "installments"
    <2>1. Ask(p, f) = AskInstallment(p, f)
      BY <1>2, <1>4 DEF Ask
    <2>2. \A k \in OwedTerms(p, f) : TermDeadline(p, f, k) \in Int
      BY DaysType, OwedTypes
    <2>3. CASE AskInstallment(p, f).deadline = OldTerms(p, f)
      <3>1. PICK k \in OverdueTerms(p, f) : TermDeadline(p, f, k) = Ask(p, f).deadline
        BY <2>1, <2>3, OldestType
      <3>2. k \in 1..Len(p.terms) /\ Len(p.terms) # 0
        BY OwedTypes
      <3>3. QED
        BY <1>4, <3>1, <3>2 DEF OwedDays
    <2>4. CASE /\ NearTerms(p, f) = 1..Len(p.terms) /\ Cumulative(p, f, Len(p.terms)) = 0
               /\ AskInstallment(p, f).quota = f.price - f.paid
               /\ AskInstallment(p, f).deadline = 0 - f.today
      <3>1. f.price > f.paid /\ f.price > 0
        BY <1>1, <2>1, <2>4
      <3>2. Len(p.terms) = 0
        BY <2>4, <3>1, TermsAddUp
      <3>3. QED
        BY <1>4, <2>1, <2>4, <3>1, <3>2 DEF OwedDays
    <2>5. QED
      BY <2>1, <2>2, <2>3, <2>4, TermCases
  <1>5. QED
    BY <1>1, <1>3, <1>4

LEMMA NothingElse ==
  ASSUME NEW p \in Plans, NEW f \in FactsType, ~f.cancelled, f.approved # Never, NoTerms(p),
         NEW x \in OwedDays(p, f)
  PROVE  Ask(p, f).quota > 0 /\ Ask(p, f).deadline = x
  <1>1. /\ Ask(p, f).quota \in Int /\ Ask(p, f).quota >= 0 /\ Ask(p, f).quota # 0
    BY AskedWhenOwed, AskAtMost DEF NoTerms
  <1>2. /\ f.price > f.paid /\ x = 0 - f.today
    BY OwedMeansDebt DEF NoTerms, OwedDays
  <1>3. Ask(p, f) = AskInstallment(p, f)
    BY <1>2 DEF Ask, NoTerms, FactsType
  <1>4. NearTerms(p, f) = {} /\ 1..Len(p.terms) = {} /\ OwedTerms(p, f) = {}
    BY DEF NoTerms, NearTerms, OwedTerms
  <1>5. Cumulative(p, f, Len(p.terms)) = 0
    BY <1>4, SumOfNone DEF Cumulative, FactsType
  <1>6. AskInstallment(p, f).deadline = 0 - f.today
    BY <1>4, <1>5 DEF AskInstallment
  <1>7. QED
    BY <1>1, <1>2, <1>3, <1>6

-----------------------------------------------------------------------------
(* The state, and the day on which what is asked for was computed.         *)
RegType == [price : Prices, paid : Nat, cancelled : BOOLEAN, quota : Int, deadline : Int, alert : BOOLEAN]

Types ==
  /\ plan \in Plans /\ today \in Nat /\ approved \in Nat \cup {Never} /\ reg \in RegType
  /\ wire \in Nat /\ missed \in Nat /\ slept \in BOOLEAN /\ unfair \in BOOLEAN
  /\ asked \in Nat /\ told \in {"nothing", "skipped", "reminded"}

Live(r, date) == ~r.cancelled /\ date # Never

OwedOn(r, d, date) == OwedDays(plan, Facts(r, d, date))

StoredOn(r, d, date) ==
  LET a == Ask(plan, Facts(r, d, date))
  IN  /\ r.quota = a.quota /\ r.deadline = a.deadline
      /\ r.alert = (a.quota > 0 /\ a.deadline < Alert)

(* Rounding has left out nothing late, and the day is that of a debt.      *)
Fair(r, d, date) ==
  /\ r.quota = 0 => \A x \in OwedOn(r, d, date) : x >= 0
  /\ ~Misdated(r, d, date)

(* As the reg is was computed on day d, at most missed nights ago; if      *)
(* something was asked for then, no night has passed without it.           *)
ComputedOn(d) ==
  /\ d \in Nat /\ d <= today /\ (missed < Alert => today - missed <= d)
  /\ StoredOn(reg, d, approved)
  /\ ~slept /\ d < today => reg.quota <= 0
  /\ ~unfair /\ Live(reg, approved) => Fair(reg, d, approved)

Computed == \E d \in Nat : ComputedOn(d)

NothingLate ==
  ~slept /\ ~unfair /\ Live(reg, approved) => \A x \in OwedOn(reg, today, approved) : x >= 0

LateIsAsked ==
  ~unfair /\ Live(reg, approved) =>
    \A x \in OwedOn(reg, today, approved) : x < 0 => asked >= 0 - x \/ asked > Tolerance

DInv == Types /\ NeverAsksTooMuch /\ Computed /\ NothingLate /\ LateIsAsked

LEMMA FactsTyped ==
  ASSUME NEW r \in RegType, NEW d \in Nat, NEW date \in Nat \cup {Never}
  PROVE  /\ Facts(r, d, date) \in FactsType
         /\ Facts(r, d, date).today = d /\ Facts(r, d, date).approved = date
         /\ Facts(r, d, date).price = r.price /\ Facts(r, d, date).paid = r.paid
         /\ Facts(r, d, date).cancelled = r.cancelled
  <1>1. r.price \in Nat /\ r.paid \in Nat /\ r.cancelled \in BOOLEAN
    BY ConstantsAssumption DEF ConstantsAssumption, RegType
  <1>2. QED
    BY <1>1 DEF Facts, FactsType

LEMMA Refreshes ==
  ASSUME plan \in Plans, NEW r \in RegType, NEW day \in Nat, NEW date \in Nat \cup {Never}
  PROVE  LET n == Refreshed(r, day, date)
         IN  /\ n \in RegType /\ n.price = r.price /\ n.paid = r.paid /\ n.cancelled = r.cancelled
             /\ \A d : Facts(n, d, date) = Facts(r, d, date)
             /\ StoredOn(n, day, date)
             /\ n.quota <= (IF n.price - n.paid > 0 THEN n.price - n.paid ELSE 0)
  <1> DEFINE n == Refreshed(r, day, date)
  <1> DEFINE a == Ask(plan, Facts(r, day, date))
  <1>1. /\ a.quota \in Int /\ a.deadline \in Int
        /\ a.quota <= (IF r.price - r.paid > 0 THEN r.price - r.paid ELSE 0)
    <2> DEFINE f == Facts(r, day, date)
    <2>1. f \in FactsType /\ f.price = r.price /\ f.paid = r.paid
      BY FactsTyped
    <2> HIDE DEF f
    <2>2. /\ Ask(plan, f).quota \in Int /\ Ask(plan, f).deadline \in Int
          /\ Ask(plan, f).quota <= (IF f.price - f.paid > 0 THEN f.price - f.paid ELSE 0)
      BY <2>1, AskAtMost
    <2>3. QED
      BY <2>1, <2>2 DEF f
  <1>2. n = [r EXCEPT !.quota = a.quota, !.deadline = a.deadline,
                      !.alert = a.quota > 0 /\ a.deadline < Alert]
    BY DEF Refreshed
  <1>3. /\ n.price = r.price /\ n.paid = r.paid /\ n.cancelled = r.cancelled
        /\ n.quota = a.quota /\ n.deadline = a.deadline
        /\ n.alert = (a.quota > 0 /\ a.deadline < Alert)
    <2> HIDE DEF a, n
    <2> QED BY <1>2 DEF RegType
  <1>4. n \in RegType
    <2>1. (a.quota > 0 /\ a.deadline < Alert) \in BOOLEAN
      OBVIOUS
    <2> HIDE DEF a, n
    <2>2. QED
      BY <1>1, <1>2, <2>1 DEF RegType
  <1>5. \A d : Facts(n, d, date) = Facts(r, d, date)
    <2> HIDE DEF a, n
    <2> QED BY <1>3 DEF Facts
  <1>6. StoredOn(n, day, date)
    <2> HIDE DEF n
    <2> QED BY <1>3, <1>5 DEF StoredOn
  <1>7. n.quota <= (IF n.price - n.paid > 0 THEN n.price - n.paid ELSE 0)
    <2> HIDE DEF a, n
    <2> QED BY <1>1, <1>3
  <1>8. QED
    BY <1>3, <1>4, <1>5, <1>6, <1>7

(* What is late is overdue, also where no term has a day.                  *)
LEMMA LateIsOverdue ==
  ASSUME plan \in Plans, NEW r \in RegType, NEW day \in Nat, NEW date \in Nat \cup {Never},
         Live(r, date), NEW x \in OwedOn(r, day, date), x < 0,
         NoTerms(plan) => StoredOn(r, day, date)
  PROVE  Overdue(r, day, date)
  <1> DEFINE f == Facts(r, day, date)
  <1>1. /\ f \in FactsType /\ f.cancelled = r.cancelled /\ f.approved = date
    BY FactsTyped
  <1>2. plan.kind \in {"quotas", "installments"}
    BY PlanType
  <1>3. CASE plan.kind = "quotas"
    <2>1. \E k \in OwedQuotas(plan, f) : x = QuotaDeadline(plan, f, k)
      BY <1>3 DEF OwedOn, OwedDays
    <2>2. OverdueQuotas(plan, f) # {}
      BY <2>1 DEF OverdueQuotas
    <2>3. QED
      BY <1>3, <2>2 DEF Overdue, Live
  <1>4. CASE plan.kind = "installments" /\ Len(plan.terms) # 0
    <2>1. \E k \in OwedTerms(plan, f) : x = TermDeadline(plan, f, k)
      BY <1>4 DEF OwedOn, OwedDays
    <2>2. OverdueTerms(plan, f) \cap OwedTerms(plan, f) # {}
      BY <2>1 DEF OverdueTerms, OwedTerms
    <2>3. QED
      BY <1>4, <2>2 DEF Overdue, Live
  <1>5. CASE plan.kind = "installments" /\ Len(plan.terms) = 0
    <2>1. NoTerms(plan) /\ StoredOn(r, day, date)
      BY <1>5 DEF NoTerms
    <2>2. Ask(plan, f).quota > 0 /\ Ask(plan, f).deadline = x
      BY <1>1, <2>1, NothingElse DEF Live, OwedOn
    <2>3. r.quota > 0 /\ r.deadline < 0
      BY <2>1, <2>2 DEF StoredOn
    <2>4. QED
      BY <1>5, <2>3 DEF Overdue, Live
  <1>6. QED
    BY <1>2, <1>3, <1>4, <1>5

(* What was just computed is fair if it is not found unfair.               *)
LEMMA FoundFair ==
  ASSUME plan \in Plans, NEW r \in RegType, NEW day \in Nat, NEW date \in Nat \cup {Never},
         Live(r, date), StoredOn(r, day, date),
         ~Unfair(r, day, date) \/ ~Overdue(r, day, date)
  PROVE  Fair(r, day, date)
  <1>1. ~Overdue(r, day, date) => ~Misdated(r, day, date)
    BY DEF Misdated, Overdue, Live
  <1>2. \A x \in OwedOn(r, day, date) : x < 0 => Overdue(r, day, date)
    BY LateIsOverdue
  <1>3. \A x \in OwedOn(r, day, date) : x \in Int
    BY FactsTyped, OwedMeansDebt DEF OwedOn
  <1>4. QED
    BY <1>1, <1>2, <1>3 DEF Fair, Unfair

-----------------------------------------------------------------------------
(* A step that computes anew for the day: a payment, or one that finds     *)
(* nothing overdue, or the registration is cancelled.                      *)
LEMMA ComputedAnew ==
  ASSUME DInv, NEW r \in RegType, NEW date \in Nat \cup {Never},
         reg' = Refreshed(r, today, date), approved' = date, plan' = plan, today' = today,
         missed' = missed, slept' = slept, asked' = asked, unfair => unfair', Types',
         \/ ~Live(r, date) \/ unfair' \/ ~Overdue(reg', today, date)
         \/ /\ date = approved /\ Open /\ r.price = reg.price /\ r.paid >= reg.paid
            /\ ~Unfair(reg', today, date)
  PROVE  DInv'
  <1> USE DEF DInv, Types
  <1>1. /\ r.price = reg'.price /\ reg'.paid = r.paid /\ reg'.cancelled = r.cancelled /\ reg' \in RegType
        /\ StoredOn(reg', today, date) /\ NeverAsksTooMuch'
        /\ \A d : Facts(reg', d, date) = Facts(r, d, date)
    <2>1. /\ reg' \in RegType /\ reg'.price = r.price /\ reg'.paid = r.paid
          /\ reg'.cancelled = r.cancelled
          /\ \A d : Facts(reg', d, date) = Facts(r, d, date)
          /\ StoredOn(reg', today, date)
          /\ reg'.quota <= (IF reg'.price - reg'.paid > 0 THEN reg'.price - reg'.paid ELSE 0)
      <3> DEFINE n == Refreshed(r, today, date)
      <3>1. /\ n \in RegType /\ n.price = r.price /\ n.paid = r.paid /\ n.cancelled = r.cancelled
            /\ \A d : Facts(n, d, date) = Facts(r, d, date)
            /\ StoredOn(n, today, date)
            /\ n.quota <= (IF n.price - n.paid > 0 THEN n.price - n.paid ELSE 0)
        BY Refreshes
      <3>2. reg' = n
        OBVIOUS
      <3> HIDE DEF n
      <3>3. QED
        BY <3>1, <3>2
    <2>2. NeverAsksTooMuch'
      BY <2>1 DEF NeverAsksTooMuch, Debt
    <2>3. QED
      BY <2>1, <2>2
  <1>2. Live(reg', date) = Live(r, date)
    BY <1>1 DEF Live
  <1>3. Live(r, date) /\ ~unfair' => Fair(reg', today, date)
    BY <1>1, <1>2, FoundFair
  <1>4. Computed'
    <2>1. ComputedOn(today)'
      BY <1>1, <1>2, <1>3 DEF ComputedOn, StoredOn, Fair, OwedOn, Misdated
    <2>2. QED
      BY <2>1 DEF Computed
  <1>5. ASSUME Live(r, date), ~unfair', ~Overdue(reg', today, date)
        PROVE  \A x \in OwedOn(reg', today, date) : x >= 0
    <2>1. \A x \in OwedOn(reg', today, date) : x \in Int
      BY <1>1, FactsTyped, OwedMeansDebt DEF OwedOn
    <2>2. \A x \in OwedOn(reg', today, date) : x < 0 => Overdue(reg', today, date)
      BY <1>1, <1>2, <1>5, LateIsOverdue
    <2>3. QED
      BY <1>5, <2>1, <2>2
  <1>6. ASSUME date = approved, Open, r.price = reg.price, r.paid >= reg.paid
        PROVE  OwedOn(reg', today, date) \subseteq OwedOn(reg, today, approved)
    <2>1. Facts(reg', today, date) \in FactsType /\ Facts(reg, today, approved) \in FactsType
      BY <1>1, FactsTyped
    <2>2. QED
      BY <1>1, <1>6, <2>1, FactsTyped, OwedAfterPaying DEF OwedOn
  <1>7. OwedOn(reg, today, approved)' = OwedOn(reg', today, date) /\ Live(reg, approved)' = Live(r, date)
    BY <1>2 DEF OwedOn
  <1>8. Live(r, date) /\ date = approved /\ Open => Live(reg, approved)
    BY DEF Live, Open
  <1>9. NothingLate'
    BY <1>5, <1>6, <1>7, <1>8 DEF NothingLate
  <1>10. LateIsAsked'
    <2>1. CASE ~Live(r, date) \/ unfair'
      BY <1>7, <2>1 DEF LateIsAsked
    <2>2. CASE Live(r, date) /\ ~unfair' /\ ~Overdue(reg', today, date)
      <3>1. \A x \in OwedOn(reg', today, date) : x \in Int /\ x >= 0
        BY <1>1, <1>5, <2>2, FactsTyped, OwedMeansDebt DEF OwedOn
      <3>2. QED
        BY <1>7, <3>1 DEF LateIsAsked
    <2>3. CASE /\ Live(r, date) /\ ~unfair' /\ date = approved /\ Open /\ r.price = reg.price
               /\ r.paid >= reg.paid
      BY <1>6, <1>7, <1>8, <2>3 DEF LateIsAsked
    <2>4. QED
      BY <2>1, <2>2, <2>3
  <1>11. QED
    BY <1>1, <1>4, <1>9, <1>10

(* What is late after a night was asked for before it, and was due then.   *)
LEMMA AskedBefore ==
  ASSUME Types, NEW d \in Nat, ComputedOn(d), ~unfair, Live(reg, approved),
         NEW day \in Nat, day = today + 1,
         NEW new \in RegType, new.price = reg.price, new.paid = reg.paid, new.cancelled = reg.cancelled,
         StoredOn(new, day, approved) \/ new = reg,
         ~Unfair(new, day, approved),
         missed >= Alert => ~Overdue(new, day, approved),
         NEW x \in OwedOn(new, day, approved), x < 0
  PROVE  /\ reg.quota > 0 /\ reg.alert
         /\ x + 1 \in OwedOn(reg, today, approved)
  <1> USE DEF Types
  <1> DEFINE f == Facts(reg, d, approved)
             h == Facts(reg, today, approved)
             g == Facts(new, day, approved)
             n == day - d
  <1>1. /\ f \in FactsType /\ f.today = d /\ f.approved = approved
        /\ f.price = reg.price /\ f.paid = reg.paid /\ f.cancelled = reg.cancelled
    BY FactsTyped
  <1>2. /\ g \in FactsType /\ g.today = day /\ g.approved = approved
        /\ g.price = reg.price /\ g.paid = reg.paid
    BY FactsTyped
  <1>3. /\ h \in FactsType /\ h.today = today /\ h.approved = approved
        /\ h.price = reg.price /\ h.paid = reg.paid
    BY FactsTyped
  <1>4. /\ n \in Nat /\ today - d \in Nat /\ day = d + n /\ today = d + (today - d)
        /\ StoredOn(reg, d, approved) /\ Fair(reg, d, approved)
        /\ missed < Alert => n <= missed + 1
    BY DEF ComputedOn
  <1>5. x \in OwedDays(plan, g) /\ x \in Int /\ ~OutOfOrder(plan, g)
    BY <1>2, OwedMeansDebt DEF OwedOn, Unfair
  <1>6. x + n < Alert \/ NoTerms(plan)
    <2>1. CASE missed < Alert
      <3>1. Alert \in Nat /\ missed \in Nat
        BY ConstantsAssumption DEF ConstantsAssumption
      <3>2. QED
        BY <1>4, <1>5, <2>1, <3>1
    <2>2. CASE ~(missed < Alert)
      <3>1. ~Overdue(new, day, approved)
        BY <2>2, ConstantsAssumption DEF ConstantsAssumption
      <3>2. Live(new, approved) /\ day \in Nat
        BY DEF Live
      <3>3. CASE NoTerms(plan)
        BY <3>3
      <3>4. CASE ~NoTerms(plan)
        <4>1. Overdue(new, day, approved)
          BY <3>2, <3>4, LateIsOverdue
        <4>2. QED
          BY <3>1, <4>1
      <3>5. QED
        BY <3>3, <3>4
    <2>3. QED
      BY <2>1, <2>2
  <1>7. x + n \in OwedDays(plan, f)
    <2> HIDE DEF f, g, h, n
    <2> QED BY <1>1, <1>2, <1>4, <1>5, <1>6, OwedBefore
  <1>8. /\ Ask(plan, f).quota >= 0 /\ Ask(plan, f).deadline < Alert /\ Ask(plan, f).quota \in Int
        /\ Ask(plan, f).quota = 0 => plan.kind = "quotas" /\ OverdueQuotas(plan, f) # {}
    <2>1. ~f.cancelled /\ f.approved # Never
      BY <1>1 DEF Live
    <2> HIDE DEF f, n
    <2> QED BY <1>1, <1>7, <2>1, AskedWhenOwed, AskAtMost
  <1>9. Ask(plan, f).quota # 0
    <2> SUFFICES ASSUME Ask(plan, f).quota = 0 PROVE FALSE
      OBVIOUS
    <2>1. PICK k \in OverdueQuotas(plan, f) : TRUE
      BY <1>8
    <2>2. k \in OwedQuotas(plan, f) /\ QuotaDeadline(plan, f, k) < 0 /\ k \in 1..plan.quotas
      BY <1>1, OwedTypes DEF OverdueQuotas
    <2>3. QuotaDeadline(plan, f, k) \in OwedOn(reg, d, approved) /\ QuotaDeadline(plan, f, k) \in Int
      BY <1>1, <1>8, <2>2, DaysType DEF OwedOn, OwedDays
    <2>4. reg.quota = 0
      BY <1>4 DEF StoredOn
    <2>5. QED
      BY <1>4, <2>2, <2>3, <2>4 DEF Fair
  <1>10. reg.quota > 0 /\ reg.alert
    <2>1. /\ reg.quota = Ask(plan, f).quota
          /\ reg.alert = (Ask(plan, f).quota > 0 /\ Ask(plan, f).deadline < Alert)
      BY <1>4 DEF StoredOn
    <2> HIDE DEF f, g, h, n
    <2>2. Ask(plan, f).quota > 0 /\ Ask(plan, f).deadline < Alert
      BY <1>8, <1>9
    <2>3. QED
      BY <2>1, <2>2
  <1>11. (x + n) - (today - d) \in OwedDays(plan, h)
    <2> DEFINE m == today - d
               y == x + n
    <2>1. m \in Nat /\ h.today = f.today + m
      BY <1>1, <1>3, <1>4
    <2> HIDE DEF f, g, h, n, m, y
    <2>2. y \in OwedDays(plan, f)
      BY <1>7 DEF y
    <2>3. y - m \in OwedDays(plan, h)
      BY <1>1, <1>3, <2>1, <2>2, OwedLater
    <2>4. QED
      BY <2>3 DEF m, y
  <1>12. (x + n) - (today - d) = x + 1
    BY <1>5
  <1>13. QED
    BY <1>10, <1>11, <1>12 DEF OwedOn

LEMMA NightKeeps ==
  ASSUME DInv, NEW ok \in BOOLEAN, NEW holiday \in BOOLEAN, Night(ok, holiday), Types'
  PROVE  DInv'
  <1> USE DEF DInv, Types
  <1> PICK day \in Nat : day = today + 1
    OBVIOUS
  <1>1. /\ today' = day /\ plan' = plan /\ approved' = approved /\ day \in Nat
        /\ missed' = IF ok THEN 0 ELSE IF missed < Alert THEN missed + 1 ELSE missed
        /\ slept' = (slept \/ reg.quota > 0)
        /\ reg' = IF ok /\ Listed(reg) THEN Refreshed(reg, day, approved) ELSE reg
        /\ unfair' = (unfair \/ Unfair(reg', day, approved)
                             \/ (missed >= Alert /\ Overdue(reg', day, approved)))
        /\ asked' = IF ~reg.alert THEN 0 ELSE IF asked <= Tolerance THEN asked + 1 ELSE asked
    BY DEF Night
  <1>2. /\ reg' \in RegType /\ reg'.price = reg.price /\ reg'.paid = reg.paid
        /\ reg'.cancelled = reg.cancelled
        /\ \A e : Facts(reg', e, approved) = Facts(reg, e, approved)
        /\ ok /\ Listed(reg) => StoredOn(reg', day, approved)
        /\ NeverAsksTooMuch'
    <2>1. CASE ok /\ Listed(reg)
      <3> DEFINE n == Refreshed(reg, day, approved)
      <3>1. /\ n \in RegType /\ n.price = reg.price /\ n.paid = reg.paid /\ n.cancelled = reg.cancelled
            /\ \A e : Facts(n, e, approved) = Facts(reg, e, approved)
            /\ StoredOn(n, day, approved)
            /\ n.quota <= (IF n.price - n.paid > 0 THEN n.price - n.paid ELSE 0)
        <4>1. plan \in Plans /\ reg \in RegType /\ approved \in Nat \cup {Never}
          OBVIOUS
        <4>2. QED
          BY <4>1, Refreshes
      <3>2. reg' = n
        BY <1>1, <2>1
      <3> HIDE DEF n
      <3>3. QED
        BY <3>1, <3>2 DEF NeverAsksTooMuch, Debt
    <2>2. CASE ~(ok /\ Listed(reg))
      <3>1. reg' = reg
        BY <1>1, <2>2
      <3>2. QED
        BY <2>2, <3>1 DEF NeverAsksTooMuch, Debt
    <2>3. QED
      BY <2>1, <2>2
  <1>3. PICK d \in Nat : ComputedOn(d)
    BY DEF Computed
  <1>4. Live(reg, approved)' = Live(reg, approved)
    BY <1>1, <1>2 DEF Live
  <1>5. Computed'
    <2>0. ASSUME NEW e \in Nat, e <= day, missed' < Alert => day - missed' <= e, StoredOn(reg', e, approved),
                 ~slept' /\ e < day => reg'.quota <= 0, ~unfair' /\ Live(reg, approved) => Fair(reg', e, approved)
          PROVE  Computed'
      <3>1. StoredOn(reg, e, approved)'
        BY <1>1, <2>0 DEF StoredOn
      <3>2. Fair(reg, e, approved)' = Fair(reg', e, approved)
        BY <1>1 DEF Fair, OwedOn, Misdated
      <3>3. ComputedOn(e)'
        BY <1>1, <1>4, <2>0, <3>1, <3>2 DEF ComputedOn
      <3>4. QED
        BY <3>3 DEF Computed
    <2>1. CASE ok /\ Listed(reg)
      <3>1. Live(reg', approved) /\ ~unfair' => Fair(reg', day, approved)
        BY <1>1, <1>2, <2>1, FoundFair
      <3>2. QED
        BY <1>1, <1>2, <2>0, <2>1, <3>1 DEF Live
    <2>2. CASE ok /\ ~Listed(reg)
      <3>1. reg' = reg /\ (reg.cancelled \/ reg.price = reg.paid)
        BY <1>1, <2>2 DEF Listed, Open
      <3>2. \A e : Ask(plan, Facts(reg, e, approved)) = Nothing
        BY <3>1 DEF Ask, Facts
      <3>3. reg.quota = 0 /\ StoredOn(reg, day, approved)
        BY <1>3, <3>2 DEF ComputedOn, StoredOn, Nothing
      <3>4. ~Misdated(reg, day, approved)
        BY <3>3 DEF Misdated
      <3>5. Live(reg, approved) => OwedOn(reg, day, approved) = {}
        <4>1. Live(reg, approved) => ~(reg.price > reg.paid)
          BY <3>1, ConstantsAssumption DEF Live, RegType, ConstantsAssumption
        <4>2. QED
          BY <1>1, <4>1, FactsTyped, OwedMeansDebt DEF OwedOn
      <3>6. Live(reg, approved) => Fair(reg, day, approved)
        BY <3>4, <3>5 DEF Fair
      <3>7. QED
        BY <1>1, <2>0, <2>2, <3>1, <3>3, <3>6
    <2>3. CASE ~ok
      <3>1. reg' = reg /\ Alert \in Nat
        BY <1>1, <2>3, ConstantsAssumption DEF ConstantsAssumption
      <3>2. reg.quota \in Int
        BY DEF RegType
      <3>3. /\ d <= today /\ (missed < Alert => today - missed <= d)
            /\ StoredOn(reg, d, approved) /\ (~slept /\ d < today => reg.quota <= 0)
            /\ ~unfair /\ Live(reg, approved) => Fair(reg, d, approved)
        BY <1>3 DEF ComputedOn
      <3>4. d <= day /\ (missed' < Alert => day - missed' <= d)
        BY <1>1, <2>3, <3>1, <3>3
      <3>5. ~slept' => reg'.quota <= 0
        <4>1. reg.quota > 0 => slept'
          BY <1>1
        <4>2. QED
          BY <3>1, <3>2, <4>1
      <3>6. ~unfair' => ~unfair
        BY <1>1
      <3>7. QED
        BY <2>0, <3>1, <3>3, <3>4, <3>5, <3>6
    <2>4. QED
      BY <2>1, <2>2, <2>3
  <1>6. ASSUME Live(reg, approved), ~unfair', NEW x \in OwedOn(reg', day, approved), x < 0
        PROVE  reg.quota > 0 /\ reg.alert /\ x \in Int /\ x + 1 \in OwedOn(reg, today, approved)
    <2>1. ~unfair /\ ~Unfair(reg', day, approved) /\ (missed >= Alert => ~Overdue(reg', day, approved))
      BY <1>1, <1>6
    <2>2. StoredOn(reg', day, approved) \/ reg' = reg
      BY <1>1, <1>2
    <2>3. x \in Int
      BY <1>1, <1>2, FactsTyped, OwedMeansDebt DEF OwedOn
    <2>4. QED
      BY <1>2, <1>3, <1>6, <2>1, <2>2, <2>3, AskedBefore
  <1>7. OwedOn(reg, today, approved)' = OwedOn(reg', day, approved)
    BY <1>1 DEF OwedOn
  <1>8. \A x \in OwedOn(reg', day, approved) : x \in Int
    BY <1>1, <1>2, FactsTyped, OwedMeansDebt DEF OwedOn
  <1>9. NothingLate'
    <2> SUFFICES ASSUME ~slept', ~unfair', Live(reg, approved), NEW x \in OwedOn(reg', day, approved)
                 PROVE  x >= 0
      BY <1>4, <1>7 DEF NothingLate
    <2>1. ~(reg.quota > 0)
      BY <1>1
    <2>2. QED
      BY <1>6, <1>8, <2>1
  <1>10. LateIsAsked'
    <2> SUFFICES ASSUME ~unfair', Live(reg, approved), NEW x \in OwedOn(reg', day, approved), x < 0
                 PROVE  asked' >= 0 - x \/ asked' > Tolerance
      BY <1>4, <1>7 DEF LateIsAsked
    <2>1. reg.alert /\ x \in Int /\ x + 1 \in OwedOn(reg, today, approved) /\ ~unfair
      BY <1>1, <1>6
    <2>2. x + 1 < 0 => asked >= 0 - (x + 1) \/ asked > Tolerance
      BY <2>1 DEF LateIsAsked
    <2>3. asked' = IF asked <= Tolerance THEN asked + 1 ELSE asked
      BY <1>1, <2>1
    <2>4. asked \in Nat /\ Tolerance \in Nat
      BY ConstantsAssumption DEF ConstantsAssumption
    <2>5. QED
      BY <2>1, <2>2, <2>3, <2>4
  <1>11. QED
    BY <1>2, <1>5, <1>9, <1>10

LEMMA InitDInv == Init => DInv
  <1> SUFFICES ASSUME Init PROVE DInv
    OBVIOUS
  <1>1. /\ plan \in Plans /\ today = 0 /\ approved \in Nat \cup {Never} /\ wire = 0 /\ missed = 0
        /\ slept = FALSE /\ unfair = Overdue(reg, 0, approved) /\ asked = 0 /\ told = "nothing"
    BY DEF Init
  <1>2. PICK p \in Prices :
          reg = Refreshed([price |-> p, paid |-> 0, cancelled |-> FALSE,
                           quota |-> 0, deadline |-> 0, alert |-> FALSE], 0, approved)
    BY DEF Init
  <1>3. /\ reg \in RegType /\ StoredOn(reg, 0, approved)
        /\ reg.quota <= (IF reg.price - reg.paid > 0 THEN reg.price - reg.paid ELSE 0)
    <2> DEFINE r == [price |-> p, paid |-> 0, cancelled |-> FALSE,
                     quota |-> 0, deadline |-> 0, alert |-> FALSE]
               n == Refreshed(r, 0, approved)
    <2>1. r \in RegType
      BY DEF RegType
    <2>2. reg = n
      BY <1>2
    <2> HIDE DEF r
    <2>3. /\ n \in RegType /\ StoredOn(n, 0, approved)
          /\ n.quota <= (IF n.price - n.paid > 0 THEN n.price - n.paid ELSE 0)
      BY <1>1, <2>1, Refreshes
    <2> HIDE DEF n
    <2>4. QED
      BY <2>2, <2>3
  <1>4. unfair \in BOOLEAN
    BY <1>1 DEF Overdue
  <1>5. Types
    BY <1>1, <1>3, <1>4 DEF Types
  <1>6. Live(reg, approved) /\ ~unfair => Fair(reg, 0, approved)
    BY <1>1, <1>3, FoundFair
  <1>7. Computed
    <2>1. Alert \in Nat \ {0}
      BY ConstantsAssumption DEF ConstantsAssumption
    <2>2. ComputedOn(0)
      BY <1>1, <1>3, <1>6, <2>1 DEF ComputedOn
    <2>3. QED
      BY <2>2 DEF Computed
  <1>8. \A x \in OwedOn(reg, 0, approved) : x \in Int
    BY <1>1, <1>3, FactsTyped, OwedMeansDebt DEF OwedOn
  <1>9. ~unfair /\ Live(reg, approved) => \A x \in OwedOn(reg, 0, approved) : ~(x < 0)
    BY <1>1, <1>3, LateIsOverdue
  <1>10. NothingLate /\ LateIsAsked
    BY <1>1, <1>8, <1>9 DEF NothingLate, LateIsAsked
  <1>11. QED
    BY <1>3, <1>5, <1>7, <1>10 DEF DInv, NeverAsksTooMuch, Debt

(* Every step keeps the types.                                             *)
LEMMA SaveTypes ==
  ASSUME Types, NEW r \in RegType, NEW date \in Nat \cup {Never},
         Save(r, date), approved' = date, wire' \in Nat, unfair' \in BOOLEAN
  PROVE  Types'
  <1> DEFINE n == Refreshed(r, today, date)
  <1>1. n \in RegType
    BY Refreshes DEF Types
  <1>2. reg' = n
    BY DEF Save
  <1> HIDE DEF n
  <1>3. QED
    BY <1>1, <1>2 DEF Types, Save

LEMMA NightTypes ==
  ASSUME Types, NEW ok \in BOOLEAN, NEW holiday \in BOOLEAN, Night(ok, holiday)
  PROVE  Types'
  <1> DEFINE day == today + 1
             n == Refreshed(reg, day, approved)
  <1>1. n \in RegType
    <2>1. plan \in Plans /\ reg \in RegType /\ day \in Nat /\ approved \in Nat \cup {Never}
      BY DEF Types
    <2> HIDE DEF day
    <2>2. QED
      BY <2>1, Refreshes
  <1>2. reg' = n \/ reg' = reg
    BY DEF Night
  <1>3. reg' \in RegType
    <2> HIDE DEF n
    <2> QED BY <1>1, <1>2 DEF Types
  <1>4. slept' \in BOOLEAN /\ unfair' \in BOOLEAN
    BY DEF Night, Types
  <1>5. today' \in Nat /\ missed' \in Nat /\ asked' \in Nat /\ told' \in {"nothing", "skipped", "reminded"}
    BY DEF Night, Types, Told
  <1>6. plan' = plan /\ approved' = approved /\ wire' = wire
    BY DEF Night
  <1>7. QED
    BY <1>3, <1>4, <1>5, <1>6 DEF Types

LEMMA DebtPaid ==
  ASSUME Types, NEW a \in Nat
  PROVE  LET r == [reg EXCEPT !.paid = @ + a]
         IN  /\ r \in RegType /\ r.price = reg.price /\ r.paid >= reg.paid
             /\ r.cancelled = reg.cancelled
  BY DEF Types, RegType

LEMMA NextTypes ==
  ASSUME Types, [Next]_vars
  PROVE  Types'
  <1>1. /\ plan \in Plans /\ today \in Nat /\ approved \in Nat \cup {Never} /\ reg \in RegType
        /\ wire \in Nat /\ unfair \in BOOLEAN /\ reg.price \in Nat /\ reg.paid \in Nat
    BY ConstantsAssumption DEF Types, RegType, ConstantsAssumption
  <1>2. ASSUME NEW a, Pay(a) \/ DeclareTransfer(a) PROVE a \in Nat
    BY <1>1, <1>2 DEF Pay, DeclareTransfer, Payable, Debt
  <1>3. ASSUME NEW a \in Nat, Pay(a) PROVE Types'
    <2> DEFINE r == [reg EXCEPT !.paid = @ + a]
    <2>1. r \in RegType
      BY DebtPaid
    <2>2. /\ Save(r, approved) /\ unfair' = (unfair \/ Unfair(reg', today, approved))
          /\ approved' = approved /\ wire' = wire
      BY <1>3 DEF Pay
    <2> HIDE DEF r
    <2>3. QED
      BY <1>1, <2>1, <2>2, SaveTypes
  <1>4. ASSUME NEW a \in Nat, DeclareTransfer(a) PROVE Types'
    BY <1>4 DEF DeclareTransfer, watch, Types
  <1>5. ASSUME ConfirmTransfer PROVE Types'
    <2> DEFINE r == [reg EXCEPT !.paid = @ + wire]
    <2>1. r \in RegType
      BY <1>1, DebtPaid
    <2>2. /\ Save(r, approved) /\ unfair' = (unfair \/ Unfair(reg', today, approved))
          /\ approved' = approved /\ wire' = 0
      BY <1>5 DEF ConfirmTransfer
    <2> HIDE DEF r
    <2>3. QED
      BY <1>1, <2>1, <2>2, SaveTypes
  <1>6. ASSUME Accept PROVE Types'
    <2>1. /\ Save(reg, today) /\ unfair' = (unfair \/ Overdue(reg', today, today))
          /\ approved' = today /\ wire' = wire
      BY <1>6 DEF Accept
    <2>2. QED
      BY <1>1, <2>1, SaveTypes
  <1>7. ASSUME NEW p \in Prices, Reprice(p) PROVE Types'
    <2> DEFINE r == [reg EXCEPT !.price = p]
    <2>1. r \in RegType
      BY <1>1 DEF RegType
    <2>2. /\ Save(r, approved) /\ unfair' = (unfair \/ Overdue(reg', today, approved))
          /\ approved' = approved /\ wire' = wire
      BY <1>7 DEF Reprice
    <2> HIDE DEF r
    <2>3. QED
      BY <1>1, <2>1, <2>2, SaveTypes
  <1>8. ASSUME Cancel PROVE Types'
    <2> DEFINE r == [reg EXCEPT !.cancelled = TRUE]
    <2>1. r \in RegType
      BY <1>1 DEF RegType
    <2>2. Save(r, approved) /\ unfair' = unfair /\ approved' = approved /\ wire' = wire
      BY <1>8 DEF Cancel
    <2> HIDE DEF r
    <2>3. QED
      BY <1>1, <2>1, <2>2, SaveTypes
  <1>9. ASSUME NEW ok \in BOOLEAN, NEW holiday \in BOOLEAN, Night(ok, holiday) PROVE Types'
    BY <1>9, NightTypes
  <1>10. ASSUME UNCHANGED vars PROVE Types'
    BY <1>10 DEF vars, watch, Types
  <1>11. QED
    BY <1>2, <1>3, <1>4, <1>5, <1>6, <1>7, <1>8, <1>9, <1>10 DEF Next

LEMMA NextDInv == DInv /\ [Next]_vars => DInv'
  <1> SUFFICES ASSUME DInv, [Next]_vars, Types' PROVE DInv'
    <2>1. DInv /\ [Next]_vars => Types'
      BY NextTypes DEF DInv
    <2>2. QED
      BY <2>1
  <1> USE DEF DInv
  <1>1. /\ plan \in Plans /\ today \in Nat /\ approved \in Nat \cup {Never} /\ reg \in RegType
        /\ wire \in Nat /\ unfair \in BOOLEAN /\ reg.price \in Nat /\ reg.paid \in Nat
    BY ConstantsAssumption DEF Types, RegType, ConstantsAssumption
  <1>2. ASSUME NEW a \in Nat, Pay(a) PROVE DInv'
    <2> DEFINE r == [reg EXCEPT !.paid = @ + a]
    <2>1. /\ r \in RegType /\ r.price = reg.price /\ r.paid >= reg.paid
          /\ r.cancelled = reg.cancelled
      BY DebtPaid
    <2>2. /\ Open /\ Save(r, approved) /\ unfair' = (unfair \/ Unfair(reg', today, approved))
          /\ approved' = approved /\ wire' = wire
      BY <1>2 DEF Pay, Payable
    <2> HIDE DEF r
    <2>3. QED
      BY <1>1, <2>1, <2>2, ComputedAnew DEF Save
  <1>3. ASSUME NEW a, DeclareTransfer(a) PROVE DInv'
    <2>1. a \in Nat
      BY <1>1, <1>3 DEF DeclareTransfer, Payable, Debt
    <2>2. /\ plan' = plan /\ today' = today /\ approved' = approved /\ reg' = reg /\ missed' = missed
          /\ slept' = slept /\ unfair' = unfair /\ asked' = asked /\ told' = told /\ wire' = a
      BY <1>3 DEF DeclareTransfer, watch
    <2>3. QED
      BY <2>1, <2>2 DEF Types, NeverAsksTooMuch, Debt, Computed, ComputedOn, NothingLate, LateIsAsked,
                        StoredOn, Fair, Misdated, OwedOn
  <1>4. ASSUME ConfirmTransfer PROVE DInv'
    <2> DEFINE r == [reg EXCEPT !.paid = @ + wire]
    <2>1. /\ r \in RegType /\ r.price = reg.price /\ r.paid >= reg.paid
          /\ r.cancelled = reg.cancelled
      BY <1>1, DebtPaid
    <2>2. /\ Save(r, approved) /\ unfair' = (unfair \/ Unfair(reg', today, approved))
          /\ approved' = approved /\ wire' = 0
      BY <1>4 DEF ConfirmTransfer
    <2> HIDE DEF r
    <2>3. Open \/ ~Live(r, approved)
      BY <2>1 DEF Open, Live
    <2>4. QED
      BY <1>1, <2>1, <2>2, <2>3, ComputedAnew DEF Save
  <1>5. ASSUME Accept PROVE DInv'
    <2>1. /\ Save(reg, today) /\ unfair' = (unfair \/ Overdue(reg', today, today))
          /\ approved' = today /\ wire' = wire
      BY <1>5 DEF Accept
    <2>2. QED
      BY <1>1, <2>1, ComputedAnew DEF Save
  <1>6. ASSUME NEW p \in Prices, Reprice(p) PROVE DInv'
    <2> DEFINE r == [reg EXCEPT !.price = p]
    <2>1. r \in RegType
      BY <1>1 DEF RegType
    <2>2. /\ Save(r, approved) /\ unfair' = (unfair \/ Overdue(reg', today, approved))
          /\ approved' = approved /\ wire' = wire
      BY <1>6 DEF Reprice
    <2> HIDE DEF r
    <2>3. QED
      BY <1>1, <2>1, <2>2, ComputedAnew DEF Save
  <1>7. ASSUME Cancel PROVE DInv'
    <2> DEFINE r == [reg EXCEPT !.cancelled = TRUE]
    <2>1. r \in RegType /\ ~Live(r, approved)
      BY <1>1 DEF RegType, Live
    <2>2. /\ Save(r, approved) /\ unfair' = unfair /\ approved' = approved /\ wire' = wire
      BY <1>7 DEF Cancel
    <2> HIDE DEF r
    <2>3. QED
      BY <1>1, <2>1, <2>2, ComputedAnew DEF Save
  <1>8. ASSUME NEW ok \in BOOLEAN, NEW holiday \in BOOLEAN, Night(ok, holiday) PROVE DInv'
    BY <1>8, NightKeeps
  <1>9. ASSUME UNCHANGED vars PROVE DInv'
    BY <1>9 DEF vars, watch, Types, NeverAsksTooMuch, Debt, Computed, ComputedOn, NothingLate,
                LateIsAsked, StoredOn, Fair, Misdated, OwedOn
  <1>10. ASSUME NEW a, Pay(a) PROVE a \in Nat
    BY <1>1, <1>10 DEF Pay, Payable, Debt
  <1>11. QED
    BY <1>2, <1>3, <1>4, <1>5, <1>6, <1>7, <1>8, <1>9, <1>10 DEF Next

LEMMA AlwaysDInv == Spec => []DInv
  BY InitDInv, NextDInv, PTL DEF Spec

-----------------------------------------------------------------------------
(* What is asked for never exceeds the debt, whatever payments, prices and *)
(* dates have come in: quota of update_registration_accounting.            *)
THEOREM AsksTheDebtAtMost == Spec => []NeverAsksTooMuch
  <1>1. DInv => NeverAsksTooMuch
    BY DEF DInv
  <1>2. QED
    BY <1>1, AlwaysDInv, PTL

(* A day that is past and shown was that of a debt when it was computed,   *)
(* and that debt is later still today.                                     *)
LEMMA StillOwed ==
  ASSUME DInv, ~unfair, Open, reg.quota > 0, reg.deadline < 0
  PROVE  /\ Live(reg, approved) /\ reg.deadline \in Int
         /\ \E x \in OwedOn(reg, today, approved) : x \in Int /\ x <= reg.deadline
  <1> USE DEF DInv, Types
  <1>1. PICK d \in Nat : ComputedOn(d)
    BY DEF Computed
  <1> DEFINE f == Facts(reg, d, approved)
             h == Facts(reg, today, approved)
             m == today - d
  <1>2. /\ f \in FactsType /\ f.today = d /\ f.approved = approved
        /\ f.price = reg.price /\ f.paid = reg.paid
    BY FactsTyped
  <1>3. /\ h \in FactsType /\ h.today = today /\ h.approved = approved
        /\ h.price = reg.price /\ h.paid = reg.paid
    BY FactsTyped
  <1>4. /\ d <= today /\ StoredOn(reg, d, approved)
        /\ Live(reg, approved) => Fair(reg, d, approved)
    BY <1>1 DEF ComputedOn
  <1>5. reg.quota = Ask(plan, f).quota /\ reg.deadline = Ask(plan, f).deadline
    BY <1>4 DEF StoredOn
  <1>6. Live(reg, approved)
    <2>1. SUFFICES ASSUME approved = Never PROVE FALSE
      BY DEF Live, Open
    <2>2. Ask(plan, f) = Nothing
      BY <1>2, <2>1 DEF Ask
    <2>3. QED
      BY <1>5, <2>2 DEF Nothing
  <1>7. reg.deadline \in OwedDays(plan, f)
    <2> SUFFICES ASSUME reg.deadline \notin OwedDays(plan, f) PROVE FALSE
      OBVIOUS
    <2>1. Ask(plan, f).quota > 0 /\ Ask(plan, f).deadline < 0
      BY <1>5
    <2>2. /\ plan.kind = "installments"
          /\ \E k \in OverdueTerms(plan, f) \ OwedTerms(plan, f) : TermDeadline(plan, f, k) = reg.deadline
      <3> HIDE DEF f
      <3> QED BY <1>2, <1>5, <2>1, AskedLate
    <2>3. Misdated(reg, d, approved)
      BY <2>2 DEF Misdated
    <2>4. QED
      BY <1>4, <1>6, <2>3 DEF Fair
  <1>8. m \in Nat /\ h.today = f.today + m /\ reg.deadline \in Int
    BY <1>2, <1>3, <1>4 DEF RegType
  <1>9. reg.deadline - m \in OwedDays(plan, h)
    <2> HIDE DEF f, h, m
    <2> QED BY <1>2, <1>3, <1>7, <1>8, OwedLater
  <1>10. reg.deadline - m \in Int /\ reg.deadline - m <= reg.deadline
    BY <1>8
  <1>11. QED
    BY <1>6, <1>8, <1>9, <1>10 DEF OwedOn

(* Who pays what is asked for before the night is never late, however the  *)
(* nightly command fails for less nights than the alert is long.           *)
THEOREM WhoPaysIsNotLate == Spec => []PunctualNeverLate
  <1>1. DInv => PunctualNeverLate
    <2> SUFFICES ASSUME DInv, ~slept, ~unfair, Open, reg.quota > 0, reg.deadline < 0 PROVE FALSE
      BY DEF PunctualNeverLate, Late
    <2>1. /\ Live(reg, approved) /\ reg.deadline \in Int
          /\ \E x \in OwedOn(reg, today, approved) : x \in Int /\ x <= reg.deadline
      BY StillOwed
    <2>2. QED
      BY <2>1 DEF DInv, NothingLate
  <1>2. QED
    BY <1>1, AlwaysDInv, PTL

(* A registration is listed for cancellation only after it has been asked  *)
(* to pay for more nights than the tolerance.                              *)
THEOREM AskedBeforeCancelled == Spec => []CancelledOnlyIfAsked
  <1>1. DInv => CancelledOnlyIfAsked
    <2> SUFFICES ASSUME DInv, ~unfair, Open, reg.quota > 0, reg.deadline < 0 - Tolerance
                 PROVE  asked > Tolerance
      BY DEF CancelledOnlyIfAsked, ToCancel
    <2>1. Tolerance \in Nat /\ asked \in Nat /\ reg.deadline \in Int
      BY ConstantsAssumption DEF ConstantsAssumption, DInv, Types, RegType
    <2>2. reg.deadline < 0
      BY <2>1
    <2>3. PICK x \in OwedOn(reg, today, approved) : x \in Int /\ x <= reg.deadline
      BY <2>2, StillOwed
    <2>4. asked >= 0 - x \/ asked > Tolerance
      BY <2>1, <2>2, <2>3, StillOwed DEF DInv, LateIsAsked
    <2>5. QED
      BY <2>1, <2>3, <2>4
  <1>2. QED
    BY <1>1, AlwaysDInv, PTL

(* When every day of the plan is past, the whole debt is asked for.        *)
THEOREM WholeDebtIsAsked == Spec => []WholeDebtInTheEnd
  <1>1. DInv => WholeDebtInTheEnd
    <2> DEFINE f == Facts(reg, today, approved)
    <2> SUFFICES ASSUME DInv, PlanIsOver, missed = 0, Open, approved # Never, Debt > 0
                 PROVE  reg.quota = Debt
      BY DEF WholeDebtInTheEnd
    <2>1. PICK d \in Nat : ComputedOn(d)
      BY DEF DInv, Computed
    <2>2. Alert \in Nat \ {0} /\ today \in Nat /\ plan \in Plans
      BY ConstantsAssumption DEF ConstantsAssumption, DInv, Types
    <2>3. d = today /\ StoredOn(reg, d, approved)
      BY <2>1, <2>2 DEF ComputedOn
    <2>4. reg.quota = Ask(plan, f).quota
      BY <2>3 DEF StoredOn
    <2>5. /\ f \in FactsType /\ f.price - f.paid = Debt /\ ~f.cancelled /\ f.approved # Never
          /\ f.price \in Nat /\ f.paid \in Nat /\ f.price > f.paid
      <3>1. reg.price \in Nat /\ reg.paid \in Nat
        BY ConstantsAssumption DEF ConstantsAssumption, DInv, Types, RegType
      <3>2. QED
        BY <3>1, FactsTyped DEF DInv, Types, Debt, Open
    <2>6. /\ plan.kind = "quotas" => \A k \in 1..plan.quotas : QuotaDeadline(plan, f, k) < 0
          /\ plan.kind # "quotas" => \A k \in 1..Len(plan.terms) : TermDeadline(plan, f, k) < 0
      BY DEF PlanIsOver
    <2> HIDE DEF f
    <2>7. CASE plan.kind = "quotas"
      <3>1. \A k \in 1..plan.quotas : QuotaDeadline(plan, f, k) \in Int
        BY <2>2, <2>5, DaysType
      <3>2. NearQuotas(plan, f) = 1..plan.quotas
        BY <2>2, <2>6, <2>7, <3>1 DEF NearQuotas
      <3>3. OwedQuotas(plan, f) \ OverdueQuotas(plan, f) = {}
        BY <2>6, <2>7, <3>2 DEF OwedQuotas, OverdueQuotas
      <3>4. AskQuota(plan, f).quota = f.price - f.paid
        BY <2>5, <3>2, <3>3 DEF AskQuota
      <3>5. Ask(plan, f) = AskQuota(plan, f)
        BY <2>5, <2>7 DEF Ask
      <3>6. QED
        BY <2>4, <2>5, <3>4, <3>5
    <2>8. CASE plan.kind # "quotas"
      <3>1. \A k \in 1..Len(plan.terms) : TermDeadline(plan, f, k) \in Int
        BY <2>2, <2>5, DaysType
      <3>2. NearTerms(plan, f) = 1..Len(plan.terms)
        BY <2>2, <2>6, <2>8, <3>1 DEF NearTerms
      <3>3. \A k \in OwedTerms(plan, f) : ~(TermDeadline(plan, f, k) > 0)
        BY <2>6, <2>8, <3>1, <3>2 DEF OwedTerms
      <3>4. AskInstallment(plan, f).quota = f.price - f.paid
        BY <2>5, <3>2, <3>3 DEF AskInstallment
      <3>5. Ask(plan, f) = AskInstallment(plan, f)
        BY <2>5, <2>8 DEF Ask
      <3>6. QED
        BY <2>4, <2>5, <3>4, <3>5
    <2>9. QED
      BY <2>7, <2>8
  <1>2. QED
    BY <1>1, AlwaysDInv, PTL

-----------------------------------------------------------------------------
(* Reminders.  A remainder goes down by one when the dividend does, and    *)
(* starts again from the top.                                              *)
LEMMA QuotientGrows ==
  ASSUME NEW n \in Nat, NEW x \in Int, NEW y \in Int, x < y, NEW u \in 0..(n - 1), NEW v \in 0..(n - 1)
  PROVE  n * x + u < n * y + v
  <1>1. PICK k \in Nat : y = (x + 1) + k
    <2>1. y - (x + 1) \in Nat /\ y = (x + 1) + (y - (x + 1))
      OBVIOUS
    <2>2. QED
      BY <2>1
  <1>2. n * y = n * x + n + n * k /\ n * k >= 0
    BY <1>1, Z3
  <1>3. n * x \in Int /\ n * y \in Int /\ n * k \in Int
    OBVIOUS
  <1>4. QED
    BY <1>2, <1>3

LEMMA RemainderIsOne ==
  ASSUME NEW n \in Nat, NEW x \in Int, NEW y \in Int, NEW u \in 0..(n - 1), NEW v \in 0..(n - 1),
         n * x + u = n * y + v
  PROVE  u = v
  <1>1. n * x \in Int /\ n * y \in Int /\ u \in Int /\ v \in Int
    OBVIOUS
  <1>2. ~(x < y) /\ ~(y < x)
    BY <1>1, QuotientGrows
  <1>3. x = y
    BY <1>2
  <1>4. QED
    BY <1>1, <1>3

LEMMA RemainderGoesDown ==
  ASSUME NEW n \in Nat, n > 1, NEW a \in Int
  PROVE  /\ a % n \in 0..(n - 1)
         /\ (a - 1) % n = IF a % n = 0 THEN n - 1 ELSE (a % n) - 1
  <1> DEFINE q == a \div n
             r == a % n
             p == (a - 1) \div n
             s == (a - 1) % n
  <1>1. r \in 0..(n - 1) /\ s \in 0..(n - 1) /\ q \in Int /\ p \in Int
    OBVIOUS
  <1>2. r = a - n * q
    BY Z3
  <1>3. s = (a - 1) - n * p
    BY Z3
  <1> HIDE DEF q, r, p, s
  <1>4. n * q \in Int /\ n * p \in Int /\ n * (q - 1) = n * q - n
    BY <1>1, Z3
  <1>5. CASE r = 0
    <2>1. n * p + s = n * (q - 1) + (n - 1)
      BY <1>1, <1>2, <1>3, <1>4, <1>5
    <2>2. q - 1 \in Int /\ n - 1 \in 0..(n - 1)
      BY <1>1
    <2>3. s = n - 1
      BY <1>1, <2>1, <2>2, RemainderIsOne
    <2>4. QED
      BY <1>1, <1>5, <2>3 DEF r, s
  <1>6. CASE r # 0
    <2>1. n * p + s = n * q + (r - 1)
      BY <1>1, <1>2, <1>3, <1>4
    <2>2. r - 1 \in 0..(n - 1)
      BY <1>1, <1>6
    <2>3. s = r - 1
      BY <1>1, <2>1, <2>2, RemainderIsOne
    <2>4. QED
      BY <1>1, <1>6, <2>3 DEF r, s
  <1>7. QED
    BY <1>5, <1>6

(* How many nights may have gone by without a day of reminders.            *)
Turn(day) ==
  LET m == (0 - day) % RemindDays
  IN  IF m = 0 THEN 1 ELSE IF m = 1 THEN 0 ELSE RemindDays + 1 - m

TurnIsNear == told = "nothing" => asked <= Turn(today)

WInv == Types /\ TurnIsNear

LEMMA InitWInv == ASSUME RemindDays > 1 PROVE Init => WInv
  <1> SUFFICES ASSUME Init PROVE WInv
    OBVIOUS
  <1>1. RemindDays \in Nat
    BY ConstantsAssumption DEF ConstantsAssumption
  <1>2. Types /\ today \in Nat
    BY InitDInv DEF DInv, Types
  <1>3. (0 - today) % RemindDays \in 0..(RemindDays - 1)
    BY <1>1, <1>2
  <1>4. Turn(today) >= 0
    BY <1>1, <1>3 DEF Turn
  <1>5. QED
    BY <1>2, <1>4 DEF Init, WInv, TurnIsNear

LEMMA TurnComes ==
  ASSUME RemindDays > 1, NEW day \in Nat
  PROVE  /\ Turn(day) \in Nat /\ Turn(day) < RemindDays /\ Turn(day + 1) \in Nat
         /\ ReminderDay(day + 1) \/ Turn(day + 1) = Turn(day) + 1
  <1>1. RemindDays \in Nat
    BY ConstantsAssumption DEF ConstantsAssumption
  <1> DEFINE m == (0 - day) % RemindDays
             k == (0 - (day + 1)) % RemindDays
  <1>2. (0 - day) - 1 = 0 - (day + 1) /\ 0 - day \in Int
    OBVIOUS
  <1>3. m \in 0..(RemindDays - 1) /\ k = IF m = 0 THEN RemindDays - 1 ELSE m - 1
    BY <1>1, <1>2, RemainderGoesDown
  <1>4. /\ Turn(day) = IF m = 0 THEN 1 ELSE IF m = 1 THEN 0 ELSE RemindDays + 1 - m
        /\ Turn(day + 1) = IF k = 0 THEN 1 ELSE IF k = 1 THEN 0 ELSE RemindDays + 1 - k
        /\ ReminderDay(day + 1) <=> k = 1
    BY DEF Turn, ReminderDay
  <1> HIDE DEF m, k
  <1>5. QED
    BY <1>1, <1>3, <1>4

LEMMA NextWInv == ASSUME RemindDays > 1 PROVE WInv /\ [Next]_vars => WInv'
  <1> SUFFICES ASSUME WInv, [Next]_vars, Types' PROVE TurnIsNear'
    <2>1. ASSUME Types, [Next]_vars PROVE Types'
      BY <2>1, NextTypes
    <2>2. QED
      BY <2>1 DEF WInv
  <1>1. today \in Nat /\ asked \in Nat /\ RemindDays \in Nat
    BY ConstantsAssumption DEF ConstantsAssumption, WInv, Types
  <1>2. ASSUME NEW ok \in BOOLEAN, NEW holiday \in BOOLEAN, Night(ok, holiday), told' = "nothing"
        PROVE  asked' <= Turn(today')
    <2>1. /\ today' = today + 1
          /\ asked' = 0 \/ (reg.alert /\ asked' = asked + 1) \/ (reg.alert /\ asked' = asked)
      BY <1>2 DEF Night
    <2>2. \/ ~reg.alert
          \/ told = "nothing" /\ ~ReminderDay(today + 1)
      BY <1>2 DEF Night, Told
    <2>3. /\ Turn(today) \in Nat /\ Turn(today + 1) \in Nat
          /\ ReminderDay(today + 1) \/ Turn(today + 1) = Turn(today) + 1
      BY <1>1, TurnComes
    <2>4. CASE asked' = 0
      BY <2>1, <2>3, <2>4
    <2>5. CASE reg.alert /\ (asked' = asked + 1 \/ asked' = asked)
      <3>1. asked <= Turn(today) /\ Turn(today + 1) = Turn(today) + 1
        BY <2>2, <2>3, <2>5 DEF WInv, TurnIsNear
      <3>2. QED
        BY <1>1, <2>1, <2>3, <2>5, <3>1
    <2>6. QED
      BY <2>1, <2>4, <2>5
  <1>3. ASSUME today' = today, told' = told, asked' = asked PROVE TurnIsNear'
    BY <1>3 DEF WInv, TurnIsNear, Turn
  <1>4. ASSUME NEW ok \in BOOLEAN, NEW holiday \in BOOLEAN, Night(ok, holiday) PROVE TurnIsNear'
    BY <1>2, <1>4 DEF TurnIsNear, Turn
  <1>5. QED
    BY <1>3, <1>4 DEF Next, Pay, DeclareTransfer, ConfirmTransfer, Accept, Reprice, Cancel, Save,
                      vars, watch

(* Who is listed for cancellation has had a day of reminders since there   *)
(* is an alert, which check_remind used for one or skipped, if the days of *)
(* reminders (every second, or more seldom) follow one another within the  *)
(* tolerance.                                                              *)
THEOREM RemindedOrSkipped == ASSUME RemindDays > 1 PROVE Spec => []RemindedBeforeCancelled
  <1>1. WInv /\ CancelledOnlyIfAsked => RemindedBeforeCancelled
    <2>1. SUFFICES ASSUME WInv, CancelledOnlyIfAsked, ToCancel, ~unfair, RemindDays <= Tolerance + 1,
                          told = "nothing"
                   PROVE  FALSE
      BY DEF RemindedBeforeCancelled, WInv, Types
    <2>2. asked > Tolerance
      BY <2>1 DEF CancelledOnlyIfAsked
    <2>3. Turn(today) \in Nat /\ Turn(today) < RemindDays /\ asked \in Nat /\ asked <= Turn(today)
      BY <2>1, TurnComes DEF WInv, Types, TurnIsNear
    <2>4. RemindDays \in Nat /\ Tolerance \in Nat
      BY ConstantsAssumption DEF ConstantsAssumption
    <2>5. QED
      BY <2>1, <2>2, <2>3, <2>4
  <1>2. QED
    BY <1>1, InitWInv, NextWInv, AskedBeforeCancelled, PTL DEF Spec

(* "Every day" (remind_days = 1) is never: no number has the remainder 1,  *)
(* so remind_reg finds no day to remind on.                                *)
THEOREM EveryDayIsNever == ASSUME RemindDays = 1 PROVE \A day \in Nat : ~ReminderDay(day)
  <1>1. \A a \in Int : a % 1 \in 0..0
    OBVIOUS
  <1>2. QED
    BY <1>1 DEF ReminderDay

=============================================================================
