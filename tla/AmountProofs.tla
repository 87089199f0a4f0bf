---------------------------- MODULE AmountProofs ----------------------------
(***************************************************************************)
(* Proofs about StoredAmounts for any scale and any amounts.  All that is  *)
(* needed of rounding is how remainders behave: a stored balance is a      *)
(* multiple of the last place, so the new balance has the remainder of the *)
(* amount (after a credit) or its complement (after a debit).              *)
(***************************************************************************)
EXTENDS StoredAmounts, TLAPS

\* A number is a multiple of Scale plus its remainder (Scale: the last place of
\* NUMERIC(24, 8)).
LEMMA Division ==
    ASSUME NEW x \in Int
    PROVE  /\ x \div Scale \in Int
           /\ x % Scale \in 0 .. Scale - 1
           /\ x = Scale * (x \div Scale) + (x % Scale)
  BY AmountsAssumption

\* Only one multiple of Scale is near enough to a number to leave a remainder.
LEMMA Remainder ==
    ASSUME NEW x \in Int, NEW q \in Int, NEW r \in 0 .. Scale - 1, x = Scale * q + r
    PROVE  x % Scale = r
<1>. DEFINE p == x \div Scale
            s == x % Scale
<1>1. p \in Int /\ s \in 0 .. Scale - 1 /\ x = Scale * p + s
  BY Division DEF p, s
<1>2. Scale * (p - q) = r - s
  BY <1>1, AmountsAssumption
<1>. HIDE DEF p, s
<1>3. p - q < 1
  <2>. SUFFICES ASSUME p - q >= 1 PROVE FALSE
    BY <1>1
  <2>1. Scale * (p - q) >= Scale
    BY <1>1, AmountsAssumption
  <2>. QED
    BY <2>1, <1>1, <1>2, AmountsAssumption
<1>4. p - q > -1
  <2>. SUFFICES ASSUME p - q <= -1 PROVE FALSE
    BY <1>1
  <2>1. Scale * (p - q) <= -Scale
    BY <1>1, AmountsAssumption
  <2>. QED
    BY <2>1, <1>1, <1>2, AmountsAssumption
<1>5. p = q
  BY <1>1, <1>3, <1>4
<1>. QED
  BY <1>1, <1>2, <1>5, AmountsAssumption DEF s

\* A stored balance is some number of last places.
LEMMA Multiple ==
    ASSUME NEW w \in Int, w % Scale = 0
    PROVE  \E q \in Int : w = Scale * q
<1>1. w \div Scale \in Int /\ w = Scale * (w \div Scale) + 0
  BY Division
<1>2. w = Scale * (w \div Scale)
  BY <1>1, AmountsAssumption
<1>. QED
  BY <1>1, <1>2

\* A credit to a stored balance leaves the remainder of its amount.
LEMMA AfterCredit ==
    ASSUME NEW w \in Int, NEW a \in Int, w % Scale = 0
    PROVE  (w + a) % Scale = a % Scale
<1>1. PICK q \in Int : w = Scale * q
  BY Multiple
<1>2. PICK p \in Int, r \in 0 .. Scale - 1 : a = Scale * p + r /\ a % Scale = r
  BY Division
<1>3. w + a = Scale * (q + p) + r
  BY <1>1, <1>2, AmountsAssumption
<1>. QED
  BY <1>2, <1>3, Remainder

\* A debit from a stored balance leaves the complement of the amount's remainder.
LEMMA AfterDebit ==
    ASSUME NEW w \in Int, NEW a \in Int, w % Scale = 0
    PROVE  (w - a) % Scale = IF a % Scale = 0 THEN 0 ELSE Scale - (a % Scale)
<1>1. PICK q \in Int : w = Scale * q
  BY Multiple
<1>2. PICK p \in Int, r \in 0 .. Scale - 1 : a = Scale * p + r /\ a % Scale = r
  BY Division
<1>3. CASE r = 0
  <2>1. w - a = Scale * (q - p) + 0
    BY <1>1, <1>2, <1>3, AmountsAssumption
  <2>. QED
    BY <2>1, <1>2, <1>3, Remainder, AmountsAssumption
<1>4. CASE r # 0
  <2>1. w - a = Scale * (q - p - 1) + (Scale - r)
    BY <1>1, <1>2, AmountsAssumption
  <2>2. Scale - r \in 0 .. Scale - 1 /\ q - p - 1 \in Int
    BY <1>4, AmountsAssumption
  <2>. QED
    BY <2>1, <2>2, <1>2, <1>4, Remainder
<1>. QED
  BY <1>3, <1>4

\* What a column keeps is a multiple of its last place, and no number that is not
\* negative becomes so.
LEMMA StoredIsMultiple ==
    ASSUME NEW x \in Int
    PROVE  /\ Stored(x) \in Int
           /\ Stored(x) % Scale = 0
           /\ x >= 0 => Stored(x) >= 0
<1>1. PICK q \in Int, r \in 0 .. Scale - 1 : x = Scale * q + r /\ x % Scale = r
  BY Division
<1>2. Below(x) = Scale * q + 0 /\ Below(x) + Scale = Scale * (q + 1) + 0
  BY <1>1, AmountsAssumption DEF Below
<1>3. Below(x) \in Int /\ Below(x) % Scale = 0 /\ (Below(x) + Scale) % Scale = 0
  BY <1>2, Remainder, AmountsAssumption
<1>4. Stored(x) \in {Below(x), Below(x) + Scale}
  BY <1>1, AmountsAssumption DEF Stored, Above, Below
<1>5. x >= 0 => Below(x) >= 0
  <2>. SUFFICES ASSUME x >= 0, q <= -1 PROVE FALSE
    BY <1>2, AmountsAssumption
  <2>1. Scale * q <= -Scale
    BY AmountsAssumption
  <2>. QED
    BY <2>1, <1>1, AmountsAssumption
<1>. QED
  BY <1>3, <1>4, <1>5, AmountsAssumption

\* A credit rounds to the same neighbour in both columns, unless the amount lies in
\* the middle and the new balance is negative: then they part by one place.
LEMMA CreditDrift ==
    ASSUME NEW w \in Int, NEW a \in Int, w % Scale = 0, a > 0
    PROVE  LET d == Stored(w + a) - (w + Stored(a)) IN
           /\ d \in -Scale .. Scale
           /\ a % Scale = 0 \/ w >= 0 => d = 0
<1>1. a % Scale \in 0 .. Scale - 1 /\ (w + a) % Scale = a % Scale
  BY Division, AfterCredit
<1>. QED
  BY <1>1, AmountsAssumption DEF Stored, Above, Below

\* A debit parts them by at most one place.
LEMMA DebitDrift ==
    ASSUME NEW w \in Int, NEW a \in Int, w % Scale = 0, a > 0
    PROVE  LET d == Stored(w - a) - (w - Stored(a)) IN
           /\ d \in -Scale .. Scale
           /\ a % Scale = 0 => d = 0
<1>1. a % Scale \in 0 .. Scale - 1
  BY Division
<1>2. (w - a) % Scale = IF a % Scale = 0 THEN 0 ELSE Scale - (a % Scale)
  BY AfterDebit
<1>3. CASE a % Scale = 0
  <2>1. Stored(a) = a /\ Stored(w - a) = w - a
    BY <1>2, <1>3, AmountsAssumption DEF Stored, Above, Below
  <2>. QED
    BY <2>1, AmountsAssumption
<1>4. CASE a % Scale # 0
  <2>. DEFINE r == a % Scale
  <2>1. r \in 1 .. Scale - 1 /\ (w - a) % Scale = Scale - r
    BY <1>1, <1>2, <1>4, AmountsAssumption
  <2>2. Below(w - a) = w - a - (Scale - r) /\ Above(w - a) = w - a + r
    BY <2>1, AmountsAssumption DEF Below, Above
  <2>3. Below(a) = a - r /\ Above(a) = a - r + Scale
    BY <2>1, AmountsAssumption DEF Below, Above
  <2>4. Stored(w - a) \in {Below(w - a), Above(w - a)} /\ Stored(a) \in {Below(a), Above(a)}
    BY DEF Stored
  <2>. HIDE DEF r
  <2>. QED
    BY <2>1, <2>2, <2>3, <2>4, <1>4, AmountsAssumption
<1>. QED
  BY <1>3, <1>4

----------------------------------------------------------------------------

IInv == TypeOK /\ DriftWithinFractions /\ OwesOnlyIfAllowed

LEMMA InitIInv == Init => IInv
<1>1. 0 % Scale = 0 /\ -Scale * 0 = 0 /\ Scale * 0 = 0
  BY Remainder, AmountsAssumption
<1>2. 0 \in -Largest .. Largest /\ 0 \in 0 .. MaxMoves
  BY AmountsAssumption
<1>3. Init => TypeOK /\ OwesOnlyIfAllowed
  <2>. SUFFICES ASSUME Init PROVE TypeOK /\ OwesOnlyIfAllowed
    OBVIOUS
  <2>1. wallet \in -Largest .. Largest /\ wallet % Scale = 0 /\ ~(wallet < 0)
    BY <1>1, <1>2 DEF Init
  <2>2. credited \in Nat /\ debited \in Nat /\ fractions \in 0 .. moves /\ moves \in 0 .. MaxMoves
    BY <1>2 DEF Init
  <2>3. everAllowed \in BOOLEAN
    BY DEF Init
  <2>. QED
    BY <2>1, <2>2, <2>3 DEF TypeOK, OwesOnlyIfAllowed
<1>4. Init => DriftWithinFractions
  <2>. SUFFICES ASSUME Init PROVE DriftWithinFractions
    OBVIOUS
  <2>1. wallet - (credited - debited) = 0 /\ fractions = 0
    BY DEF Init
  <2>2. 0 \in -Scale * 0 .. Scale * 0
    BY AmountsAssumption
  <2>. QED
    BY <2>1, <2>2 DEF DriftWithinFractions
<1>. QED
  BY <1>3, <1>4 DEF IInv

\* What both transactions do to the drift: it moves by one place for an amount with
\* a fraction, and not at all for another.
LEMMA DriftGrows ==
    ASSUME NEW d \in Int, NEW e \in -Scale .. Scale, NEW n \in Nat, NEW k \in {0, 1},
           d \in -Scale * n .. Scale * n, k = 0 => e = 0
    PROVE  d + e \in -Scale * (n + k) .. Scale * (n + k)
<1>1. Scale * (n + k) = Scale * n + Scale * k /\ -Scale * (n + k) = -Scale * n - Scale * k
  BY AmountsAssumption
<1>2. CASE k = 0
  BY <1>1, <1>2, AmountsAssumption
<1>3. CASE k = 1
  BY <1>1, <1>3, AmountsAssumption
<1>. QED
  BY <1>2, <1>3

\* The parts of the types that Persist decides, for either transaction.
LEMMA PersistType ==
    ASSUME TypeOK, NEW a \in Amounts, NEW count \in Int, Persist(a, count)
    PROVE  /\ wallet' \in -Largest .. Largest /\ wallet' % Scale = 0
           /\ fractions' \in 0 .. moves' /\ moves' \in 0 .. MaxMoves
           /\ a \in Int /\ a > 0 /\ Stored(a) \in Nat
           /\ wallet' = Stored(count)
           /\ fractions' = fractions + IF a % Scale = 0 THEN 0 ELSE 1
<1>1. a \in Int /\ Stored(a) \in Int /\ (a >= 0 => Stored(a) >= 0)
  BY StoredIsMultiple, AmountsAssumption
<1>2. Stored(count) % Scale = 0
  BY StoredIsMultiple
<1>. QED
  BY <1>1, <1>2, AmountsAssumption DEF TypeOK, Persist, Fits, StoredBalance

LEMMA CreditKeeps ==
    ASSUME IInv, NEW a \in Amounts, Credit(a) PROVE IInv'
<1>. USE DEF IInv, TypeOK
<1>1. wallet \in Int /\ wallet + a \in Int /\ a \in Int
  BY AmountsAssumption
<1>2. /\ wallet' \in -Largest .. Largest /\ wallet' % Scale = 0
      /\ fractions' \in 0 .. moves' /\ moves' \in 0 .. MaxMoves
      /\ a > 0 /\ Stored(a) \in Nat /\ wallet' = Stored(wallet + a)
      /\ fractions' = fractions + IF a % Scale = 0 THEN 0 ELSE 1
  BY <1>1, PersistType DEF Credit
<1>3. TypeOK'
  BY <1>2 DEF Credit
<1>4. DriftWithinFractions'
  <2>. DEFINE d == wallet - (credited - debited)
              e == Stored(wallet + a) - (wallet + Stored(a))
              k == IF a % Scale = 0 THEN 0 ELSE 1
  <2>1. e \in -Scale .. Scale /\ (k = 0 => e = 0)
    BY <1>1, <1>2, CreditDrift
  <2>2. d \in Int /\ d \in -Scale * fractions .. Scale * fractions /\ fractions \in Nat
    BY <1>1 DEF DriftWithinFractions
  <2>3. wallet' - (credited' - debited') = d + e /\ fractions' = fractions + k
    BY <1>1, <1>2, AmountsAssumption DEF Credit
  <2>4. k \in {0, 1}
    OBVIOUS
  <2>. HIDE DEF d, e, k
  <2>5. d + e \in -Scale * (fractions + k) .. Scale * (fractions + k)
    BY <2>1, <2>2, <2>4, DriftGrows
  <2>. QED
    BY <2>3, <2>5 DEF DriftWithinFractions
<1>5. OwesOnlyIfAllowed'
  <2>1. wallet >= 0 => wallet' >= 0
    BY <1>1, <1>2, StoredIsMultiple
  <2>. QED
    BY <1>1, <1>2, <2>1, AmountsAssumption DEF Credit, OwesOnlyIfAllowed
<1>. QED
  BY <1>3, <1>4, <1>5

LEMMA DebitKeeps ==
    ASSUME IInv, NEW a \in Amounts, NEW mayOwe \in BOOLEAN, Debit(a, mayOwe) PROVE IInv'
<1>. USE DEF IInv, TypeOK
<1>1. wallet \in Int /\ wallet - a \in Int /\ a \in Int
  BY AmountsAssumption
<1>2. /\ wallet' \in -Largest .. Largest /\ wallet' % Scale = 0
      /\ fractions' \in 0 .. moves' /\ moves' \in 0 .. MaxMoves
      /\ a > 0 /\ Stored(a) \in Nat /\ wallet' = Stored(wallet - a)
      /\ fractions' = fractions + IF a % Scale = 0 THEN 0 ELSE 1
  BY <1>1, PersistType DEF Debit
<1>3. TypeOK'
  BY <1>2 DEF Debit
<1>4. DriftWithinFractions'
  <2>. DEFINE d == wallet - (credited - debited)
              e == Stored(wallet - a) - (wallet - Stored(a))
              k == IF a % Scale = 0 THEN 0 ELSE 1
  <2>1. e \in -Scale .. Scale /\ (k = 0 => e = 0)
    BY <1>1, <1>2, DebitDrift
  <2>2. d \in Int /\ d \in -Scale * fractions .. Scale * fractions /\ fractions \in Nat
    BY <1>1 DEF DriftWithinFractions
  <2>3. wallet' - (credited' - debited') = d + e /\ fractions' = fractions + k
    BY <1>1, <1>2, AmountsAssumption DEF Debit
  <2>4. k \in {0, 1}
    OBVIOUS
  <2>. HIDE DEF d, e, k
  <2>5. d + e \in -Scale * (fractions + k) .. Scale * (fractions + k)
    BY <2>1, <2>2, <2>4, DriftGrows
  <2>. QED
    BY <2>3, <2>5 DEF DriftWithinFractions
<1>5. OwesOnlyIfAllowed'
  <2>1. wallet - a >= 0 => wallet' >= 0
    BY <1>1, <1>2, StoredIsMultiple
  <2>2. CASE mayOwe
    BY <2>2 DEF Debit, OwesOnlyIfAllowed
  <2>3. CASE Covers(a)
    BY <1>1, <1>2, <2>1, <2>3, AmountsAssumption DEF Covers, OwesOnlyIfAllowed
  <2>. QED
    BY <2>2, <2>3 DEF Debit
<1>. QED
  BY <1>3, <1>4, <1>5

\* The inductive invariant of the columns holds in every reachable state.
THEOREM Inductive == Spec => []IInv
<1>1. IInv /\ [Next]_vars => IInv'
  <2>. SUFFICES ASSUME IInv, [Next]_vars PROVE IInv'
    OBVIOUS
  <2>1. CASE Next
    BY <2>1, CreditKeeps, DebitKeeps DEF Next
  <2>2. CASE UNCHANGED vars
    BY <2>2 DEF vars, IInv, TypeOK, DriftWithinFractions, OwesOnlyIfAllowed
  <2>. QED
    BY <2>1, <2>2
<1>. QED
  BY <1>1, InitIInv, PTL DEF Spec

\* Wallet and journal keep multiples of the last place of their columns.
THEOREM TypeCorrect == Spec => []TypeOK
<1>1. IInv => TypeOK
  BY DEF IInv
<1>. QED
  BY <1>1, Inductive, PTL

\* Wallet and journal part by at most one place for each amount that had more
\* decimals than NUMERIC(24, 8) keeps.
THEOREM DriftIsBounded == Spec => []DriftWithinFractions
<1>1. IInv => DriftWithinFractions
  BY DEF IInv
<1>. QED
  BY <1>1, Inductive, PTL

\* Rounding alone never overdraws a wallet.
THEOREM NoDebtByRounding == Spec => []OwesOnlyIfAllowed
<1>1. IInv => OwesOnlyIfAllowed
  BY DEF IInv
<1>. QED
  BY <1>1, Inductive, PTL

\* Credits to a wallet that is not negative never part wallet and journal.
THEOREM CreditsAgree == Spec => CreditsDoNotDrift
<1>. DEFINE Agree == credited' # credited /\ wallet >= 0 =>
                        wallet' - wallet = credited' - credited
<1>1. IInv /\ [Next]_vars => [Agree]_vars
  <2>. SUFFICES ASSUME IInv, Next, credited' # credited, wallet >= 0
                PROVE  wallet' - wallet = credited' - credited
    BY DEF vars
  <2>1. PICK a \in Amounts : Credit(a)
    BY DEF Next, Debit
  <2>2. wallet \in Int /\ wallet + a \in Int /\ wallet % Scale = 0 /\ a \in Int /\ credited \in Int
    BY AmountsAssumption DEF IInv, TypeOK
  <2>3. a > 0 /\ wallet' = Stored(wallet + a) /\ Stored(a) \in Nat
    BY <2>1, <2>2, PersistType DEF IInv, Credit
  <2>4. Stored(wallet + a) - (wallet + Stored(a)) = 0
    BY <2>2, <2>3, CreditDrift
  <2>5. Stored(wallet + a) \in Int
    BY <2>2, StoredIsMultiple
  <2>. QED
    BY <2>1, <2>2, <2>3, <2>4, <2>5 DEF Credit
<1>. QED
  BY <1>1, Inductive, PTL DEF Spec, CreditsDoNotDrift
=============================================================================
