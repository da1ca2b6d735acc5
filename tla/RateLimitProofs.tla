-------------------------- MODULE RateLimitProofs --------------------------
(***************************************************************************)
(* The rate limiter keeps its rate for every number of callers, every      *)
(* burst, rate and interleaving of the two critical sections of acquire.   *)
(***************************************************************************)
EXTENDS RateLimit, FiniteSetTheorems, TLAPS

\* A grant is paid for out of the initial burst or out of time that a refill
\* has credited: what was granted and what is left never exceed both.
Ledger == Len(grants) * Unit + tokens <= MaxTokens + Rate * lastRefill

\* What a refill may do to the bucket.
LEMMA RefillFacts ==
  ASSUME TypeOK, NEW c \in Callers, Refill(c)
  PROVE  /\ lastRefill' = now /\ now' = now /\ grants' = grants
         /\ tokens' \in 0 .. MaxTokens
         /\ tokens' <= tokens + (Rate * now - Rate * lastRefill)
<1>1. /\ now \in Nat /\ lastRefill \in Nat /\ lastRefill <= now /\ tokens \in 0 .. MaxTokens
      /\ Rate \in Nat /\ MaxTokens \in Nat
  BY RateAssumption DEF TypeOK, MaxTokens
<1>2. (now - lastRefill) * Rate \in Nat
  BY <1>1
<1>3. (now - lastRefill) * Rate = Rate * now - Rate * lastRefill
  BY <1>1
<1>4. tokens' = IF Refilled > MaxTokens THEN MaxTokens ELSE Refilled
  BY DEF Refill
<1>5. Refilled \in Nat /\ Refilled = tokens + (Rate * now - Rate * lastRefill)
  <2> HIDE DEF MaxTokens
  <2>1. QED BY <1>1, <1>2, <1>3 DEF Refilled
<1>6. QED
  <2> HIDE DEF MaxTokens, Refilled
  <2>1. QED BY <1>1, <1>4, <1>5 DEF Refill

\* The variables keep their types; in particular the bucket never holds more
\* than its burst nor less than nothing (RateLimitedMatcher.acquire).
THEOREM TypeCorrect == Spec => []TypeOK
<1>1. MaxTokens \in Nat
  BY RateAssumption DEF MaxTokens
<1>2. Init => TypeOK
  BY <1>1 DEF Init, TypeOK
<1>3. TypeOK /\ [Next]_vars => TypeOK'
  <2> SUFFICES ASSUME TypeOK, [Next]_vars PROVE TypeOK'
    OBVIOUS
  <2> USE RateAssumption
  <2>1. ASSUME NEW c \in Callers, Begin(c) PROVE TypeOK'
    BY <2>1 DEF Begin, TypeOK
  <2>2. ASSUME NEW c \in Callers, Refill(c) PROVE TypeOK'
    <3>1. pc' \in [Callers -> {"idle", "refill", "take", "sleep"}] /\ wake' = wake
      BY <2>2 DEF Refill, TypeOK
    <3>2. QED BY <2>2, <3>1, RefillFacts DEF TypeOK
  <2>3. ASSUME NEW c \in Callers, Take(c) PROVE TypeOK'
    <3>1. tokens - Unit \in 0 .. MaxTokens
      BY <1>1, <2>3 DEF Take, TypeOK
    <3>2. grants' \in Seq(Nat)
      BY <2>3 DEF Take, TypeOK
    <3>3. QED BY <2>3, <3>1, <3>2 DEF Take, TypeOK
  <2>4. ASSUME NEW c \in Callers, Sleep(c) PROVE TypeOK'
    BY <2>4 DEF Sleep, TypeOK
  <2>5. ASSUME NEW c \in Callers, Wake(c) PROVE TypeOK'
    BY <2>5 DEF Wake, TypeOK
  <2>6. ASSUME NEW c \in Callers, GiveUp(c) PROVE TypeOK'
    BY <2>6 DEF GiveUp, TypeOK
  <2>7. CASE Tick
    BY <2>7 DEF Tick, TypeOK
  <2>8. CASE UNCHANGED vars
    BY <2>8 DEF vars, TypeOK
  <2>9. QED BY <2>1, <2>2, <2>3, <2>4, <2>5, <2>6, <2>7, <2>8 DEF Next
<1>4. QED BY <1>2, <1>3, PTL DEF Spec

\* Every grant is paid for, however the callers interleave.
THEOREM LedgerTheorem == Spec => []Ledger
<1>1. MaxTokens \in Nat /\ Unit \in Nat \ {0} /\ Rate \in Nat
  BY RateAssumption DEF MaxTokens
<1>2. Init => Ledger
  <2> SUFFICES ASSUME Init PROVE Ledger
    OBVIOUS
  <2>1. Len(grants) * Unit = 0 /\ Rate * lastRefill = 0 /\ tokens = MaxTokens
    BY <1>1 DEF Init
  <2>2. QED
    <3> HIDE DEF MaxTokens
    <3>1. QED BY <1>1, <2>1 DEF Ledger
<1>3. TypeOK /\ Ledger /\ [Next]_vars => Ledger'
  <2> SUFFICES ASSUME TypeOK, Ledger, [Next]_vars PROVE Ledger'
    OBVIOUS
  <2> DEFINE paid == Len(grants) * Unit
  <2>1. paid \in Nat /\ Rate * lastRefill \in Nat /\ Rate * now \in Nat /\ tokens \in Nat
    BY <1>1 DEF TypeOK
  <2>2. ASSUME NEW c \in Callers, Refill(c) PROVE Ledger'
    <3>1. /\ lastRefill' = now /\ grants' = grants
          /\ tokens' \in Nat /\ tokens' <= tokens + (Rate * now - Rate * lastRefill)
      BY <1>1, <2>2, RefillFacts
    <3>2. paid + tokens' <= MaxTokens + Rate * now
      <4> HIDE DEF MaxTokens, paid
      <4>1. paid + tokens <= MaxTokens + Rate * lastRefill
        BY DEF Ledger, paid
      <4>2. QED BY <1>1, <2>1, <3>1, <4>1
    <3>3. QED BY <3>1, <3>2 DEF Ledger
  <2>3. ASSUME NEW c \in Callers, Take(c) PROVE Ledger'
    <3>1. tokens' = tokens - Unit /\ Len(grants') = Len(grants) + 1 /\ lastRefill' = lastRefill
      BY <2>3 DEF Take, TypeOK
    <3>2. (Len(grants) + 1) * Unit = paid + Unit
      BY <1>1 DEF TypeOK
    <3>3. (paid + Unit) + (tokens - Unit) = paid + tokens
      <4> HIDE DEF paid
      <4>1. QED BY <1>1, <2>1
    <3>4. QED BY <3>1, <3>2, <3>3 DEF Ledger
  <2>4. CASE \/ \E c \in Callers : Begin(c) \/ Sleep(c) \/ Wake(c) \/ GiveUp(c)
             \/ Tick \/ UNCHANGED vars
    <3>1. UNCHANGED <<tokens, lastRefill, grants>>
      BY <2>4 DEF Begin, Sleep, Wake, GiveUp, Tick, vars
    <3>2. QED BY <3>1 DEF Ledger
  <2>5. QED BY <2>2, <2>3, <2>4 DEF Next
<1>4. QED BY <1>2, <1>3, TypeCorrect, PTL DEF Spec

\* The catalogue is never asked more often than the burst and the elapsed
\* time allow.
THEOREM RateTheorem == Spec => []RateBound
<1>1. TypeOK /\ Ledger => RateBound
  <2> SUFFICES ASSUME TypeOK, Ledger PROVE RateBound
    OBVIOUS
  <2>1. MaxTokens \in Nat /\ Unit \in Nat \ {0} /\ Rate \in Nat
    BY RateAssumption DEF MaxTokens
  <2>2. lastRefill \in Nat /\ now \in Nat /\ lastRefill <= now /\ tokens \in Nat /\ Len(grants) \in Nat
    BY <2>1 DEF TypeOK
  <2>3. Rate * lastRefill <= Rate * now /\ Rate * now \in Nat /\ Rate * lastRefill \in Nat
    BY <2>1, <2>2
  <2>4. Len(grants) * Unit \in Nat
    BY <2>1, <2>2
  <2>5. QED
    <3> HIDE DEF MaxTokens
    <3>1. QED BY <2>1, <2>2, <2>3, <2>4 DEF Ledger, RateBound
<1>2. QED BY <1>1, TypeCorrect, LedgerTheorem, PTL
-----------------------------------------------------------------------------
(* Any stretch of time.                                                    *)

\* The callers between the two critical sections of acquire: their refill is
\* done, their token not yet taken.
Taking == {c \in Callers : pc[c] = "take"}

\* The grants from the i-th on.
From(i) == Len(grants) - i + 1

\* As long as no refill has followed the i-th grant, only callers that had
\* refilled before it have been granted a token, each at most once; after one,
\* the grants from the i-th on and what is left in the bucket are paid for by
\* those callers, a full bucket and the time since.
Covered(i) ==
  \/ From(i) + Cardinality(Taking) <= Cardinality(Callers)
  \/ /\ grants[i] <= lastRefill
     /\ From(i) * Unit + tokens
          <= MaxTokens + Cardinality(Callers) * Unit + Rate * (lastRefill - grants[i])

WindowInv ==
  /\ WindowBound
  /\ \A i \in DOMAIN grants : grants[i] <= now /\ Covered(i)

\* The callers between the critical sections are no more than all of them, and
\* a caller that takes its token leaves them.
LEMMA TakingFacts ==
  ASSUME TypeOK
  PROVE  /\ IsFiniteSet(Taking)
         /\ Cardinality(Taking) \in Nat /\ Cardinality(Callers) \in Nat
         /\ Cardinality(Taking) <= Cardinality(Callers)
         /\ \A c \in Taking : /\ IsFiniteSet(Taking \ {c})
                              /\ Cardinality(Taking \ {c}) = Cardinality(Taking) - 1
<1>1. IsFiniteSet(Callers) /\ Taking \subseteq Callers
  BY RateAssumption DEF Taking
<1>2. IsFiniteSet(Taking) /\ Cardinality(Taking) <= Cardinality(Callers)
  BY <1>1, FS_Subset
<1>3. QED BY <1>1, <1>2, FS_RemoveElement, FS_CardinalityType

\* The products of the bounds, for the linear reasoning that follows.
LEMMA Products ==
  ASSUME NEW a \in Int, NEW b \in Int, NEW u \in Nat
  PROVE  /\ a * u \in Int /\ b * u \in Int
         /\ a <= b => a * u <= b * u
         /\ (a + 1) * u = a * u + u
         /\ u * (a - b) = u * a - u * b
         /\ u * (a - b) \in Int
         /\ b <= a => u * (a - b) >= 0
OBVIOUS
\* The sums of the bounds: what is taken and left stays below what was earned.
LEMMA Sums ==
  ASSUME NEW p \in Int, NEW q \in Int, NEW m \in Int, NEW t \in Int, NEW u \in Int,
         NEW a \in Int, NEW b \in Int, NEW c \in Int
  PROVE  /\ p <= q /\ t <= m /\ a >= 0 => p + t <= m + q + a
         /\ p + t <= m + q + (b - c) /\ u <= t + (a - b) => p + u <= m + q + (a - c)
OBVIOUS

\* In any stretch of time the catalogue is asked no more often than a full
\* bucket, the time of the stretch and one token per caller allow: the two
\* critical sections of acquire cost one grant per caller and no more.
THEOREM WindowTheorem == Spec => []WindowBound
<1>0. /\ MaxTokens \in Nat /\ Unit \in Nat \ {0} /\ Rate \in Nat
  BY RateAssumption DEF MaxTokens
<1>1. Init => WindowInv
  BY DEF Init, WindowInv, WindowBound
<1>2. TypeOK /\ TypeOK' /\ WindowInv /\ [Next]_vars => WindowInv'
  <2> SUFFICES ASSUME TypeOK, TypeOK', WindowInv, [Next]_vars PROVE WindowInv'
    OBVIOUS
  <2> DEFINE N == Cardinality(Callers)
             K == Cardinality(Taking)
  <2>0. /\ N \in Nat /\ K \in Nat /\ K <= N /\ N * Unit \in Nat
        /\ now \in Nat /\ lastRefill \in Nat /\ lastRefill <= now /\ tokens \in Nat
        /\ Len(grants) \in Nat /\ DOMAIN grants = 1 .. Len(grants)
        /\ \A i \in DOMAIN grants : grants[i] \in Nat
    BY <1>0, TakingFacts DEF TypeOK
  <2>1. \A i \in DOMAIN grants : From(i) \in Nat /\ From(i) * Unit \in Nat
    BY <1>0, <2>0 DEF From
  <2>2. ASSUME NEW c \in Callers, Refill(c) PROVE WindowInv'
    <3> SUFFICES ASSUME NEW L \in Nat, L = Len(grants) PROVE WindowInv'
      BY <2>0
    <3>1. /\ lastRefill' = now /\ now' = now /\ grants' = grants
          /\ tokens' \in Nat /\ tokens' <= MaxTokens
          /\ tokens' <= tokens + (Rate * now - Rate * lastRefill)
      BY <1>0, <2>2, RefillFacts
    <3>2. ASSUME NEW i \in 1 .. L PROVE grants'[i] <= now' /\ Covered(i)'
      <4> DEFINE F == From(i)
                 g == grants[i]
      <4>1. g \in Nat /\ g <= now /\ Covered(i)
        BY <2>0, <3>2 DEF WindowInv
      <4>2. F \in Nat /\ F * Unit \in Nat
        BY <2>0, <2>1, <3>2
      <4>3. Rate * (now - g) \in Int /\ Rate * (now - g) >= 0
        BY <1>0, <2>0, <4>1, Products
      <4>4. CASE F + K <= N
        <5>1. F * Unit <= N * Unit
          <6>1. F <= N
            BY <2>0, <4>2, <4>4
          <6>2. QED BY <1>0, <2>0, <4>2, <6>1, Products
        <5>2. F * Unit + tokens' <= MaxTokens + N * Unit + Rate * (now - g)
          <6> DEFINE P == F * Unit
                     Q == N * Unit
                     R == Rate * (now - g)
          <6>1. P \in Int /\ Q \in Int /\ R \in Int /\ R >= 0 /\ P <= Q
            BY <2>0, <4>2, <4>3, <5>1
          <6>a. MaxTokens \in Int /\ tokens' \in Int /\ tokens' <= MaxTokens
            BY <1>0, <3>1
          <6> HIDE DEF MaxTokens, P, Q, R
          <6>2. P + tokens' <= MaxTokens + Q + R
            BY <6>1, <6>a, Sums
          <6>3. QED BY <6>2 DEF P, Q, R
        <5>3. QED BY <3>1, <4>1, <5>2 DEF Covered, From
      <4>5. CASE g <= lastRefill /\ F * Unit + tokens <= MaxTokens + N * Unit + Rate * (lastRefill - g)
        <5>1. /\ Rate * (now - g) = Rate * now - Rate * g
              /\ Rate * (lastRefill - g) = Rate * lastRefill - Rate * g
              /\ Rate * now \in Int /\ Rate * g \in Int /\ Rate * lastRefill \in Int
          BY <1>0, <2>0, <4>1, Products
        <5>2. F * Unit + tokens' <= MaxTokens + N * Unit + Rate * (now - g)
          <6> DEFINE P == F * Unit
                     Q == N * Unit
                     A == Rate * now
                     B == Rate * lastRefill
                     C == Rate * g
          <6>1. /\ P \in Int /\ Q \in Int /\ A \in Int /\ B \in Int /\ C \in Int
                /\ P + tokens <= MaxTokens + Q + (B - C)
                /\ tokens' <= tokens + (A - B)
            BY <2>0, <3>1, <4>2, <4>5, <5>1
          <6>a. MaxTokens \in Int /\ tokens \in Int /\ tokens' \in Int
            BY <1>0, <2>0, <3>1
          <6> HIDE DEF MaxTokens, P, Q, A, B, C
          <6>2. P + tokens' <= MaxTokens + Q + (A - C)
            BY <6>1, <6>a, Sums
          <6>3. QED BY <5>1, <6>2 DEF P, Q, A, C
        <5>3. QED BY <3>1, <4>1, <5>2 DEF Covered, From
      <4>6. QED BY <4>1, <4>4, <4>5 DEF Covered
    <3>3. QED BY <2>0, <3>1, <3>2 DEF WindowInv, WindowBound
  <2>3. ASSUME NEW c \in Callers, Take(c) PROVE WindowInv'
    <3> SUFFICES ASSUME NEW L \in Nat, L = Len(grants) PROVE WindowInv'
      BY <2>0
    <3>1. /\ tokens' = tokens - Unit /\ tokens' \in Nat /\ lastRefill' = lastRefill /\ now' = now
          /\ Len(grants') = L + 1 /\ DOMAIN grants' = 1 .. L + 1 /\ grants'[L + 1] = now
          /\ \A i \in 1 .. L : grants'[i] = grants[i]
      BY <1>0, <2>0, <2>3 DEF Take, TypeOK
    <3>2. c \in Taking /\ Taking' = Taking \ {c}
      BY <2>3 DEF Take, Taking, TypeOK
    <3>3. Cardinality(Taking') = K - 1 /\ K - 1 \in Int /\ K >= 1
      <4>1. Cardinality(Taking') = K - 1 /\ Cardinality(Taking') \in Nat
        BY <3>2, TakingFacts, FS_CardinalityType
      <4>2. QED BY <2>0, <4>1
    \* A grant before this one: it stays covered, and the stretch from it to
    \* this grant keeps the bound.
    <3>4. ASSUME NEW i \in 1 .. L
          PROVE  /\ grants'[i] <= now' /\ Covered(i)'
                 /\ (L + 1 - i + 1) * Unit <= MaxTokens + N * Unit + Rate * (now - grants[i])
      <4> DEFINE F == From(i)
                 g == grants[i]
      <4>1. g \in Nat /\ g <= now /\ Covered(i) /\ F \in Nat /\ F * Unit \in Nat /\ grants'[i] = g
        BY <2>0, <2>1, <3>1, <3>4 DEF WindowInv
      <4>2. From(i)' = F + 1 /\ L + 1 - i + 1 = F + 1
        BY <2>0, <3>1, <3>4 DEF From
      <4>3. (F + 1) * Unit = F * Unit + Unit
        BY <1>0, <4>1, Products
      <4>4. Rate * (now - g) \in Int /\ Rate * (now - g) >= 0
        BY <1>0, <2>0, <4>1, Products
      <4>5. CASE F + K <= N
        <5>1. From(i)' + Cardinality(Taking') <= N
          BY <2>0, <3>3, <4>1, <4>2, <4>5
        <5>2. (F + 1) * Unit <= N * Unit
          <6>1. F + 1 <= N
            BY <2>0, <3>3, <4>1, <4>5
          <6>2. F + 1 \in Int /\ N \in Int /\ Unit \in Nat
            BY <1>0, <2>0, <4>1
          <6> HIDE DEF F, N
          <6>3. QED BY <6>1, <6>2, Products
        <5>3. (F + 1) * Unit <= MaxTokens + N * Unit + Rate * (now - g)
          <6>1. (F + 1) * Unit \in Int
            BY <1>0, <4>1, <4>3
          <6> HIDE DEF MaxTokens, F, N, g
          <6>2. QED BY <1>0, <2>0, <4>4, <5>2, <6>1
        <5>4. QED BY <3>1, <4>1, <4>2, <5>1, <5>3 DEF Covered
      <4>6. CASE g <= lastRefill /\ F * Unit + tokens <= MaxTokens + N * Unit + Rate * (lastRefill - g)
        <5>1. (F + 1) * Unit + tokens' <= MaxTokens + N * Unit + Rate * (lastRefill - g)
          <6>1. Rate * (lastRefill - g) \in Int
            BY <1>0, <2>0, <4>1, Products
          <6> HIDE DEF MaxTokens, F, N, g
          <6>2. QED BY <1>0, <2>0, <3>1, <4>1, <4>3, <4>6, <6>1
        <5>2. Covered(i)'
          BY <3>1, <4>1, <4>2, <4>6, <5>1 DEF Covered
        <5>3. /\ Rate * (now - g) = Rate * now - Rate * g
              /\ Rate * (lastRefill - g) = Rate * lastRefill - Rate * g
              /\ Rate * now \in Int /\ Rate * g \in Int /\ Rate * lastRefill \in Int
          <6>1. g \in Int /\ now \in Int /\ lastRefill \in Int /\ Rate \in Nat
            BY <1>0, <2>0, <4>1
          <6> HIDE DEF g
          <6>2. QED BY <6>1, Products
        <5>a. Rate * lastRefill <= Rate * now
          BY <1>0, <2>0
        <5>4. (F + 1) * Unit <= MaxTokens + N * Unit + Rate * (now - g)
          <6> HIDE DEF MaxTokens, F, N, g
          <6>2. QED BY <1>0, <2>0, <3>1, <4>1, <4>3, <5>1, <5>3, <5>a
        <5>5. QED BY <3>1, <4>1, <4>2, <5>2, <5>4
      <4>7. QED BY <4>1, <4>5, <4>6 DEF Covered
    \* This grant itself.
    <3>5. grants'[L + 1] <= now' /\ Covered(L + 1)'
      <4>1. From(L + 1)' = 1
        BY <3>1 DEF From
      <4>2. QED BY <2>0, <3>1, <3>3, <4>1 DEF Covered
    <3>6. Unit <= MaxTokens + N * Unit + Rate * (now - now)
      <4>1. Rate * (now - now) = 0 /\ N >= 1
        BY <1>0, <2>0, <3>3
      <4>2. 1 * Unit <= N * Unit
        BY <1>0, <2>0, <4>1, Products
      <4> HIDE DEF MaxTokens, N
      <4>3. QED BY <1>0, <2>0, <4>1, <4>2
    <3>7. WindowBound'
      <4> SUFFICES ASSUME NEW i \in 1 .. L + 1, NEW j \in 1 .. L + 1, i <= j
                   PROVE  (j - i + 1) * Unit <= MaxTokens + N * Unit + Rate * (grants'[j] - grants'[i])
        BY <3>1 DEF WindowBound
      <4>1. CASE j \in 1 .. L
        <5>1. i \in 1 .. L
          BY <2>0, <4>1
        <5>2. QED BY <2>0, <3>1, <4>1, <5>1 DEF WindowInv, WindowBound
      <4>2. CASE j = L + 1 /\ i \in 1 .. L
        BY <3>1, <3>4, <4>2
      <4>3. CASE j = L + 1 /\ i = L + 1
        <5>1. (j - i + 1) * Unit = Unit
          BY <1>0, <2>0, <4>3
        <5>2. QED BY <3>1, <3>6, <4>3, <5>1
      <4>4. QED BY <2>0, <4>1, <4>2, <4>3
    <3>8. QED
      <4>1. ASSUME NEW i \in DOMAIN grants' PROVE grants'[i] <= now' /\ Covered(i)'
        <5>1. i \in 1 .. L \/ i = L + 1
          BY <2>0, <3>1, <4>1
        <5>2. QED BY <3>4, <3>5, <5>1
      <4>2. QED BY <3>7, <4>1 DEF WindowInv
  \* The other steps leave the bucket and the grants alone, and nobody enters
  \* the stretch between the critical sections.
  <2>4. ASSUME UNCHANGED <<tokens, lastRefill, grants>>, now' >= now, Taking' \subseteq Taking
        PROVE  WindowInv'
    <3>1. Cardinality(Taking') <= K /\ Cardinality(Taking') \in Nat
      BY <2>4, TakingFacts, FS_Subset, FS_CardinalityType
    <3>2. ASSUME NEW i \in DOMAIN grants' PROVE grants'[i] <= now' /\ Covered(i)'
      <4>1. From(i)' = From(i) /\ From(i) \in Nat
        BY <2>1, <2>4, <3>2 DEF From
      <4>2. grants[i] \in Nat /\ grants[i] <= now /\ Covered(i) /\ now' \in Nat
        BY <2>0, <2>4, <3>2 DEF WindowInv, TypeOK
      <4>3. CASE From(i) + K <= N
        <5>1. From(i) + Cardinality(Taking') <= N
          BY <2>0, <3>1, <4>1, <4>3
        <5>2. QED BY <2>0, <2>4, <4>1, <4>2, <5>1 DEF Covered
      <4>4. CASE ~(From(i) + K <= N)
        BY <2>0, <2>4, <4>1, <4>2, <4>4 DEF Covered
      <4>5. QED BY <4>3, <4>4
    <3>3. WindowBound'
      BY <2>4 DEF WindowInv, WindowBound
    <3>4. QED BY <3>2, <3>3 DEF WindowInv
  <2>5. ASSUME NEW c \in Callers, Begin(c) \/ Sleep(c) \/ Wake(c) \/ GiveUp(c) PROVE WindowInv'
    <3>1. Taking' \subseteq Taking
      BY <2>5 DEF Begin, Sleep, Wake, GiveUp, Taking, TypeOK
    <3>2. UNCHANGED <<tokens, lastRefill, grants, now>>
      BY <2>5 DEF Begin, Sleep, Wake, GiveUp
    <3>3. QED BY <2>0, <2>4, <3>1, <3>2
  <2>6. CASE Tick \/ UNCHANGED vars
    <3>1. Taking' = Taking
      BY <2>6 DEF Tick, vars, Taking
    <3>2. UNCHANGED <<tokens, lastRefill, grants>> /\ now' >= now
      BY <2>0, <2>6 DEF Tick, vars
    <3>3. QED BY <2>4, <3>1, <3>2
  <2>7. QED BY <2>2, <2>3, <2>5, <2>6 DEF Next
<1>3. WindowInv => WindowBound
  BY DEF WindowInv
<1>4. QED BY <1>1, <1>2, <1>3, TypeCorrect, PTL DEF Spec
=============================================================================
