-------------------------- MODULE RateLimiterProofs --------------------------
(***************************************************************************)
(* The rate limit holds for every capacity, window and lag.                *)
(*                                                                         *)
(* The bucket of the code is compared with the ideal one of credit: the    *)
(* tokens it holds, together with what the time since the last refill is   *)
(* still worth, never exceed the credit (up to the size of the ideal       *)
(* bucket). Rounding the refill down only loses.                           *)
(***************************************************************************)
EXTENDS RateLimiter, TLAPS

\* What the bucket of k is worth, in units of 1/Window of a token.
Worth(k) == LeastOf(tokens[k] * Unit + since[k] * Capacity, Burst)

Covered == \A k \in Keys : Worth(k) <= credit[k]

\* A bucket is created full.
Fresh == \A k \in Keys \ seen : tokens[k] = Capacity /\ since[k] = 0 /\ credit[k] = Burst

LimitInv == TypeOK /\ Covered /\ Fresh

LEMMA Sizes ==
    /\ Capacity \in Nat /\ Capacity >= 1
    /\ Window \in Nat /\ Window >= 1
    /\ Lag \in Nat
    /\ LongAgo \in Nat
    /\ Unit = Window
  BY LimiterAssumption DEF Capacity, Window, LongAgo, Unit

LEMMA ProductNat == \A m, n \in Nat : m * n \in Nat
  OBVIOUS

LEMMA BurstNat ==
    /\ Burst \in Nat
    /\ Burst = Capacity * Unit + Unit + Lag * Capacity
    /\ Capacity * Unit \in Nat
    /\ Lag * Capacity \in Nat
  <1> DEFINE C == Capacity
             U == Unit
  <1>1. C \in Nat /\ U \in Nat /\ Lag \in Nat
    BY Sizes
  <1>2. C * U \in Nat /\ Lag * C \in Nat
    BY <1>1, ProductNat
  <1>3. (C + 1) * U = C * U + U
    BY <1>1
  <1>4. QED
    BY <1>1, <1>2, <1>3 DEF Burst

\* The refill is rounded down to whole tokens.
LEMMA RefillRoundsDown ==
    ASSUME NEW e \in Nat
    PROVE  /\ Refill(e) \in Nat
           /\ Refill(e) * Unit <= e * Capacity
           /\ Refill(e) = 0 => e * Capacity < Unit
  <1> DEFINE p == e * Capacity
             W == Window
  <1>1. p \in Nat /\ W \in Nat /\ W >= 1
    BY Sizes, ProductNat
  <1> HIDE DEF p, W
  <1>2. /\ p \div W \in Nat
        /\ (p \div W) * W <= p
        /\ p \div W = 0 => p < W
    BY <1>1
  <1>3. QED
    BY <1>2, Sizes DEF Refill, p, W

LEMMA TimesCapacity ==
    ASSUME NEW m \in Nat, NEW n \in Nat, m <= n
    PROVE  /\ m * Capacity \in Nat
           /\ m * Capacity <= n * Capacity
           /\ (m + 1) * Capacity = m * Capacity + Capacity
           /\ (m + n) * Capacity = m * Capacity + n * Capacity
  <1> DEFINE C == Capacity
  <1>1. C \in Nat
    BY Sizes
  <1> HIDE DEF C
  <1>2. PICK d \in Nat : n = m + d
    <2>1. n - m \in Nat /\ n = m + (n - m)
      OBVIOUS
    <2>2. QED
      BY <2>1
  <1>3. m * C \in Nat /\ d * C \in Nat
    BY <1>1, ProductNat
  <1>4. n * C = m * C + d * C /\ (m + n) * C = m * C + n * C /\ (m + 1) * C = m * C + C
    BY <1>1, <1>2
  <1>5. QED
    BY <1>3, <1>4 DEF C

LEMMA TimesUnit ==
    ASSUME NEW m \in Nat, NEW n \in Nat, m <= n
    PROVE  /\ m * Unit \in Nat
           /\ m * Unit <= n * Unit
           /\ m > 0 => (m - 1) * Unit = m * Unit - Unit
           /\ (m + n) * Unit = m * Unit + n * Unit
  <1> DEFINE U == Unit
  <1>1. U \in Nat
    BY Sizes
  <1> HIDE DEF U
  <1>2. PICK d \in Nat : n = m + d
    <2>1. n - m \in Nat /\ n = m + (n - m)
      OBVIOUS
    <2>2. QED
      BY <2>1
  <1>3. m * U \in Nat /\ d * U \in Nat
    BY <1>1, ProductNat
  <1>4. n * U = m * U + d * U /\ (m + n) * U = m * U + n * U /\ (m - 1) * U = m * U - U
    BY <1>1, <1>2
  <1>5. QED
    BY <1>3, <1>4 DEF U

LEMMA UnitMonotone ==
    \A m, n \in Nat : m <= n => m * Unit <= n * Unit
  <1> SUFFICES ASSUME NEW m \in Nat, NEW n \in Nat, m <= n
               PROVE  m * Unit <= n * Unit
    OBVIOUS
  <1>1. QED
    BY TimesUnit

-----------------------------------------------------------------------------
(* check *)

\* The tokens of one bucket through a check: t tokens after the refill, and
\* what they are worth together with the lag.
LEMMA CheckWorth ==
    ASSUME LimitInv, NEW k \in Keys, NEW lag \in 0..Lag
    PROVE  LET t == TokensAt(k, lag)
               s == IF k \notin seen \/ Refill(ElapsedAt(k, lag)) > 0 THEN lag ELSE since[k]
           IN  /\ t \in 0..Capacity
               /\ s \in 0..LongAgo
               /\ t > 0 => LeastOf((t - 1) * Unit + s * Capacity, Burst) <= credit[k] - Unit
               /\ t = 0 => LeastOf(t * Unit + s * Capacity, Burst) <= credit[k]
  <1> DEFINE e == ElapsedAt(k, lag)
             r == Refill(e)
             t == TokensAt(k, lag)
             s == IF k \notin seen \/ r > 0 THEN lag ELSE since[k]
             C == Capacity
             U == Unit
             n == tokens[k]
             a == since[k]
  <1>1. /\ C \in Nat /\ C >= 1 /\ U \in Nat /\ U >= 1 /\ Lag \in Nat
        /\ lag \in Nat /\ lag <= Lag /\ lag <= LongAgo /\ LongAgo \in Nat
    BY Sizes DEF LongAgo
  <1>2. n \in 0..C /\ a \in 0..LongAgo /\ credit[k] \in Int
    BY DEF LimitInv, TypeOK
  <1>3. e \in Nat /\ (k \in seen => a <= e + lag) /\ (k \in seen /\ e > 0 => a = e + lag)
        /\ (k \notin seen => e = 0)
    BY <1>1, <1>2 DEF ElapsedAt
  <1>4. /\ r \in Nat /\ r * U <= e * C
        /\ r = 0 => e * C < U
    BY <1>3, RefillRoundsDown
  <1>5. t = LeastOf(n + r, C)
    BY DEF TokensAt
  <1>6. t \in 0..C /\ s \in 0..LongAgo
    BY <1>1, <1>2, <1>4, <1>5 DEF LeastOf
  <1>7. /\ Burst \in Nat /\ Burst = C * U + U + Lag * C
        /\ C * U \in Nat /\ Lag * C \in Nat
    BY BurstNat
  <1>8. LeastOf(n * U + a * C, Burst) <= credit[k]
    BY DEF LimitInv, Covered, Worth
  <1>9. lag * C \in Nat /\ lag * C <= Lag * C
    BY <1>1, TimesCapacity
  <1>10. t * U \in Nat /\ t * U <= C * U /\ (t > 0 => (t - 1) * U = t * U - U)
    BY <1>1, <1>6, TimesUnit
  <1>11. n * U \in Nat /\ a * C \in Nat /\ e * C \in Nat /\ r * U \in Nat
    BY <1>1, <1>2, <1>3, <1>4, ProductNat
  <1>12. e = 0 => e * C = 0
    BY <1>1
  <1>13. CASE k \notin seen
    <2>1. e = 0 /\ r = 0
      <3>1. e = 0
        BY <1>3, <1>13
      <3>2. r * U <= 0
        BY <3>1, <1>4, <1>12, <1>11
      <3>3. r > 0 => r * U >= U
        BY <1>1, <1>4, TimesUnit
      <3>4. QED
        BY <3>1, <3>2, <3>3, <1>1, <1>4, <1>11
    <2>2. n = C /\ credit[k] = Burst /\ s = lag
      BY <1>13 DEF LimitInv, Fresh
    <2>3. t = C
      BY <2>1, <2>2, <1>1, <1>5 DEF LeastOf
    <2> HIDE DEF e, r, t, s, C, U, n, a
    <2>4. t > 0 /\ LeastOf((t - 1) * U + s * C, Burst) <= credit[k] - U
      BY <2>2, <2>3, <1>1, <1>7, <1>9, <1>10 DEF LeastOf
    <2>5. QED
      BY <2>4, <1>6 DEF e, r, t, s, C, U, n, a
  <1>14. CASE k \in seen /\ r > 0
    <2>1. e > 0
      <3>1. e = 0 => r * U <= 0
        BY <1>4, <1>12, <1>11
      <3>2. r * U >= U
        BY <1>1, <1>4, <1>14, TimesUnit
      <3>3. QED
        BY <3>1, <3>2, <1>1, <1>3, <1>11
    <2>2. a = e + lag /\ s = lag
      BY <2>1, <1>3, <1>14
    <2>3. a * C = e * C + lag * C
      BY <2>2, <1>1, <1>3
    <2>4. t > 0 /\ t <= n + r
      BY <1>1, <1>2, <1>4, <1>5, <1>14 DEF LeastOf
    <2>5. t * U <= n * U + r * U
      <3>1. \A x, y \in Nat : x <= y => x * U <= y * U
        BY UnitMonotone
      <3>2. t \in Nat /\ n \in Nat /\ r \in Nat /\ U \in Nat
        BY <1>1, <1>2, <1>4, <1>6
      <3> HIDE DEF e, r, t, s, C, U, n, a
      <3>3. n + r \in Nat
        BY <3>2
      <3>4. t * U <= (n + r) * U
        BY <3>1, <3>2, <3>3, <2>4
      <3>5. (n + r) * U = n * U + r * U
        BY <3>2
      <3>6. QED
        BY <3>4, <3>5
    <2> HIDE DEF e, r, t, s, C, U, n, a
    <2>6. t * U + lag * C <= n * U + a * C
      BY <2>3, <2>5, <1>4, <1>9, <1>10, <1>11
    <2>7. t * U + lag * C <= credit[k]
      BY <2>6, <1>1, <1>2, <1>7, <1>8, <1>9, <1>10, <1>11 DEF LeastOf
    <2>8. LeastOf((t - 1) * U + s * C, Burst) <= credit[k] - U
      BY <2>2, <2>4, <2>7, <1>1, <1>2, <1>7, <1>9, <1>10 DEF LeastOf
    <2>9. QED
      BY <2>4, <2>8, <1>6 DEF e, r, t, s, C, U, n, a
  <1>15. CASE k \in seen /\ r = 0
    <2>1. t = n /\ s = a
      BY <1>1, <1>2, <1>5, <1>15 DEF LeastOf
    <2>2. a * C < U + lag * C
      <3>1. a \in Nat /\ e + lag \in Nat /\ a <= e + lag
        BY <1>1, <1>2, <1>3, <1>15
      <3>2. (e + lag) * C = e * C + lag * C
        BY <1>1, <1>3
      <3>3. a * C <= (e + lag) * C
        BY <3>1, TimesCapacity
      <3>4. QED
        BY <3>3, <3>2, <1>1, <1>4, <1>9, <1>11, <1>15
    <2> HIDE DEF e, r, t, s, C, U, n, a
    <2>3. n * U + a * C <= credit[k]
      BY <2>1, <2>2, <1>1, <1>2, <1>7, <1>8, <1>9, <1>10, <1>11 DEF LeastOf
    <2>4. t > 0 => LeastOf((t - 1) * U + s * C, Burst) <= credit[k] - U
      BY <2>1, <2>3, <1>1, <1>2, <1>7, <1>10, <1>11 DEF LeastOf
    <2>5. t = 0 => LeastOf(t * U + s * C, Burst) <= credit[k]
      BY <2>1, <1>8
    <2>6. QED
      BY <2>4, <2>5, <1>6 DEF e, r, t, s, C, U, n, a
  <1>16. QED
    BY <1>4, <1>13, <1>14, <1>15

LEMMA CheckStep ==
    ASSUME LimitInv, NEW k \in Keys, NEW lag \in 0..Lag, Check(k, lag)
    PROVE  LimitInv'
  <1> DEFINE t == TokensAt(k, lag)
             s == IF k \notin seen \/ Refill(ElapsedAt(k, lag)) > 0 THEN lag ELSE since[k]
  <1>1. /\ t \in 0..Capacity
        /\ s \in 0..LongAgo
        /\ t > 0 => LeastOf((t - 1) * Unit + s * Capacity, Burst) <= credit[k] - Unit
        /\ t = 0 => LeastOf(t * Unit + s * Capacity, Burst) <= credit[k]
    BY CheckWorth
  <1>2. /\ seen' = seen \cup {k}
        /\ since' = [since EXCEPT ![k] = s]
        /\ tokens' = [tokens EXCEPT ![k] = IF t > 0 THEN t - 1 ELSE t]
        /\ credit' = [credit EXCEPT ![k] = IF t > 0 THEN @ - Unit ELSE @]
    BY DEF Check
  <1> HIDE DEF t, s
  <1>3. Capacity \in Nat /\ Unit \in Nat /\ LongAgo \in Nat
    BY Sizes
  <1>4. TypeOK'
    BY <1>1, <1>2, <1>3 DEF LimitInv, TypeOK
  <1>5. ASSUME NEW l \in Keys PROVE Worth(l)' <= credit'[l]
    <2>1. CASE l # k
      <3>1. since'[l] = since[l] /\ tokens'[l] = tokens[l] /\ credit'[l] = credit[l]
        BY <1>2, <2>1 DEF LimitInv, TypeOK
      <3>2. Worth(l)' = Worth(l)
        BY <3>1 DEF Worth, Burst, Unit, Capacity, Window
      <3>3. QED
        BY <3>1, <3>2 DEF LimitInv, Covered
    <2>2. CASE l = k /\ t > 0
      <3>1. since'[l] = s /\ tokens'[l] = t - 1 /\ credit'[l] = credit[l] - Unit
        BY <1>2, <2>2 DEF LimitInv, TypeOK
      <3>2. QED
        BY <3>1, <1>1, <2>2 DEF Worth
    <2>3. CASE l = k /\ t = 0
      <3>1. since'[l] = s /\ tokens'[l] = t /\ credit'[l] = credit[l]
        BY <1>2, <2>3 DEF LimitInv, TypeOK
      <3>2. QED
        BY <3>1, <1>1, <2>3 DEF Worth
    <2>4. QED
      BY <1>1, <1>3, <2>1, <2>2, <2>3
  <1>6. Fresh'
    BY <1>2 DEF LimitInv, TypeOK, Fresh
  <1>7. QED
    BY <1>4, <1>5, <1>6 DEF LimitInv, Covered

-----------------------------------------------------------------------------
(* The passing of time *)

LEMMA TickStep ==
    ASSUME LimitInv, Tick
    PROVE  LimitInv'
  <1>1. /\ Capacity \in Nat /\ Unit \in Nat /\ LongAgo \in Nat /\ Burst \in Nat
    BY Sizes, BurstNat
  <1>2. TypeOK'
    BY <1>1 DEF LimitInv, TypeOK, Tick, LeastOf
  <1>3. ASSUME NEW k \in Keys PROVE Worth(k)' <= credit'[k]
    <2> DEFINE n == tokens[k] * Unit
               a == since[k] * Capacity
               b == since'[k] * Capacity
    <2>1. /\ tokens[k] \in Nat /\ since[k] \in Nat /\ credit[k] \in Int
          /\ since'[k] = since[k] \/ since'[k] = since[k] + 1
          /\ tokens'[k] = tokens[k]
          /\ credit'[k] = LeastOf(credit[k] + Capacity, Burst)
      BY <1>1 DEF LimitInv, TypeOK, Tick
    <2>2. n \in Nat /\ a \in Nat /\ b \in Nat
      BY <1>1, <2>1, ProductNat
    <2>3. b <= a + Capacity
      <3>1. (since[k] + 1) * Capacity = since[k] * Capacity + Capacity
        BY <2>1, TimesCapacity
      <3>2. QED
        BY <3>1, <2>1, <2>2, <1>1
    <2>4. Worth(k) = LeastOf(n + a, Burst) /\ Worth(k) <= credit[k]
      BY DEF LimitInv, Covered, Worth
    <2>5. Worth(k)' = LeastOf(n + b, Burst)
      BY <2>1 DEF Worth
    <2> HIDE DEF n, a, b
    <2>6. QED
      BY <1>1, <2>1, <2>2, <2>3, <2>4, <2>5 DEF LeastOf
  <1>4. Fresh'
    BY <1>1 DEF LimitInv, TypeOK, Fresh, Tick, LeastOf
  <1>5. QED
    BY <1>2, <1>3, <1>4 DEF LimitInv, Covered

LEMMA LimitInit == Init => LimitInv
  <1> SUFFICES ASSUME Init PROVE LimitInv
    OBVIOUS
  <1>1. Capacity \in Nat /\ LongAgo \in Nat /\ Burst \in Nat /\ Unit \in Nat
    BY Sizes, BurstNat
  <1>2. TypeOK /\ Fresh
    BY <1>1 DEF Init, TypeOK, Fresh
  <1>3. ASSUME NEW k \in Keys PROVE Worth(k) <= credit[k]
    <2>1. tokens[k] \in Nat /\ since[k] \in Nat /\ credit[k] = Burst
      BY <1>1 DEF Init
    <2>2. tokens[k] * Unit \in Nat /\ since[k] * Capacity \in Nat
      BY <1>1, <2>1, ProductNat
    <2>3. QED
      BY <1>1, <2>1, <2>2 DEF Worth, LeastOf
  <1>4. QED
    BY <1>2, <1>3 DEF LimitInv, Covered

LEMMA LimitStep == LimitInv /\ [Next]_vars => LimitInv'
  <1> SUFFICES ASSUME LimitInv, [Next]_vars PROVE LimitInv'
    OBVIOUS
  <1>1. CASE UNCHANGED vars
    BY <1>1 DEF vars, LimitInv, TypeOK, Covered, Fresh, Worth
  <1>2. QED
    BY <1>1, CheckStep, TickStep DEF Next

\* For every limit, window, lag and number of clients: the admissions of a
\* key never overdraw the ideal bucket, and the variables keep their types.
THEOREM RateLimited == Spec => [](TypeOK /\ Conforms)
  <1>1. LimitInv => TypeOK /\ Conforms
    <2> SUFFICES ASSUME LimitInv, NEW k \in Keys PROVE credit[k] >= 0
      BY DEF LimitInv, Conforms
    <2>1. tokens[k] \in Nat /\ since[k] \in Nat /\ credit[k] \in Int
      BY Sizes DEF LimitInv, TypeOK
    <2>2. tokens[k] * Unit \in Nat /\ since[k] * Capacity \in Nat /\ Burst \in Nat
      BY <2>1, Sizes, ProductNat, BurstNat
    <2>3. QED
      BY <2>1, <2>2 DEF LimitInv, Covered, Worth, LeastOf
  <1>2. QED
    BY <1>1, LimitInit, LimitStep, PTL DEF Spec
=============================================================================
