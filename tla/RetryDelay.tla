------------------------------ MODULE RetryDelay ------------------------------
(***************************************************************************)
(* The arithmetic of _backoff (nats_outbox/relay/polling.py), in tenths of *)
(* a second: a power of two, capped, then spread by a jitter of a fifth    *)
(* either way.  OutboxTable takes the delays as a constant; the instances  *)
(* that are model-checked draw them from here.                             *)
(***************************************************************************)
EXTENDS Integers, WellFoundedInduction, TLAPS

Second == 10
base   == 2
cap    == 300   \* seconds

Power[n \in Nat] == IF n = 0 THEN 1 ELSE base * Power[n - 1]

Smaller(a, b) == IF a < b THEN a ELSE b
Larger(a, b)  == IF a < b THEN b ELSE a

(* raw + raw * uniform(-0.2, 0.2), and no less than a second, for a power  *)
(* in seconds.  The jitter comes after the cap.                            *)
Spread(power) ==
    LET raw == Smaller(power, cap) * Second IN
    { Larger(Second, d) : d \in ((raw * 4) \div 5) .. ((raw * 6) \div 5) }

_backoff(retry_count) == Spread(Power[retry_count])

(* Delays in units of u tenths, to the nearest unit or rounded up.         *)
Nearest(u, delays) == { (d + u \div 2) \div u : d \in delays }
Upward(u, delays)  == { (d + u - 1) \div u : d \in delays }

-----------------------------------------------------------------------------
(* Induction over the retry count, by the least counterexample.            *)
LEMMA NatWF == IsWellFoundedOn({p \in Nat \X Nat : p[1] < p[2]}, Nat)
BY NatLessThanWellFounded DEF OpToRel

LEMMA NatInduct ==
    ASSUME NEW S \in SUBSET Nat, 0 \in S, \A n \in S : n + 1 \in S
    PROVE  S = Nat
<1> DEFINE R == {p \in Nat \X Nat : p[1] < p[2]}
           T == Nat \ S
<1> SUFFICES ASSUME T # {} PROVE FALSE
  OBVIOUS
<1>1. \A m, n \in Nat : <<m, n>> \notin R => n <= m
  <2>1. ASSUME NEW m \in Nat, NEW n \in Nat, <<m, n>> \notin R, m < n PROVE FALSE
    <3>1. <<m, n>> \in Nat \X Nat /\ <<m, n>>[1] < <<m, n>>[2]
      BY <2>1
    <3> QED
      BY <2>1, <3>1
  <2> QED
    BY <2>1
<1>2. IsWellFoundedOn(R, Nat) /\ T \subseteq Nat
  BY NatWF
<1> HIDE DEF R, T
<1>3. PICK n \in T : \A m \in T : <<m, n>> \notin R
  BY <1>2, WFMin
<1>4. n \in Nat /\ n # 0 /\ n \notin S
  BY <1>3 DEF T
<1>5. n - 1 \in S
  <2>1. n - 1 \in Nat /\ ~(n <= n - 1)
    BY <1>4
  <2> QED
    BY <1>1, <1>3, <1>4, <2>1 DEF T
<1> QED
  BY <1>4, <1>5

-----------------------------------------------------------------------------
(* f holds the powers up to the n-th.                                      *)
Computes(f, n) == \A k \in 0 .. n : f[k] = IF k = 0 THEN 1 ELSE base * f[k - 1]

(* Any number of powers can be computed.                                   *)
LEMMA Approximated == \A n \in Nat : \E f \in [Nat -> Nat] : Computes(f, n)
<1> DEFINE S == {n \in Nat : \E f \in [Nat -> Nat] : Computes(f, n)}
<1>1. 0 \in S
  <2>1. Computes([k \in Nat |-> 1], 0)
    BY DEF Computes
  <2>2. [k \in Nat |-> 1] \in [Nat -> Nat]
    OBVIOUS
  <2> QED
    BY <2>1, <2>2
<1>2. ASSUME NEW n \in S PROVE n + 1 \in S
  <2>1. PICK f \in [Nat -> Nat] : Computes(f, n)
    BY <1>2
  <2> DEFINE g == [k \in Nat |-> IF k = n + 1 THEN base * f[n] ELSE f[k]]
  <2>2. g \in [Nat -> Nat]
    BY DEF base
  <2>3. ASSUME NEW k \in 0 .. n + 1 PROVE g[k] = IF k = 0 THEN 1 ELSE base * g[k - 1]
    BY <2>1 DEF Computes
  <2>4. Computes(g, n + 1)
    BY <2>3 DEF Computes
  <2> HIDE DEF g
  <2> QED
    BY <2>2, <2>4
<1> HIDE DEF S
<1>3. S = Nat
  <2>1. S \in SUBSET Nat
    BY DEF S
  <2> QED
    BY <1>1, <1>2, <2>1, NatInduct
<1> QED
  BY <1>3 DEF S

(* Whoever computes a power finds the same.                                *)
LEMMA Agree ==
    ASSUME NEW f, NEW g, NEW m \in Nat, NEW n \in Nat, m <= n,
           Computes(f, m), Computes(g, n)
    PROVE  f[m] = g[m]
<1> DEFINE S == {k \in Nat : k <= m => f[k] = g[k]}
<1>1. 0 \in S
  BY DEF Computes
<1>2. ASSUME NEW k \in S PROVE k + 1 \in S
  BY <1>2 DEF Computes
<1>3. S \in SUBSET Nat
  OBVIOUS
<1> HIDE DEF S
<1>4. S = Nat
  BY <1>1, <1>2, <1>3, NatInduct
<1> QED
  BY <1>4 DEF S

(* So the recursive definition of Power defines it.                        *)
LEMMA PowerDef ==
    Power = [n \in Nat |-> IF n = 0 THEN 1 ELSE base * Power[n - 1]]
<1> DEFINE at(n) == CHOOSE g \in [Nat -> Nat] : Computes(g, n)
           f == [n \in Nat |-> at(n)[n]]
<1>1. \A k \in Nat : at(k) \in [Nat -> Nat] /\ Computes(at(k), k) /\ f[k] = at(k)[k]
  BY Approximated
<1>2. f = [n \in Nat |-> f[n]]
  OBVIOUS
<1> HIDE DEF at, f
<1>3. ASSUME NEW n \in Nat PROVE f[n] = IF n = 0 THEN 1 ELSE base * f[n - 1]
  <2>1. at(n)[n] = IF n = 0 THEN 1 ELSE base * at(n)[n - 1]
    BY <1>1 DEF Computes
  <2>2. CASE n = 0
    BY <1>1, <2>1, <2>2
  <2>3. CASE n # 0
    <3>1. n - 1 \in Nat /\ n - 1 <= n
      BY <2>3
    <3> DEFINE m == n - 1
    <3> HIDE DEF m
    <3>2. m \in Nat /\ m <= n
      BY <3>1 DEF m
    <3>3. Computes(at(m), m) /\ Computes(at(n), n)
      BY <1>1, <3>2
    <3>4. at(m)[m] = at(n)[m]
      BY <3>2, <3>3, Agree
    <3>5. f[m] = at(n)[m]
      BY <1>1, <3>2, <3>4
    <3> QED
      BY <1>1, <2>1, <2>3, <3>5 DEF m
  <2> QED
    BY <2>2, <2>3
<1>4. f = [n \in Nat |-> IF n = 0 THEN 1 ELSE base * f[n - 1]]
  BY <1>2, <1>3
<1>5. Power = CHOOSE p : p = [n \in Nat |-> IF n = 0 THEN 1 ELSE base * p[n - 1]]
  BY DEF Power
<1> QED
  BY <1>4, <1>5

(* No power is zero, and each is twice the one before.                     *)
LEMMA PowerType == Power \in [Nat -> Nat \ {0}]
<1> DEFINE S == {n \in Nat : Power[n] \in Nat \ {0}}
<1>1. ASSUME NEW n \in Nat PROVE Power[n] = IF n = 0 THEN 1 ELSE base * Power[n - 1]
  BY PowerDef
<1>2. 0 \in S
  BY <1>1
<1>3. ASSUME NEW n \in S PROVE n + 1 \in S
  <2>1. Power[n + 1] = base * Power[n]
    BY <1>1
  <2> QED
    BY <2>1 DEF base
<1>4. S \in SUBSET Nat
  OBVIOUS
<1> HIDE DEF S
<1>5. S = Nat
  BY <1>2, <1>3, <1>4, NatInduct
<1>6. \A n \in Nat : Power[n] \in Nat \ {0}
  BY <1>5 DEF S
<1> QED
  BY <1>6, PowerDef

LEMMA PowerStep == \A n \in Nat : Power[n + 1] = 2 * Power[n]
BY PowerDef DEF base

(* 2^9 is the first power past the cap, and the ones after it stay there.  *)
LEMMA PowerCapped == \A n \in Nat : n >= 9 => Power[n] > cap
<1> DEFINE S == {n \in Nat : Power[n + 9] > cap}
<1>1. 0 \in S
  <2>1. Power[0] = 1
    BY PowerDef
  <2>2. /\ Power[1] = 2 /\ Power[2] = 4 /\ Power[3] = 8
    BY <2>1, PowerStep
  <2>3. /\ Power[4] = 16 /\ Power[5] = 32 /\ Power[6] = 64
    BY <2>2, PowerStep
  <2>4. /\ Power[7] = 128 /\ Power[8] = 256 /\ Power[9] = 512
    BY <2>3, PowerStep
  <2> QED
    BY <2>4 DEF cap
<1>2. ASSUME NEW n \in S PROVE n + 1 \in S
  <2>1. Power[(n + 9) + 1] = 2 * Power[n + 9] /\ Power[n + 9] \in Nat
    BY PowerStep, PowerType
  <2> QED
    BY <1>2, <2>1 DEF cap
<1>3. S \in SUBSET Nat
  OBVIOUS
<1> HIDE DEF S
<1>4. S = Nat
  BY <1>1, <1>2, <1>3, NatInduct
<1>5. ASSUME NEW n \in Nat, n >= 9 PROVE Power[n] > cap
  <2>1. n - 9 \in S
    BY <1>4, <1>5
  <2> QED
    BY <2>1 DEF S
<1> QED
  BY <1>5

-----------------------------------------------------------------------------
(* What the cap, the jitter and the minimum make of a power.               *)
LEMMA SpreadBounds ==
    ASSUME NEW power \in Nat \ {0}
    PROVE  /\ Spread(power) # {}
           /\ \A d \in Spread(power) : d \in Nat /\ Second <= d /\ d <= 360 * Second
<1> DEFINE raw == Smaller(power, cap) * Second
           low == (raw * 4) \div 5
           high == (raw * 6) \div 5
<1>1. raw \in Nat /\ raw >= 10 /\ raw <= 3000
  BY DEF Smaller, cap, Second
<1>2. low \in Nat /\ high \in Nat /\ low <= high /\ high <= 3600
  BY <1>1
<1>3. Spread(power) = { Larger(Second, d) : d \in low .. high }
  BY DEF Spread
<1> HIDE DEF raw, low, high
<1>4. Spread(power) # {}
  <2>1. low \in low .. high
    BY <1>2
  <2> QED
    BY <1>3, <2>1
<1>5. ASSUME NEW d \in low .. high
      PROVE  Larger(Second, d) \in Nat /\ Second <= Larger(Second, d)
             /\ Larger(Second, d) <= 360 * Second
  BY <1>2 DEF Larger, Second
<1> QED
  BY <1>3, <1>4, <1>5

(* A delay of a unit or more is not rounded to zero.                       *)
LEMMA QuotientPositive ==
    ASSUME NEW n \in Nat, NEW u \in Nat \ {0}, n >= u
    PROVE  n \div u \in Nat \ {0}
<1>1. n = u * (n \div u) + (n % u) /\ n % u < u /\ n \div u \in Int /\ n % u \in Int
  OBVIOUS
<1>2. ASSUME NEW q \in Int, NEW r \in Int, n = u * q + r, r < u, q <= 0 PROVE FALSE
  <2>1. u * q <= 0
    BY <1>2
  <2> QED
    BY <1>2, <2>1
<1>3. n \div u > 0
  BY <1>1, <1>2
<1> QED
  BY <1>1, <1>3

-----------------------------------------------------------------------------
(* A retry is never due at once, and the longest delay is the cap and a    *)
(* fifth more, six minutes: the "hard cap" holds before the jitter only.   *)
THEOREM DelayBounds ==
    ASSUME NEW n \in Nat
    PROVE  /\ _backoff(n) # {}
           /\ \A d \in _backoff(n) : d \in Nat /\ Second <= d /\ d <= 360 * Second
<1>1. Power[n] \in Nat \ {0}
  BY PowerType
<1> QED
  BY <1>1, SpreadBounds DEF _backoff

(* So, in any unit, the delays are what OutboxTable assumes of Backoff;    *)
(* to the nearest unit, in units of at most two seconds.                   *)
THEOREM DelaysSuitable ==
    ASSUME NEW n \in Nat, NEW u \in Nat \ {0}
    PROVE  /\ Upward(u, _backoff(n)) # {}
           /\ Upward(u, _backoff(n)) \subseteq Nat \ {0}
           /\ Nearest(u, _backoff(n)) # {}
           /\ u <= 2 * Second => Nearest(u, _backoff(n)) \subseteq Nat \ {0}
<1>1. \A d \in _backoff(n) : d \in Nat /\ d >= 10
  BY DelayBounds DEF Second
<1>2. ASSUME NEW d \in _backoff(n) PROVE (d + u - 1) \div u \in Nat \ {0}
  <2>1. d + u - 1 \in Nat /\ d + u - 1 >= u
    BY <1>1
  <2> QED
    BY <2>1, QuotientPositive
<1>3. ASSUME u <= 2 * Second, NEW d \in _backoff(n)
      PROVE  (d + u \div 2) \div u \in Nat \ {0}
  <2>1. d + u \div 2 \in Nat /\ d + u \div 2 >= u
    BY <1>1, <1>3 DEF Second
  <2> QED
    BY <2>1, QuotientPositive
<1> QED
  BY <1>2, <1>3, DelayBounds DEF Upward, Nearest

(* Until the cap cuts in, a retry waits longer than the one before it,     *)
(* whatever the jitter draws for either.                                   *)
THEOREM DelaysGrow ==
    ASSUME NEW n \in Nat, Power[n + 1] <= cap,
           NEW d \in _backoff(n), NEW e \in _backoff(n + 1)
    PROVE  d < e
<1> DEFINE p == Power[n]
<1>1. p \in Nat \ {0} /\ Power[n + 1] = 2 * p
  BY PowerType, PowerStep
<1> HIDE DEF p
<1>2. p <= cap /\ 2 * p <= cap
  BY <1>1 DEF cap
<1>3. /\ Smaller(p, cap) * Second = 10 * p
      /\ Smaller(2 * p, cap) * Second = 20 * p
  BY <1>1, <1>2 DEF Smaller, Second, cap
<1>4. /\ (10 * p * 4) \div 5 = 8 * p /\ (10 * p * 6) \div 5 = 12 * p
      /\ (20 * p * 4) \div 5 = 16 * p /\ (20 * p * 6) \div 5 = 24 * p
  BY <1>1
<1>5. PICK x \in 8 * p .. 12 * p : d = Larger(Second, x)
  BY <1>1, <1>3, <1>4 DEF _backoff, Spread, p
<1>6. PICK y \in 16 * p .. 24 * p : e = Larger(Second, y)
  BY <1>1, <1>3, <1>4 DEF _backoff, Spread, p
<1> QED
  BY <1>1, <1>5, <1>6 DEF Larger, Second

(* From the ninth attempt on every delay is the cap, spread by the jitter. *)
THEOREM DelaysCapped ==
    ASSUME NEW n \in Nat, n >= 9
    PROVE  _backoff(n) = 240 * Second .. 360 * Second
<1>1. Smaller(Power[n], cap) = 300
  BY PowerCapped, PowerType DEF Smaller, cap
<1>2. Spread(Power[n]) = { Larger(Second, d) : d \in 2400 .. 3600 }
  <2>1. (300 * 10 * 4) \div 5 = 2400 /\ (300 * 10 * 6) \div 5 = 3600
    OBVIOUS
  <2> QED
    BY <1>1, <2>1 DEF Spread, Second
<1>3. \A d \in 2400 .. 3600 : Larger(Second, d) = d
  BY DEF Larger, Second
<1> QED
  BY <1>2, <1>3 DEF _backoff, Second

=============================================================================
