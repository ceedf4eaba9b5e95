------------------------------ MODULE BpsProofs ------------------------------
(***************************************************************************)
(* Theorems about bps_apply and bps_create_linear, for every patch, input, *)
(* pair of files, checksum function and width of numbers.                  *)
(***************************************************************************)
EXTENDS BpsRoundTrip, RecursionLemmas, SequenceTheorems

-----------------------------------------------------------------------------
\* What the numbers of a BPS patch are: decodenum reads what writenum wrote, for
\* every number that fits a size_t and every width of it.

\* Powers of two.
LEMMA Pow2Is ==
    /\ Pow2 \in [Nat -> Nat \ {0}]
    /\ \A n \in Nat : Pow2[n] = IF n = 0 THEN 1 ELSE 2 * Pow2[n - 1]
<1> DEFINE V == Nat \ {0}
           mu == [n \in Nat |-> n]
           Rule == [n \in Nat |-> [f \in [Nat -> V] |-> IF n = 0 THEN 1 ELSE 2 * f[n - 1]]]
<1>1. \A n \in Nat : \A f \in [Nat -> V] : Rule[n][f] = IF n = 0 THEN 1 ELSE 2 * f[n - 1]
  OBVIOUS
<1>2. Descends(Nat, V, mu, Rule)
  <2>1. mu \in [Nat -> Nat] /\ \A n \in Nat : mu[n] = n
    OBVIOUS
  <2>2. ASSUME NEW n \in Nat, NEW f \in [Nat -> V] PROVE (IF n = 0 THEN 1 ELSE 2 * f[n - 1]) \in V
    <3>1. CASE n = 0
      BY <3>1
    <3>2. CASE n # 0
      <4>1. f[n - 1] \in Nat /\ f[n - 1] # 0
        BY <3>2
      <4> QED
        BY <3>2, <4>1
    <3> QED
      BY <3>1, <3>2
  <2>3. Rule \in [Nat -> [[Nat -> V] -> V]]
    BY <2>2
  <2>4. ASSUME NEW n \in Nat, NEW f \in [Nat -> V], NEW g \in [Nat -> V],
               \A m \in Nat : mu[m] < mu[n] => f[m] = g[m]
        PROVE  Rule[n][f] = Rule[n][g]
    <3>1. n # 0 => f[n - 1] = g[n - 1]
      BY <2>1, <2>4
    <3> QED
      BY <1>1, <3>1
  <2> HIDE DEF V, mu, Rule
  <2>5. QED
    BY <2>1, <2>3, <2>4 DEF Descends
<1>3. 1 \in V
  OBVIOUS
<1> HIDE DEF mu, Rule, V
<1>4. PICK f \in [Nat -> V] : \A n \in Nat : f[n] = Rule[n][f]
  BY <1>2, <1>3, RecursionDefines
<1>5. f = [n \in Nat |-> IF n = 0 THEN 1 ELSE 2 * f[n - 1]]
  BY <1>1, <1>4
<1>6. Pow2 = [n \in Nat |-> IF n = 0 THEN 1 ELSE 2 * Pow2[n - 1]]
  BY <1>5 DEF Pow2
<1>7. QED
  <2>1. \A n \in Nat : Pow2[n] = IF n = 0 THEN 1 ELSE 2 * Pow2[n - 1]
    BY <1>6, Zenon
  <2>2. \A n \in Nat : Pow2[n] \in V
    <3> USE DEF V
    <3> DEFINE Fine == {n \in Nat : Pow2[n] \in V}
    <3>1. 0 \in Fine
      BY <2>1
    <3>2. ASSUME NEW n \in Nat, n \in Fine PROVE n + 1 \in Fine
      <4>1. n + 1 # 0 /\ n + 1 \in Nat /\ (n + 1) - 1 = n
        OBVIOUS
      <4>2. Pow2[n + 1] = 2 * Pow2[n]
        BY <2>1, <4>1
      <4> QED
        BY <3>2, <4>1, <4>2
    <3> HIDE DEF Fine
    <3>3. Nat \subseteq Fine
      BY <3>1, <3>2, NaturalsIn
    <3> QED
      BY <3>3 DEF Fine
  <2>3. Pow2 \in [Nat -> V]
    <3>1. DOMAIN Pow2 = Nat
      BY <1>6, Zenon
    <3>2. Pow2 = [n \in Nat |-> Pow2[n]]
      BY <1>6, Zenon
    <3> QED
      BY <2>2, <3>2
  <2> QED
    BY <2>1, <2>3 DEF V

LEMMA Pow2Positive ==
    ASSUME NEW n \in Nat
    PROVE  Pow2[n] \in Nat /\ Pow2[n] >= 1
<1>1. Pow2[n] \in Nat \ {0}
  BY Pow2Is
<1> QED
  BY <1>1

LEMMA Pow2Next ==
    /\ Pow2[0] = 1
    /\ \A n \in Nat : Pow2[n + 1] = 2 * Pow2[n]
<1>1. ASSUME NEW n \in Nat PROVE Pow2[n + 1] = 2 * Pow2[n]
  <2>1. n + 1 # 0 /\ n + 1 \in Nat /\ (n + 1) - 1 = n
    OBVIOUS
  <2> QED
    BY <2>1, Pow2Is
<1> QED
  BY <1>1, Pow2Is

LEMMA Pow2Sum ==
    ASSUME NEW m \in Nat
    PROVE  \A n \in Nat : Pow2[m + n] = Pow2[m] * Pow2[n]
<1> DEFINE Fine == {n \in Nat : Pow2[m + n] = Pow2[m] * Pow2[n]}
<1>0. \A n \in Nat : Pow2[n] \in Nat
  BY Pow2Positive
<1>1. 0 \in Fine
  BY <1>0, Pow2Next
<1>2. ASSUME NEW n \in Nat, n \in Fine PROVE n + 1 \in Fine
  <2>1. Pow2[(m + n) + 1] = 2 * Pow2[m + n] /\ Pow2[n + 1] = 2 * Pow2[n]
    BY Pow2Next
  <2>2. m + (n + 1) = (m + n) + 1
    OBVIOUS
  <2>3. Pow2[m] \in Nat /\ Pow2[n] \in Nat /\ 2 * (Pow2[m] * Pow2[n]) = Pow2[m] * (2 * Pow2[n])
    BY <1>0
  <2> QED
    BY <1>2, <2>1, <2>2, <2>3
<1> HIDE DEF Fine
<1>3. Nat \subseteq Fine
  BY <1>1, <1>2, NaturalsIn
<1> QED
  BY <1>3 DEF Fine

\* A smaller exponent gives a smaller power.
LEMMA Pow2Grows ==
    ASSUME NEW m \in Nat, NEW n \in Nat, m <= n
    PROVE  Pow2[m] <= Pow2[n]
<1>1. n - m \in Nat /\ n = m + (n - m)
  OBVIOUS
<1>2. Pow2[n] = Pow2[m] * Pow2[n - m]
  BY <1>1, Pow2Sum
<1>3. Pow2[m] \in Nat /\ Pow2[n - m] \in Nat /\ Pow2[n - m] >= 1
  BY <1>1, Pow2Positive
<1>4. \A a, b \in Nat : b >= 1 => a <= a * b
  OBVIOUS
<1> QED
  BY <1>2, <1>3, <1>4

LEMMA DigitsAre ==
    /\ Digits \in Nat /\ Digits >= 4 /\ SizeMax \in Nat /\ SizeMax >= 2 * Digits - 1
    /\ SizeMax + 1 = Pow2[Width]
<1>1. DigitBits \in Nat /\ DigitBits > 1 /\ Width \in Nat /\ Width > DigitBits
  BY DigitBitsAssumption, WidthAssumption
<1>2. Pow2[1] = 2 /\ Pow2[2] = 4
  <2>1. Pow2[0] = 1 /\ Pow2[0 + 1] = 2 * Pow2[0] /\ Pow2[1 + 1] = 2 * Pow2[1]
    BY Pow2Next
  <2> QED
    BY <2>1
<1>3. Pow2[2] <= Pow2[DigitBits] /\ Pow2[DigitBits + 1] <= Pow2[Width]
  BY <1>1, Pow2Grows
<1>4. Pow2[DigitBits + 1] = 2 * Pow2[DigitBits]
  BY <1>1, Pow2Next
<1>5. Pow2[DigitBits] \in Nat /\ Pow2[Width] \in Nat
  BY <1>1, Pow2Positive
<1> QED
  BY <1>2, <1>3, <1>4, <1>5 DEF Digits, SizeMax

-----------------------------------------------------------------------------
\* Division.

LEMMA Quotient ==
    ASSUME NEW n \in Nat, NEW d \in Nat, d >= 1
    PROVE  n = d * (n \div d) + (n % d) /\ n \div d \in Nat /\ n % d \in 0..(d - 1)
OBVIOUS

LEMMA QuotientLess ==
    ASSUME NEW n \in Nat, NEW d \in Nat, d >= 2, n >= d
    PROVE  n \div d - 1 \in Nat /\ n \div d - 1 < n
<1>0. d >= 1
  OBVIOUS
<1>1. PICK q \in Nat : q = n \div d /\ n = d * q + (n % d) /\ n % d \in 0..(d - 1)
  BY <1>0, Quotient
<1>2. q # 0
  BY <1>1
<1>3. q <= n
  BY <1>1
<1> QED
  BY <1>1, <1>2, <1>3

-----------------------------------------------------------------------------
\* The written form.

\* s is one number: a byte with a stop bit, and before it bytes without.
IsNumber(s) ==
    /\ s \in Seq(Byte) /\ Len(s) >= 1
    /\ \A i \in 1..(Len(s) - 1) : ~Stops(s[i])
    /\ Stops(s[Len(s)])

LEMMA ByteIs ==
    /\ \A n \in Nat : n % Digits \in Byte /\ ~Stops(n % Digits)
    /\ \A n \in Nat : n < Digits => n + Digits \in Byte /\ Stops(n + Digits)
    /\ \A n \in Nat : n >= Digits => n \div Digits - 1 \in Nat /\ n \div Digits - 1 < n
<1>1. Digits \in Nat /\ Digits >= 4
  BY DigitsAre
<1> HIDE DEF Digits
<1>2. ASSUME NEW n \in Nat PROVE n % Digits \in 0..(Digits - 1)
  BY <1>1, Quotient
<1>3. ASSUME NEW n \in Nat, n >= Digits PROVE n \div Digits - 1 \in Nat /\ n \div Digits - 1 < n
  BY <1>1, <1>3, QuotientLess
<1> QED
  BY <1>1, <1>2, <1>3 DEF Byte, Stops

LEMMA LongerNumber ==
    ASSUME NEW s, IsNumber(s), NEW b \in Byte, ~Stops(b)
    PROVE  IsNumber(<<b>> \o s) /\ Len(<<b>> \o s) = Len(s) + 1
<1> DEFINE t == <<b>> \o s
<1>1. s \in Seq(Byte) /\ <<b>> \in Seq(Byte) /\ Len(<<b>>) = 1 /\ Len(s) \in Nat /\ Len(s) >= 1
  BY DEF IsNumber
<1>2. /\ t \in Seq(Byte) /\ Len(t) = Len(s) + 1
      /\ \A i \in 1..Len(t) : t[i] = IF i = 1 THEN b ELSE s[i - 1]
  BY <1>1
<1>3. t[Len(t)] = s[Len(s)]
  BY <1>1, <1>2
<1>4. ASSUME NEW i \in 1..(Len(t) - 1) PROVE ~Stops(t[i])
  <2>1. CASE i = 1
    BY <1>1, <1>2, <2>1
  <2>2. CASE i # 1
    <3>1. i - 1 \in 1..(Len(s) - 1) /\ t[i] = s[i - 1]
      BY <1>1, <1>2, <2>2
    <3> QED
      BY <3>1 DEF IsNumber
  <2> QED
    BY <2>1, <2>2
<1> HIDE DEF t
<1>5. IsNumber(t)
  BY <1>1, <1>2, <1>3, <1>4 DEF IsNumber
<1> QED
  BY <1>2, <1>5 DEF t

\* The form of n, given the forms of smaller numbers.
Form(n, f) == IF n < Digits THEN <<n + Digits>> ELSE <<n % Digits>> \o f[n \div Digits - 1]

LEMMA FormIsNumber ==
    ASSUME NEW n \in Nat, NEW f,
           n >= Digits => IsNumber(f[n \div Digits - 1])
    PROVE  IsNumber(Form(n, f))
<1>0. Digits \in Nat
  BY DigitsAre
<1>1. CASE n < Digits
  <2>1. n + Digits \in Byte /\ Stops(n + Digits)
    BY <1>1, ByteIs
  <2> DEFINE b == n + Digits
  <2> HIDE DEF b
  <2>2. b \in Byte /\ Stops(b)
    BY <2>1 DEF b
  <2>3. IsNumber(<<b>>)
    BY <2>2 DEF IsNumber
  <2> QED
    BY <1>1, <2>3 DEF Form, b
<1>2. CASE n >= Digits
  <2>1. n % Digits \in Byte /\ ~Stops(n % Digits)
    BY ByteIs
  <2>2. IsNumber(<<n % Digits>> \o f[n \div Digits - 1])
    BY <1>2, <2>1, LongerNumber
  <2> QED
    BY <1>0, <1>2, <2>2 DEF Form
<1> QED
  BY <1>0, <1>1, <1>2

LEMMA WritenumIs ==
    /\ \A n \in Nat : writenum[n] = Form(n, writenum)
    /\ \A n \in Nat : IsNumber(writenum[n])
<1> DEFINE V == {s \in Seq(Byte) : IsNumber(s)}
           mu == [n \in Nat |-> n]
           Rule == [n \in Nat |-> [f \in [Nat -> V] |-> Form(n, f)]]
<1>0. Digits \in Nat
  BY DigitsAre
<1>1. \A n \in Nat : \A f \in [Nat -> V] : Rule[n][f] = Form(n, f)
  OBVIOUS
<1>2. \A s : s \in V <=> IsNumber(s)
  BY DEF IsNumber
<1> HIDE DEF V
<1>3. Descends(Nat, V, mu, Rule)
  <2>1. mu \in [Nat -> Nat] /\ \A n \in Nat : mu[n] = n
    OBVIOUS
  <2>2. ASSUME NEW n \in Nat, NEW f \in [Nat -> V] PROVE Form(n, f) \in V
    <3>1. n >= Digits => f[n \div Digits - 1] \in V
      BY ByteIs
    <3> QED
      BY <1>2, <3>1, FormIsNumber
  <2>3. Rule \in [Nat -> [[Nat -> V] -> V]]
    BY <2>2
  <2>4. ASSUME NEW n \in Nat, NEW f \in [Nat -> V], NEW g \in [Nat -> V],
               \A m \in Nat : mu[m] < mu[n] => f[m] = g[m]
        PROVE  Rule[n][f] = Rule[n][g]
    <3>1. n >= Digits => f[n \div Digits - 1] = g[n \div Digits - 1]
      BY <2>1, <2>4, ByteIs
    <3>2. Form(n, f) = Form(n, g)
      BY <1>0, <3>1 DEF Form
    <3> QED
      BY <1>1, <3>2
  <2> HIDE DEF mu, Rule
  <2>5. QED
    BY <2>1, <2>3, <2>4 DEF Descends
<1> HIDE DEF mu, Rule
<1>4. V # {}
  <2>1. 0 < Digits /\ 0 \in Nat
    BY DigitsAre
  <2>2. IsNumber(Form(0, <<>>))
    BY <1>0, <2>1, FormIsNumber
  <2> QED
    BY <1>2, <2>2
<1>5. PICK f \in [Nat -> V] : \A n \in Nat : f[n] = Rule[n][f]
  BY SMTT(30), <1>3, <1>4, RecursionDefines
<1>6. f = [n \in Nat |-> Form(n, f)]
  BY <1>1, <1>5
<1>7. writenum = [n \in Nat |-> Form(n, writenum)]
  BY Zenon, <1>6 DEF writenum, Form
<1>8. \A n \in Nat : writenum[n] = Form(n, writenum)
  BY <1>7, Zenon
<1>9. \A n \in Nat : IsNumber(writenum[n])
  <2> DEFINE Fine == {k \in Nat : \A n \in Nat : n <= k => IsNumber(writenum[n])}
  <2>1. ASSUME NEW k \in Nat, \A n \in Nat : n < k => IsNumber(writenum[n])
        PROVE  IsNumber(writenum[k])
    <3>1. k >= Digits => IsNumber(writenum[k \div Digits - 1])
      BY <2>1, ByteIs
    <3> QED
      BY <1>8, <3>1, FormIsNumber
  <2>2. 0 \in Fine
    BY <2>1
  <2>3. ASSUME NEW k \in Nat, k \in Fine PROVE k + 1 \in Fine
    <3>1. \A n \in Nat : n < k + 1 => IsNumber(writenum[n])
      BY <2>3
    <3>2. IsNumber(writenum[k + 1])
      BY <2>1, <3>1
    <3>3. \A n \in Nat : n <= k + 1 => n < k + 1 \/ n = k + 1
      OBVIOUS
    <3> QED
      BY <3>1, <3>2, <3>3
  <2> HIDE DEF Fine
  <2>4. Nat \subseteq Fine
    BY <2>2, <2>3, NaturalsIn
  <2> QED
    BY <2>4 DEF Fine
<1> QED
  BY <1>8, <1>9

-----------------------------------------------------------------------------
\* The reader.

Numbers == [status : {"ok", "cut", "big"}, value : Nat, at : Nat \ {0}]

\* What decodenum gives moves on, or behind the end, which is not passed by a
\* number that ends well.
NumbersFrom(s, p) ==
    {n \in Numbers : (n.at > p \/ n.at > Len(s)) /\ (n.status = "ok" => n.at <= Len(s) + 1)}

\* A turn of decodenum's loop at s[p], f standing for the turns after it.
ScanStep(s, p, c, f) ==
    IF p + c[1] > Len(s)
    THEN [status |-> "cut", value |-> c[2], at |-> Len(s) + 2]
    ELSE IF TooBig(c[2], Addend(s[p + c[1]], c[1]), Weight(c[1]))
    THEN [status |-> "big", value |-> c[2], at |-> p + c[1] + 1]
    ELSE IF Stops(s[p + c[1]])
    THEN [status |-> "ok", value |-> c[2] + Addend(s[p + c[1]], c[1]) * Weight(c[1]),
          at |-> p + c[1] + 1]
    ELSE f[<<c[1] + 1, c[2] + Addend(s[p + c[1]], c[1]) * Weight(c[1])>>]

Scan(s, p) == CHOOSE f : f = [c \in Nat \X Nat |-> ScanStep(s, p, c, f)]

LEMMA DecodenumIs ==
    ASSUME NEW s, NEW p
    PROVE  decodenum(s, p) = Scan(s, p)[<<0, 0>>]
BY Zenon DEF decodenum, Scan, ScanStep

LEMMA WeightIs ==
    ASSUME NEW k \in Nat
    PROVE  /\ (DigitBits * k) % Width \in Nat
           /\ Weight(k) \in Nat /\ Weight(k) >= 1
<1>1. DigitBits \in Nat /\ Width \in Nat /\ Width >= 1
  BY DigitBitsAssumption, WidthAssumption
<1>2. DigitBits * k \in Nat
  BY <1>1
<1>3. (DigitBits * k) % Width \in Nat
  BY <1>1, <1>2, Quotient
<1> QED
  BY <1>3, Pow2Positive DEF Weight

LEMMA AddendIs ==
    ASSUME NEW b \in Byte, NEW k \in Nat
    PROVE  /\ Addend(b, k) \in Nat
           /\ Addend(b, k) = (IF Stops(b) THEN b - Digits ELSE b) + (IF k > 0 THEN 1 ELSE 0)
<1>1. Digits \in Nat /\ Digits >= 1 /\ b \in 0..(2 * Digits - 1)
  BY DigitsAre DEF Byte
<1> DEFINE d == Digits
<1> HIDE DEF d
<1>2. d \in Nat /\ d >= 1 /\ b \in Nat /\ b < 2 * d
  BY <1>1 DEF d
<1>3. b % d = IF b >= d THEN b - d ELSE b
  <2>1. PICK q \in Nat : b = d * q + (b % d) /\ b % d \in 0..(d - 1)
    BY <1>2, Quotient
  <2>2. q < 2
    <3>1. SUFFICES ASSUME q >= 2 PROVE FALSE
      BY <2>1
    <3>2. d * q >= d * 2
      BY <1>2, <2>1, <3>1
    <3> QED
      BY <1>2, <2>1, <3>2
  <2>3. q = 0 \/ q = 1
    BY <2>1, <2>2
  <2>4. d * 0 = 0 /\ d * 1 = d
    BY <1>2
  <2> QED
    BY <1>2, <2>1, <2>3, <2>4
<1> QED
  BY <1>2, <1>3 DEF Addend, Stops, d

LEMMA ScanFollows ==
    ASSUME NEW s \in Seq(Byte), NEW p \in Nat, p >= 1
    PROVE  /\ \A c \in Nat \X Nat : Scan(s, p)[c] = ScanStep(s, p, c, Scan(s, p))
           /\ \A c \in Nat \X Nat : Scan(s, p)[c] \in NumbersFrom(s, p)
<1> DEFINE D == Nat \X Nat
           mu == [c \in D |-> IF p + c[1] > Len(s) THEN 0 ELSE Len(s) + 1 - p - c[1]]
           Rule == [c \in D |-> [f \in [D -> NumbersFrom(s, p)] |-> ScanStep(s, p, c, f)]]
<1>0. Len(s) \in Nat
  OBVIOUS
<1>1. \A c \in D : \A f \in [D -> NumbersFrom(s, p)] : Rule[c][f] = ScanStep(s, p, c, f)
  OBVIOUS
<1>2. ASSUME NEW c \in D, p + c[1] <= Len(s)
      PROVE  /\ s[p + c[1]] \in Byte
             /\ <<c[1] + 1, c[2] + Addend(s[p + c[1]], c[1]) * Weight(c[1])>> \in D
             /\ c[2] + Addend(s[p + c[1]], c[1]) * Weight(c[1]) \in Nat
  <2>1. c[1] \in Nat /\ c[2] \in Nat
    OBVIOUS
  <2>2. p + c[1] \in 1..Len(s)
    BY <1>0, <1>2, <2>1
  <2>3. s[p + c[1]] \in Byte
    BY <2>2
  <2>4. Addend(s[p + c[1]], c[1]) \in Nat /\ Weight(c[1]) \in Nat
    BY <2>1, <2>3, AddendIs, WeightIs
  <2>5. \A i, j, k \in Nat : i + j * k \in Nat
    OBVIOUS
  <2>6. c[2] + Addend(s[p + c[1]], c[1]) * Weight(c[1]) \in Nat
    BY <2>1, <2>4, <2>5
  <2> QED
    BY <2>1, <2>3, <2>6
<1>3. ASSUME NEW c \in D, NEW f \in [D -> NumbersFrom(s, p)]
      PROVE  ScanStep(s, p, c, f) \in NumbersFrom(s, p)
  <2>1. c[1] \in Nat /\ c[2] \in Nat
    OBVIOUS
  <2>2. CASE p + c[1] > Len(s)
    <3>1. [status |-> "cut", value |-> c[2], at |-> Len(s) + 2] \in NumbersFrom(s, p)
      BY <1>0, <2>1 DEF NumbersFrom, Numbers
    <3> QED
      BY <2>2, <3>1 DEF ScanStep
  <2>3. CASE p + c[1] <= Len(s)
    <3> DEFINE sum == c[2] + Addend(s[p + c[1]], c[1]) * Weight(c[1])
    <3>1. <<c[1] + 1, sum>> \in D /\ sum \in Nat
      BY <1>2, <2>3
    <3>2. f[<<c[1] + 1, sum>>] \in NumbersFrom(s, p)
      BY <3>1
    <3>3. /\ p + c[1] + 1 \in Nat \ {0} /\ ~(p + c[1] > Len(s))
          /\ p + c[1] + 1 <= Len(s) + 1 /\ p + c[1] + 1 > p
      BY <1>0, <2>1, <2>3
    <3>4. /\ [status |-> "big", value |-> c[2], at |-> p + c[1] + 1] \in NumbersFrom(s, p)
          /\ [status |-> "ok", value |-> sum, at |-> p + c[1] + 1] \in NumbersFrom(s, p)
      BY <2>1, <3>1, <3>3 DEF NumbersFrom, Numbers
    <3> QED
      BY <3>2, <3>3, <3>4 DEF ScanStep
  <2> QED
    BY <1>0, <2>1, <2>2, <2>3
<1>4. ASSUME NEW c \in D, NEW f \in [D -> NumbersFrom(s, p)], NEW g \in [D -> NumbersFrom(s, p)],
             \A e \in D : mu[e] < mu[c] => f[e] = g[e]
      PROVE  ScanStep(s, p, c, f) = ScanStep(s, p, c, g)
  <2>1. c[1] \in Nat /\ c[2] \in Nat
    OBVIOUS
  <2>2. CASE p + c[1] > Len(s)
    BY <2>2 DEF ScanStep
  <2>3. CASE p + c[1] <= Len(s)
    <3> DEFINE e == <<c[1] + 1, c[2] + Addend(s[p + c[1]], c[1]) * Weight(c[1])>>
    <3>1. e \in D /\ e[1] = c[1] + 1
      BY <1>2, <2>3
    <3> HIDE DEF e
    <3>2. mu[e] < mu[c]
      BY <1>0, <2>1, <2>3, <3>1
    <3>3. f[e] = g[e]
      BY <1>4, <3>1, <3>2
    <3> QED
      BY <3>3 DEF ScanStep, e
  <2> QED
    BY <1>0, <2>1, <2>2, <2>3
<1>5. Descends(D, NumbersFrom(s, p), mu, Rule)
  <2>1. mu \in [D -> Nat]
    <3>1. \A c \in D : (IF p + c[1] > Len(s) THEN 0 ELSE Len(s) + 1 - p - c[1]) \in Nat
      BY <1>0
    <3> QED
      BY <3>1
  <2>2. Rule \in [D -> [[D -> NumbersFrom(s, p)] -> NumbersFrom(s, p)]]
    BY <1>3
  <2>3. \A c \in D : \A f, g \in [D -> NumbersFrom(s, p)] :
            (\A e \in D : mu[e] < mu[c] => f[e] = g[e]) => Rule[c][f] = Rule[c][g]
    <3> HIDE DEF mu, D
    <3> QED
      BY <1>1, <1>4
  <2> HIDE DEF D, mu, Rule
  <2> QED
    BY <2>1, <2>2, <2>3 DEF Descends
<1> HIDE DEF mu, Rule, D
<1>6. NumbersFrom(s, p) # {}
  <2>1. [status |-> "cut", value |-> 0, at |-> p + 1] \in NumbersFrom(s, p)
    BY DEF NumbersFrom, Numbers
  <2> QED
    BY <2>1
<1>7. PICK f \in [D -> NumbersFrom(s, p)] : \A c \in D : f[c] = Rule[c][f]
  <2> DEFINE V == NumbersFrom(s, p)
  <2>1. Descends(D, V, mu, Rule) /\ V # {}
    BY <1>5, <1>6
  <2> HIDE DEF V
  <2>2. \E f \in [D -> V] : \A c \in D : f[c] = Rule[c][f]
    BY <2>1, RecursionDefines
  <2> QED
    BY <2>2 DEF V
<1>8. f = [c \in Nat \X Nat |-> ScanStep(s, p, c, f)]
  BY <1>1, <1>7 DEF D
<1> DEFINE t == Scan(s, p)
<1>9. t = [c \in Nat \X Nat |-> ScanStep(s, p, c, t)]
  BY <1>8 DEF Scan
<1>10. \A c \in Nat \X Nat : t[c] = ScanStep(s, p, c, t)
  <2> HIDE DEF t
  <2> QED
    BY <1>9
<1> HIDE DEF t
<1>11. ASSUME NEW c \in Nat \X Nat,
              \A e \in Nat \X Nat : p + c[1] <= Len(s) /\ e[1] = c[1] + 1 => t[e] \in NumbersFrom(s, p)
       PROVE  t[c] \in NumbersFrom(s, p)
  <2>0. c \in D /\ c[1] \in Nat /\ c[2] \in Nat
    BY DEF D
  <2>1. CASE p + c[1] > Len(s)
    <3>1. t[c] = ScanStep(s, p, c, t)
      BY <1>10
    <3>2. t[c] = [status |-> "cut", value |-> c[2], at |-> Len(s) + 2]
      BY <2>1, <3>1 DEF ScanStep
    <3>3. Len(s) + 2 \in Nat \ {0}
      BY <1>0
    <3> QED
      BY <1>0, <2>0, <3>2, <3>3 DEF NumbersFrom, Numbers
  <2>2. CASE p + c[1] <= Len(s)
    <3> DEFINE sum == c[2] + Addend(s[p + c[1]], c[1]) * Weight(c[1])
    <3>1. <<c[1] + 1, sum>> \in Nat \X Nat /\ sum \in Nat
      BY <1>2, <2>0, <2>2 DEF D
    <3>2. t[<<c[1] + 1, sum>>] \in NumbersFrom(s, p)
      BY <1>11, <2>2, <3>1
    <3>3. /\ p + c[1] + 1 \in Nat \ {0} /\ ~(p + c[1] > Len(s))
          /\ p + c[1] + 1 <= Len(s) + 1 /\ p + c[1] + 1 > p
      BY <1>0, <2>0, <2>2
    <3>4. /\ [status |-> "big", value |-> c[2], at |-> p + c[1] + 1] \in NumbersFrom(s, p)
          /\ [status |-> "ok", value |-> sum, at |-> p + c[1] + 1] \in NumbersFrom(s, p)
      BY <2>0, <3>1, <3>3 DEF NumbersFrom, Numbers
    <3>5. t[c] = ScanStep(s, p, c, t)
      BY <1>10
    <3> QED
      BY <3>2, <3>3, <3>4, <3>5 DEF ScanStep
  <2> QED
    BY <1>0, <2>0, <2>1, <2>2
<1>12. \A c \in Nat \X Nat : t[c] \in NumbersFrom(s, p)
  <2> DEFINE Fine == {n \in Nat : \A c \in Nat \X Nat :
                                      Len(s) < p + c[1] + n => t[c] \in NumbersFrom(s, p)}
  <2>1. 0 \in Fine
    <3>1. ASSUME NEW c \in Nat \X Nat, Len(s) < p + c[1] + 0 PROVE t[c] \in NumbersFrom(s, p)
      <4>1. ~(p + c[1] <= Len(s))
        BY <1>0, <3>1
      <4> QED
        BY <1>11, <4>1
    <3> QED
      BY <3>1
  <2>2. ASSUME NEW n \in Nat, n \in Fine PROVE n + 1 \in Fine
    <3>1. ASSUME NEW c \in Nat \X Nat, Len(s) < p + c[1] + (n + 1) PROVE t[c] \in NumbersFrom(s, p)
      <4>1. ASSUME NEW e \in Nat \X Nat, e[1] = c[1] + 1 PROVE t[e] \in NumbersFrom(s, p)
        <5>1. Len(s) < p + e[1] + n
          BY <1>0, <3>1, <4>1
        <5> QED
          BY <2>2, <5>1
      <4> QED
        BY <1>11, <4>1
    <3> QED
      BY <3>1
  <2>3. ASSUME NEW c \in Nat \X Nat PROVE \E n \in Nat : Len(s) < p + c[1] + n
    <3>1. Len(s) + 1 \in Nat /\ Len(s) < p + c[1] + (Len(s) + 1)
      BY <1>0
    <3> QED
      BY <3>1
  <2>4. Nat \subseteq Fine
    <3> HIDE DEF Fine
    <3> QED
      BY <2>1, <2>2, NaturalsIn
  <2> QED
    BY <2>3, <2>4
<1>13. QED
  BY <1>10, <1>12 DEF t

-----------------------------------------------------------------------------
\* What was written is read.

\* The number n is at s[p].
HasNumber(s, p, n) ==
    /\ p + Len(writenum[n]) - 1 <= Len(s)
    /\ \A i \in 1..Len(writenum[n]) : s[p + i - 1] = writenum[n][i]

\* No shift of a digit of a number that fits is as wide as the register.
LEMMA WeightFits ==
    ASSUME NEW k \in Nat, NEW x \in Nat, k > 0 => x >= 1,
           x * Pow2[DigitBits * k] <= SizeMax
    PROVE  Weight(k) = Pow2[DigitBits * k]
<1>1. DigitBits \in Nat /\ Width \in Nat /\ Width >= 1
  BY DigitBitsAssumption, WidthAssumption
<1>2. DigitBits * k \in Nat
  BY <1>1
<1>3. Pow2[DigitBits * k] \in Nat /\ Pow2[DigitBits * k] >= 1
  BY <1>2, Pow2Positive
<1>4. DigitBits * k < Width
  <2>1. CASE k = 0
    BY <1>1, <2>1
  <2>2. CASE k > 0
    <3> SUFFICES ASSUME Width <= DigitBits * k PROVE FALSE
      BY <1>1, <1>2
    <3>1. Pow2[Width] <= Pow2[DigitBits * k]
      BY <1>1, <1>2, Pow2Grows
    <3>2. SizeMax \in Nat /\ SizeMax + 1 = Pow2[Width]
      BY DigitsAre
    <3>3. \A y \in Nat : y <= x * y
      BY <2>2
    <3>4. Pow2[DigitBits * k] <= x * Pow2[DigitBits * k]
      BY <1>3, <3>3
    <3> DEFINE y == Pow2[DigitBits * k]
    <3>5. y \in Nat /\ x * y \in Nat /\ Pow2[Width] <= y /\ y <= x * y /\ x * y <= SizeMax
      BY <1>3, <3>1, <3>4
    <3> HIDE DEF y
    <3> QED
      BY <3>2, <3>5
  <2> QED
    BY <2>1, <2>2
<1>5. (DigitBits * k) % Width = DigitBits * k
  BY <1>1, <1>2, <1>4
<1> QED
  BY <1>5 DEF Weight

LEMMA NotTooBig ==
    ASSUME NEW sum \in Nat, NEW add \in Nat, NEW k \in Nat, sum + add * Weight(k) <= SizeMax
    PROVE  ~TooBig(sum, add, Weight(k))
<1>1. Weight(k) \in Nat /\ Weight(k) >= 1 /\ SizeMax \in Nat
  BY WeightIs, DigitsAre
<1> DEFINE w == Weight(k)
           m == SizeMax
<1> HIDE DEF w, m
<1>2. w \in Nat /\ w >= 1 /\ m \in Nat /\ sum + add * w <= m
  BY <1>1 DEF w, m
<1>3. add <= m \div w
  <2>1. PICK q \in Nat : q = m \div w /\ m = w * q + (m % w) /\ m % w \in 0..(w - 1)
    BY <1>2, Quotient
  <2> SUFFICES ASSUME add >= q + 1 PROVE FALSE
    BY <2>1
  <2>2. add * w >= (q + 1) * w
    BY <1>2, <2>1
  <2>3. (q + 1) * w = w * q + w /\ w * q \in Nat /\ add * w \in Nat
    BY <1>2, <2>1
  <2> QED
    BY <1>2, <2>1, <2>2, <2>3
<1>4. add * w \in Nat
  BY <1>2
<1> QED
  BY <1>2, <1>3, <1>4 DEF TooBig, w, m

\* A number that was read.
Good(n, after) == [status |-> "ok", value |-> n, at |-> after]

\* The place behind the number n at p.
After(p, n) == p + Len(writenum[n])

\* What the digits before k and the number m behind them come to.
TotalOf(k, sum, m) == sum + (m + (IF k > 0 THEN 1 ELSE 0)) * Pow2[DigitBits * k]

LEMMA LastDigit ==
    ASSUME NEW s \in Seq(Byte), NEW p \in Nat, p >= 1,
           NEW m \in Nat, NEW k \in Nat, NEW sum \in Nat, m < Digits,
           HasNumber(s, p + k, m), TotalOf(k, sum, m) <= SizeMax
    PROVE  Scan(s, p)[<<k, sum>>] =
               Good(TotalOf(k, sum, m), After(p + k, m))
<1> DEFINE c == IF k > 0 THEN 1 ELSE 0
<1>0. Digits \in Nat /\ Len(s) \in Nat /\ c \in Nat /\ DigitBits * k \in Nat /\ (k > 0 => c = 1)
  BY DigitsAre, DigitBitsAssumption
<1>1. writenum[m] = <<m + Digits>>
  BY WritenumIs DEF Form
<1>2. p + k <= Len(s) /\ s[p + k] = m + Digits
  <2>1. Len(writenum[m]) = 1 /\ writenum[m][1] = m + Digits
    BY <1>1
  <2> QED
    BY <2>1 DEF HasNumber
<1>3. m + Digits \in Byte /\ Stops(m + Digits)
  BY ByteIs
<1>4. Addend(s[p + k], k) = m + c
  <2> DEFINE b == m + Digits
  <2>1. b \in Byte /\ Stops(b) /\ b - Digits = m /\ s[p + k] = b
    BY <1>0, <1>2, <1>3
  <2> HIDE DEF b
  <2>2. Addend(b, k) = (b - Digits) + c
    BY <2>1, AddendIs
  <2> QED
    BY <2>1, <2>2
<1>5. Pow2[DigitBits * k] \in Nat
  BY <1>0, Pow2Positive
<1>6. (m + c) * Pow2[DigitBits * k] \in Nat /\ TotalOf(k, sum, m) = sum + (m + c) * Pow2[DigitBits * k]
  BY <1>0, <1>5 DEF TotalOf
<1>6a. (m + c) * Pow2[DigitBits * k] <= SizeMax /\ SizeMax \in Nat
  BY <1>6, DigitsAre
<1>7. Weight(k) = Pow2[DigitBits * k]
  <2>1. m + c \in Nat /\ (k > 0 => m + c >= 1)
    BY <1>0
  <2> HIDE DEF c
  <2> QED
    BY <1>6a, <2>1, WeightFits
<1>8. ~TooBig(sum, m + c, Weight(k))
  <2>1. m + c \in Nat
    BY <1>0
  <2> HIDE DEF c
  <2> QED
    BY <1>6, <1>7, <2>1, NotTooBig
<1>9. <<k, sum>> \in Nat \X Nat
  OBVIOUS
<1>10. Scan(s, p)[<<k, sum>>] = ScanStep(s, p, <<k, sum>>, Scan(s, p))
  BY <1>9, ScanFollows
<1>11. ~(p + k > Len(s)) /\ Len(writenum[m]) = 1
  BY <1>0, <1>1, <1>2
<1> HIDE DEF c
<1> QED
  BY <1>2, <1>3, <1>4, <1>6, <1>7, <1>8, <1>10, <1>11 DEF ScanStep, Good, After

LEMMA NextDigit ==
    ASSUME NEW s \in Seq(Byte), NEW p \in Nat, p >= 1,
           NEW m \in Nat, NEW k \in Nat, NEW sum \in Nat, m >= Digits,
           HasNumber(s, p + k, m), TotalOf(k, sum, m) <= SizeMax
    PROVE  \E left \in Nat :
              /\ Scan(s, p)[<<k, sum>>] = Scan(s, p)[<<k + 1, left>>]
              /\ HasNumber(s, p + (k + 1), m \div Digits - 1)
              /\ TotalOf(k + 1, left, m \div Digits - 1) = TotalOf(k, sum, m)
              /\ Len(writenum[m]) = Len(writenum[m \div Digits - 1]) + 1
<1> DEFINE c == IF k > 0 THEN 1 ELSE 0
           n == m \div Digits - 1
           W == Pow2[DigitBits * k]
           left == sum + ((m % Digits) + c) * W
<1>0. /\ Digits \in Nat /\ Digits >= 1 /\ Len(s) \in Nat /\ c \in Nat /\ (k > 0 => c = 1)
      /\ DigitBits \in Nat /\ DigitBits * k \in Nat
  BY DigitsAre, DigitBitsAssumption
<1>1. n \in Nat /\ n < m
  BY ByteIs
<1>2. writenum[m] = <<m % Digits>> \o writenum[n]
  <2>1. ~(m < Digits)
    BY <1>0
  <2> QED
    BY <2>1, WritenumIs DEF Form
<1>3. writenum[n] \in Seq(Byte) /\ Len(writenum[n]) \in Nat
  BY <1>1, WritenumIs DEF IsNumber
<1>4. m % Digits \in Byte /\ ~Stops(m % Digits)
  BY ByteIs
<1>5. /\ Len(writenum[m]) = Len(writenum[n]) + 1
      /\ writenum[m][1] = m % Digits
      /\ \A i \in 1..Len(writenum[n]) : writenum[m][i + 1] = writenum[n][i]
  <2> DEFINE d == m % Digits
             t == writenum[n]
  <2>1. d \in Byte /\ t \in Seq(Byte) /\ writenum[m] = <<d>> \o t
    BY <1>2, <1>3, <1>4
  <2> HIDE DEF d, t
  <2>2. /\ Len(<<d>> \o t) = Len(t) + 1 /\ (<<d>> \o t)[1] = d
        /\ \A i \in 1..Len(t) : (<<d>> \o t)[i + 1] = t[i]
    BY <2>1
  <2> QED
    BY <2>1, <2>2 DEF d, t
<1>6. p + k <= Len(s) /\ s[p + k] = m % Digits /\ HasNumber(s, p + (k + 1), n)
  <2>1. p + k + (Len(writenum[n]) + 1) - 1 <= Len(s)
    BY <1>5 DEF HasNumber
  <2>2. p + k <= Len(s) /\ p + (k + 1) + Len(writenum[n]) - 1 <= Len(s)
    <3> DEFINE N == Len(writenum[n])
    <3>1. N \in Nat /\ p + k + (N + 1) - 1 <= Len(s)
      BY <1>3, <2>1
    <3> HIDE DEF N
    <3>2. p + k <= Len(s) /\ p + (k + 1) + N - 1 <= Len(s)
      BY <1>0, <3>1
    <3> QED
      BY <3>2 DEF N
  <2>3. s[p + k] = m % Digits
    <3>1. 1 \in 1..Len(writenum[m]) /\ p + k + 1 - 1 = p + k
      BY <1>3, <1>5
    <3> QED
      BY <1>5, <3>1 DEF HasNumber
  <2>4. ASSUME NEW i \in 1..Len(writenum[n]) PROVE s[p + (k + 1) + i - 1] = writenum[n][i]
    <3>1. i + 1 \in 1..Len(writenum[m]) /\ p + k + (i + 1) - 1 = p + (k + 1) + i - 1
      <4>1. PICK N : N = Len(writenum[n])
        OBVIOUS
      <4>2. N \in Nat /\ i \in 1..N
        BY <1>3, <4>1
      <4>3. i + 1 \in 1..(N + 1) /\ p + k + (i + 1) - 1 = p + (k + 1) + i - 1
        BY <1>0, <4>2
      <4>4. Len(writenum[m]) = N + 1
        BY <1>5, <4>1
      <4> QED
        BY <4>3, <4>4
    <3>2. s[p + k + (i + 1) - 1] = writenum[m][i + 1]
      BY <3>1 DEF HasNumber
    <3> QED
      BY <1>5, <3>1, <3>2
  <2> HIDE DEF n
  <2> QED
    BY <2>2, <2>3, <2>4 DEF HasNumber
<1>7. Addend(s[p + k], k) = (m % Digits) + c /\ m % Digits \in Nat
  <2>1. m % Digits \in Nat
    BY <1>0
  <2> QED
    BY <1>0, <1>4, <1>6, <2>1, AddendIs
<1>8. W \in Nat /\ W >= 1
  BY <1>0, Pow2Positive
<1>9. /\ left \in Nat
      /\ TotalOf(k + 1, left, n) = TotalOf(k, sum, m)
      /\ left <= TotalOf(k, sum, m)
      /\ (m + c) * W \in Nat /\ TotalOf(k, sum, m) = sum + (m + c) * W
  <2>1. DigitBits * (k + 1) = DigitBits * k + DigitBits
    BY <1>0
  <2>2. Pow2[DigitBits * (k + 1)] = W * Digits
    BY <1>0, <2>1, Pow2Sum DEF Digits
  <2>3. PICK q \in Nat : q = m \div Digits /\ m = Digits * q + (m % Digits)
    BY <1>0, Quotient
  <2>4. n + 1 = q
    BY <2>3
  <2>5. TotalOf(k + 1, left, n) = left + q * (W * Digits)
    <3>1. k + 1 > 0
      OBVIOUS
    <3> HIDE DEF left, n, W
    <3> QED
      BY <2>2, <2>4, <3>1 DEF TotalOf
  <2>6. TotalOf(k, sum, m) = sum + (m + c) * W
    BY DEF TotalOf
  <2> DEFINE D == Digits
             r == m % Digits
  <2>7. D \in Nat /\ r \in Nat /\ m = D * q + r /\ left = sum + (r + c) * W
    BY <1>0, <1>7, <2>3
  <2> HIDE DEF D, r, W, left, c, n
  <2>8. c \in Nat /\ W \in Nat
    BY <1>0, <1>8
  <2>9. (m + c) * W = (r + c) * W + q * (W * D)
    BY <2>7, <2>8
  <2>10. (r + c) * W \in Nat /\ q * (W * D) \in Nat
    BY <2>7, <2>8
  <2>11. q * (W * D) = q * (W * Digits)
    BY DEF D
  <2>12. PICK a, e \in Nat : a = (r + c) * W /\ e = q * (W * D)
    BY <2>10
  <2>13. PICK f : f = (m + c) * W
    OBVIOUS
  <2>14. PICK t1, t0 : t1 = TotalOf(k + 1, left, n) /\ t0 = TotalOf(k, sum, m)
    OBVIOUS
  <2>15. f = a + e
    BY Zenon, <2>9, <2>12, <2>13
  <2>16. t1 = left + e
    BY Zenon, <2>5, <2>11, <2>12, <2>14
  <2>17. t0 = sum + f
    BY Zenon, <2>6, <2>13, <2>14
  <2>18. left = sum + a
    BY Zenon, <2>7, <2>12
  <2>19. left \in Nat /\ t1 = t0 /\ left <= t0 /\ f \in Nat
    <3>1. sum \in Nat
      OBVIOUS
    <3> QED
      BY <2>15, <2>16, <2>17, <2>18, <3>1
  <2> QED
    BY Zenon, <2>13, <2>14, <2>17, <2>19
<1>10. Weight(k) = W
  <2>1. m + c \in Nat /\ (k > 0 => m + c >= 1) /\ (m + c) * W <= SizeMax
    BY <1>0, <1>9, DigitsAre
  <2> HIDE DEF c
  <2> QED
    BY <2>1, WeightFits
<1>11. ~TooBig(sum, (m % Digits) + c, Weight(k))
  <2>1. (m % Digits) + c \in Nat
    BY <1>0, <1>7
  <2>2. left <= SizeMax
    BY <1>9, DigitsAre
  <2> DEFINE add == (m % Digits) + c
  <2>3. add \in Nat /\ sum + add * Weight(k) <= SizeMax
    BY <1>10, <2>1, <2>2
  <2> HIDE DEF add
  <2>4. ~TooBig(sum, add, Weight(k))
    BY <2>3, NotTooBig
  <2> QED
    BY <2>4 DEF add
<1>12. Scan(s, p)[<<k, sum>>] = ScanStep(s, p, <<k, sum>>, Scan(s, p))
  BY ScanFollows
<1>13. ~(p + k > Len(s))
  BY <1>0, <1>6
<1>14. Scan(s, p)[<<k, sum>>] = Scan(s, p)[<<k + 1, left>>]
  <2> HIDE DEF c, W
  <2> QED
    BY <1>4, <1>6, <1>7, <1>10, <1>11, <1>12, <1>13 DEF ScanStep
<1> QED
  <2> HIDE DEF left, n
  <2>1. left \in Nat /\ Scan(s, p)[<<k, sum>>] = Scan(s, p)[<<k + 1, left>>]
    BY <1>9, <1>14
  <2> QED
    BY <1>5, <1>6, <1>9, <2>1 DEF n

LEMMA ScanReads ==
    ASSUME NEW s \in Seq(Byte), NEW p \in Nat, p >= 1
    PROVE  \A m \in Nat : \A k, sum \in Nat :
              HasNumber(s, p + k, m) /\ TotalOf(k, sum, m) <= SizeMax =>
                  Scan(s, p)[<<k, sum>>] =
                      Good(TotalOf(k, sum, m), After(p + k, m))
<1> DEFINE Reads(m) ==
        \A k, sum \in Nat :
            HasNumber(s, p + k, m) /\ TotalOf(k, sum, m) <= SizeMax =>
                Scan(s, p)[<<k, sum>>] =
                    Good(TotalOf(k, sum, m), After(p + k, m))
           Fine == {b \in Nat : \A m \in Nat : m <= b => Reads(m)}
<1>1. ASSUME NEW m \in Nat, \A n \in Nat : n < m => Reads(n) PROVE Reads(m)
  <2> SUFFICES ASSUME NEW k \in Nat, NEW sum \in Nat,
                      HasNumber(s, p + k, m), TotalOf(k, sum, m) <= SizeMax
               PROVE  Scan(s, p)[<<k, sum>>] =
                          Good(TotalOf(k, sum, m), After(p + k, m))
    OBVIOUS
  <2> HIDE DEF Reads
  <2>1. CASE m < Digits
    <3>1. HasNumber(s, p + k, m) /\ TotalOf(k, sum, m) <= SizeMax /\ m < Digits /\ p >= 1
      BY <2>1
    <3> HIDE DEF Fine
    <3> QED
      BY <3>1, LastDigit
  <2>2. CASE m >= Digits
    <3>1. PICK left \in Nat :
              /\ Scan(s, p)[<<k, sum>>] = Scan(s, p)[<<k + 1, left>>]
              /\ HasNumber(s, p + (k + 1), m \div Digits - 1)
              /\ TotalOf(k + 1, left, m \div Digits - 1) = TotalOf(k, sum, m)
              /\ Len(writenum[m]) = Len(writenum[m \div Digits - 1]) + 1
      BY ZenonT(40), <2>2, NextDigit
    <3> DEFINE n == m \div Digits - 1
    <3>2. n \in Nat /\ n < m
      BY <2>2, ByteIs
    <3>3. Reads(n)
      BY <1>1, <3>2
    <3> HIDE DEF n
    <3> USE DEF Reads
    <3>4. HasNumber(s, p + (k + 1), n) /\ TotalOf(k + 1, left, n) <= SizeMax
      BY <3>1 DEF n
    <3>5. k + 1 \in Nat
      OBVIOUS
    <3>6. Scan(s, p)[<<k + 1, left>>] =
              Good(TotalOf(k + 1, left, n), After(p + (k + 1), n))
      BY <3>3, <3>4, <3>5
    <3>7. Len(writenum[n]) \in Nat
      BY <3>2, WritenumIs DEF IsNumber
    <3>8. After(p + (k + 1), n) = After(p + k, m)
      <4>1. Len(writenum[m]) = Len(writenum[n]) + 1
        BY <3>1 DEF n
      <4>2. \A i, j \in Nat : i = j + 1 => p + (k + 1) + j = p + k + i
        OBVIOUS
      <4>3. Len(writenum[m]) \in Nat
        BY WritenumIs DEF IsNumber
      <4> QED
        BY <3>7, <4>1, <4>2, <4>3 DEF After
    <3>9. TotalOf(k + 1, left, n) = TotalOf(k, sum, m)
      BY <3>1 DEF n
    <3> QED
      BY <3>1, <3>6, <3>8, <3>9
  <2> QED
    BY <2>1, <2>2, DigitsAre
<1> HIDE DEF Reads
<1>2. 0 \in Fine
  BY <1>1
<1>3. ASSUME NEW b \in Nat, b \in Fine PROVE b + 1 \in Fine
  <2>1. \A n \in Nat : n < b + 1 => Reads(n)
    BY <1>3
  <2>2. Reads(b + 1)
    BY <1>1, <2>1
  <2>3. \A n \in Nat : n <= b + 1 => n < b + 1 \/ n = b + 1
    OBVIOUS
  <2> QED
    BY <2>1, <2>2, <2>3
<1> HIDE DEF Fine
<1>4. Nat \subseteq Fine
  BY <1>2, <1>3, NaturalsIn
<1> QED
  BY <1>4 DEF Fine, Reads

\* decodenum is total on bytes.
LEMMA DecodenumTotal ==
    ASSUME NEW s \in Seq(Byte), NEW p \in Nat, p >= 1
    PROVE  /\ decodenum(s, p) \in Numbers
           /\ decodenum(s, p).at > p \/ decodenum(s, p).at > Len(s)
           /\ decodenum(s, p).status = "ok" => decodenum(s, p).at <= Len(s) + 1
<1>1. decodenum(s, p) \in NumbersFrom(s, p)
  BY DecodenumIs, ScanFollows
<1> QED
  BY <1>1 DEF NumbersFrom

\* decodenum reads what writenum wrote, and stops behind it, for every number
\* that fits a size_t.
LEMMA DecodesWritten ==
    ASSUME NEW s \in Seq(Byte), NEW p \in Nat, p >= 1, NEW n \in Nat, n <= SizeMax,
           HasNumber(s, p, n)
    PROVE  decodenum(s, p) = Good(n, After(p, n))
<1>1. p + 0 = p
  OBVIOUS
<1>2. TotalOf(0, 0, n) = n
  <2>1. DigitBits * 0 = 0
    BY DigitBitsAssumption
  <2>2. TotalOf(0, 0, n) = 0 + (n + 0) * Pow2[0]
    BY <2>1 DEF TotalOf
  <2> QED
    BY <2>2, Pow2Next
<1>3. Scan(s, p)[<<0, 0>>] = Good(n, After(p + 0, n))
  BY <1>1, <1>2, ScanReads
<1> QED
  BY <1>1, <1>3, DecodenumIs

-----------------------------------------------------------------------------
\* Applying a patch.

\* What bps_apply allocates for a caller it gives an output to.
Owed == {"out"} \cup (IF wanted /\ SizeMeta(patch).value > 0 THEN {"metadata"} ELSE {})

Accepted == accept /\ error \in {"bps_to_output", "bps_not_this"}

\* The input was the right one, or it was accepted and the error says so.
InputSettled ==
    /\ Intact
    /\ outlen = SizeOut(patch).value
    /\ (error = "bps_ok" /\ InputMatches) \/ Accepted

Given ==
    /\ InputSettled /\ live = Owed /\ Len(out) = outlen
    /\ error = "bps_ok" => Crc(out) = patch.crcOut

Refused == error # "bps_ok" /\ live = {} /\ outlen = 0

\* The strengthening of BuffersHandedOver and SuccessIsVerified: what holds at
\* each place of the call.
ApplyInv ==
    /\ apc \in {"idle", "check"} => live = {} /\ outlen = 0
    /\ apc \in {"metadata", "commands"} => InputSettled
    /\ apc = "metadata" => live = {"out"}
    /\ apc = "commands" => live = Owed
    /\ apc = "exit" => error # "bps_ok"
    /\ apc = "done" => Given \/ Refused

-----------------------------------------------------------------------------
LEMMA ApplyBegins == Init => ApplyInv
BY DEF Init, ApplyInit, ApplyInv

\* None of the errors that end a call is bps_ok.
LEMMA ErrorsAreErrors ==
    /\ \A number : "bps_ok" \notin NumberErrors(number)
    /\ "bps_ok" \notin SizeErrors
    /\ WrongInputError \in {"bps_to_output", "bps_not_this"}
    /\ "bps_ok" \notin CommandErrors
<1>1. \A number : "bps_ok" \notin NumberErrors(number)
  BY DEF NumberErrors
<1>2. "bps_ok" \notin SizeErrors
  BY DEF SizeErrors
<1>3. WrongInputError \in {"bps_to_output", "bps_not_this"}
  BY DEF WrongInputError
<1>4. "bps_ok" \notin CommandErrors
  BY <1>1 DEF CommandErrors
<1> QED
  BY <1>1, <1>2, <1>3, <1>4

LEMMA HeaderKeeps ==
    ASSUME ApplyInv, BadPatch \/ BadSize \/ WrongInput \/ OpenOutput \/ BadMetadata \/ ReadMetadata
    PROVE  ApplyInv'
<1> USE DEF ApplyInv, args, cursors
<1>1. CASE BadPatch
  BY <1>1 DEF BadPatch, Fail
<1>2. CASE BadSize
  BY <1>2, ErrorsAreErrors DEF BadSize, Fail
<1>3. CASE WrongInput
  BY <1>3, ErrorsAreErrors DEF WrongInput, Fail
<1>4. CASE OpenOutput
  <2>1. Intact' /\ (InputMatches' <=> InputMatches) /\ outlen' = SizeOut(patch').value
    BY <1>4 DEF OpenOutput, SizesRead, Intact, InputMatches
  <2>2. (error' = "bps_ok" /\ InputMatches') \/ Accepted'
    BY <1>4, <2>1, ErrorsAreErrors DEF OpenOutput, Accepted
  <2> QED
    BY <1>4, <2>1, <2>2 DEF OpenOutput, InputSettled
<1>5. CASE BadMetadata
  BY <1>5, ErrorsAreErrors DEF BadMetadata, Fail
<1>6. CASE ReadMetadata
  <2>1. InputSettled'
    BY <1>6 DEF ReadMetadata, InputSettled, Intact, InputMatches, Accepted
  <2>2. live' = Owed'
    BY <1>6 DEF ReadMetadata, Owed
  <2> QED
    BY <1>6, <2>1, <2>2 DEF ReadMetadata
<1> QED
  BY <1>1, <1>2, <1>3, <1>4, <1>5, <1>6

LEMMA CommandKeeps ==
    ASSUME ApplyInv, DoSourceRead \/ DoTargetRead \/ DoSourceCopy \/ DoTargetCopy
    PROVE  ApplyInv'
<1>1. /\ apc = "commands" /\ apc' = apc
      /\ UNCHANGED <<patch, in, wanted, accept, outlen, error, live>>
  BY DEF DoSourceRead, DoTargetRead, DoSourceCopy, DoTargetCopy, More, args
<1>2. InputSettled'
  BY <1>1 DEF ApplyInv, InputSettled, Intact, InputMatches, Accepted
<1>3. live' = Owed'
  BY <1>1 DEF ApplyInv, Owed
<1> QED
  BY <1>1, <1>2, <1>3 DEF ApplyInv

LEMMA EndKeeps ==
    ASSUME ApplyInv, BadCommand \/ Incomplete \/ WrongOutput \/ Return \/ Cleanup
    PROVE  ApplyInv'
<1> USE DEF ApplyInv, args, cursors
<1>1. CASE BadCommand
  BY <1>1, ErrorsAreErrors DEF BadCommand, Fail
<1>2. CASE Incomplete
  BY <1>2 DEF Incomplete, Fail
<1>3. CASE WrongOutput
  <2>1. CASE accept
    <3>1. InputSettled'
      BY <1>3, <2>1 DEF WrongOutput, InputSettled, Intact, Accepted
    <3>2. live' = Owed' /\ Len(out') = outlen' /\ error' # "bps_ok"
      BY <1>3 DEF WrongOutput, Owed, Complete
    <3> QED
      BY <1>3, <2>1, <3>1, <3>2 DEF WrongOutput, Given
  <2>2. CASE ~accept
    BY <1>3, <2>2 DEF WrongOutput
  <2> QED
    BY <2>1, <2>2
<1>4. CASE Return
  <2>1. InputSettled'
    BY <1>4 DEF Return, InputSettled, Intact, InputMatches, Accepted
  <2>2. live' = Owed' /\ Len(out') = outlen' /\ Crc(out') = patch'.crcOut
    BY <1>4 DEF Return, Owed, Complete
  <2> QED
    BY <1>4, <2>1, <2>2 DEF Return, Given
<1>5. CASE Cleanup
  BY <1>5 DEF Cleanup, Refused
<1> QED
  BY <1>1, <1>2, <1>3, <1>4, <1>5

\* Of a call that went astray nothing is said.
Strays == MetadataAstray \/ SourceCopyAstray \/ NumberAstray

LEMMA StraysGo == ASSUME Strays PROVE GoAstray /\ apc \in {"check", "metadata", "commands"}
BY DEF Strays, MetadataAstray, SourceCopyAstray, NumberAstray, More

LEMMA StrayKeeps == ASSUME ApplyInv, Strays PROVE ApplyInv'
BY StraysGo DEF GoAstray, ApplyInv

\* A caller begins calls when none runs, and frees what an ended one left.
LEMMA CallerKeeps ==
    ASSUME ApplyInv, ApplyCreated \/ ApplyForeign \/ FreeOutput PROVE ApplyInv'
<1>1. ASSUME NEW p, NEW i, NEW w, NEW a, bps_apply(p, i, w, a) PROVE ApplyInv'
  BY <1>1 DEF bps_apply, ApplyInv, Refused, cursors
<1>2. CASE FreeOutput
  BY <1>2 DEF FreeOutput, ApplyInv
<1> QED
  BY <1>1, <1>2 DEF ApplyCreated, ApplyForeign

LEMMA OthersKeep == ASSUME ApplyInv, UNCHANGED applyVars PROVE ApplyInv'
BY DEF ApplyInv, applyVars, Given, Refused, InputSettled, Intact, InputMatches, Accepted, Owed

LEMMA ApplyNext == ApplyInv /\ [Next]_vars => ApplyInv'
<1> SUFFICES ASSUME ApplyInv, [Next]_vars PROVE ApplyInv'
  OBVIOUS
<1>1. CASE Applying
  BY <1>1, HeaderKeeps, CommandKeeps, EndKeeps, StrayKeeps DEF Applying, ApplyStep, Strays
<1>2. CASE ApplyCreated \/ ApplyForeign \/ FreeOutput
  BY <1>2, CallerKeeps
<1>3. CASE Create \/ Creating \/ FreePatch \/ UNCHANGED vars
  BY <1>3, OthersKeep DEF Create, Creating, FreePatch, vars
<1> QED
  BY <1>1, <1>2, <1>3 DEF Next

-----------------------------------------------------------------------------
\* However bps_apply ends, for any patch, its caller has exactly the buffers
\* that the returned value promises (the label exit, and the returns past it).
THEOREM BuffersGiven == Spec => []BuffersHandedOver
<1>1. ApplyInv => BuffersHandedOver
  BY DEF ApplyInv, Given, Refused, InputSettled, Accepted, Owed, BuffersHandedOver
<1> QED
  BY <1>1, ApplyBegins, ApplyNext, PTL DEF Spec

\* bps_apply returns bps_ok only for a patch, an input and an output with the
\* sizes and checksums that the patch gives, whatever the checksum function.
THEOREM SuccessVerified == Spec => []SuccessIsVerified
<1>1. ApplyInv => SuccessIsVerified
  BY DEF ApplyInv, Given, Refused, InputSettled, Accepted, SuccessIsVerified
<1> QED
  BY <1>1, ApplyBegins, ApplyNext, PTL DEF Spec

-----------------------------------------------------------------------------
\* The searches of bps_create_linear's loop.

LEMMA LeastIs ==
    ASSUME NEW C, C \subseteq Nat, C # {}
    PROVE  Min(C) \in C /\ \A k \in C : Min(C) <= k
<1>1. \E m \in C : \A k \in C : m <= k
  BY LeastNatural
<1> QED
  BY <1>1 DEF Min

\* The arguments and the loop's offset.
Offsets ==
    /\ source \in Seq(Byte) /\ target \in Seq(Byte)
    /\ at \in 0..Len(target) /\ lastknownchange \in 0..Len(target)

LEMMA SourceEndIs ==
    ASSUME Offsets
    PROVE  /\ SourceEnd \in Nat /\ SourceEnd <= Len(source) /\ SourceEnd <= Len(target)
           /\ SourceEnd = Len(source) \/ SourceEnd = Len(target)
           /\ Len(source) \in Nat /\ Len(target) \in Nat /\ at \in Nat /\ at <= Len(target)
BY DEF Offsets, SourceEnd

LEMMA UnchangedIs ==
    ASSUME Offsets
    PROVE  /\ Unchanged \in Nat /\ at + Unchanged <= Len(target)
           /\ \A j \in 0..(Unchanged - 1) : at + j < SourceEnd /\ S(at + j) = T(at + j)
           /\ at + Unchanged >= SourceEnd \/ S(at + Unchanged) # T(at + Unchanged)
<1> DEFINE Stop(n) == at + n >= SourceEnd \/ S(at + n) # T(at + n)
           C == {n \in 0..Len(target) : Stop(n)}
<1>0. /\ SourceEnd \in Nat /\ SourceEnd <= Len(target)
      /\ Len(target) \in Nat /\ at \in Nat /\ at <= Len(target)
  BY SourceEndIs
<1>1. C \subseteq Nat /\ Len(target) \in C
  BY <1>0
<1>2. Unchanged = Min(C)
  BY DEF Unchanged
<1>3. Unchanged \in C /\ \A k \in C : Unchanged <= k
  <2> HIDE DEF C
  <2> QED
    BY <1>1, <1>2, LeastIs
<1>4. Unchanged \in 0..Len(target) /\ Stop(Unchanged)
  BY <1>3
<1>5. ASSUME NEW j \in 0..(Unchanged - 1) PROVE at + j < SourceEnd /\ S(at + j) = T(at + j)
  <2>1. j \in 0..Len(target) /\ ~(Unchanged <= j)
    BY <1>0, <1>4
  <2>2. ~Stop(j)
    BY <1>3, <2>1
  <2> QED
    BY <1>0, <2>1, <2>2
<1>6. at + Unchanged <= Len(target)
  <2>1. CASE Unchanged = 0
    BY <1>0, <2>1
  <2>2. CASE Unchanged # 0
    <3>1. Unchanged - 1 \in 0..(Unchanged - 1)
      BY <1>4, <2>2
    <3>2. at + (Unchanged - 1) < SourceEnd
      BY <1>5, <3>1
    <3> QED
      BY <1>0, <1>4, <3>2
  <2> QED
    BY <2>1, <2>2
<1> QED
  BY <1>4, <1>5, <1>6

\* What is left of the last change.
Known == IF lastknownchange > at THEN lastknownchange - at ELSE 0

LEMMA ChangedIs ==
    ASSUME Offsets
    PROVE  /\ Changed \in Nat /\ at + Changed <= Len(target) /\ Known <= Changed
           /\ \A j \in Known..(Changed - 1) : Differs(at + j)
           /\ at + Changed >= Len(target) \/ ~Differs(at + Changed)
<1> DEFINE Stop(n) == at + n >= Len(target) \/ ~Differs(at + n)
           C == {n \in Known..Len(target) : Stop(n)}
<1>0. /\ Len(target) \in Nat /\ at \in Nat /\ at <= Len(target)
      /\ Known \in Nat /\ at + Known <= Len(target)
  BY DEF Offsets, Known
<1>1. C \subseteq Nat /\ Len(target) - at \in C
  <2>1. Len(target) - at \in Known..Len(target) /\ at + (Len(target) - at) >= Len(target)
    BY <1>0
  <2>2. \A n \in Known..Len(target) : n \in Nat
    BY <1>0
  <2> QED
    BY <2>1, <2>2
<1>2. Changed = Min(C)
  BY DEF Changed, Known
<1>3. Changed \in C /\ \A k \in C : Changed <= k
  <2> HIDE DEF C
  <2> QED
    BY <1>1, <1>2, LeastIs
<1>4. Changed \in Known..Len(target) /\ Stop(Changed) /\ Changed <= Len(target) - at
  BY <1>1, <1>3
<1>5. ASSUME NEW j \in Known..(Changed - 1) PROVE Differs(at + j)
  <2>1. j \in Known..Len(target) /\ ~(Changed <= j)
    BY <1>0, <1>4
  <2>2. ~Stop(j)
    BY <1>3, <2>1
  <2> QED
    BY <2>2
<1> QED
  BY <1>0, <1>4, <1>5

LEMMA LiteralIs ==
    ASSUME at \in Nat, NEW n \in Nat, n >= 1
    PROVE  /\ Literal(n) \in Nat /\ Literal(n) <= n
           /\ at = 0 => Literal(n) >= 1
           /\ Literal(n) = n \/ OneByteRun(at + Literal(n)) \/ TwoByteRun(at + Literal(n))
<1> DEFINE first == IF at = 0 THEN 1 ELSE 0
           last == IF n - 3 > first THEN n - 3 ELSE first
           runs == {k \in first..last : OneByteRun(at + k) \/ TwoByteRun(at + k)}
<1>1. first \in Nat /\ first <= n /\ last \in Nat /\ last <= n
  OBVIOUS
<1>2. Literal(n) = IF runs = {} THEN n ELSE Min(runs)
  BY DEF Literal
<1>3. CASE runs = {}
  BY <1>2, <1>3
<1>4. CASE runs # {}
  <2>1. runs \subseteq Nat
    BY <1>1
  <2>2. Min(runs) \in runs
    <3> HIDE DEF runs
    <3> QED
      BY <1>4, <2>1, LeastIs
  <2> QED
    BY <1>1, <1>2, <1>4, <2>2
<1> QED
  BY <1>3, <1>4

LEMMA PeriodIs == Period \in {0, 1, 2}
BY DEF Period

LEMMA RunLengthIs ==
    ASSUME Offsets, NEW p \in {1, 2}
    PROVE  /\ RunLength(p) \in Nat /\ RunLength(p) % p = 0
           /\ \A n \in Nat : n < RunLength(p) /\ n % p = 0 =>
                  at + n < Len(target) /\ \A j \in 0..(p - 1) : T(at + j) = T(at + n + j)
           /\ \/ at + RunLength(p) >= Len(target)
              \/ \E j \in 0..(p - 1) : T(at + j) # T(at + RunLength(p) + j)
<1> DEFINE Stop(n) == at + n >= Len(target) \/ \E j \in 0..(p - 1) : T(at + j) # T(at + n + j)
           C == {n \in 0..(Len(target) + 2) : n % p = 0 /\ Stop(n)}
<1>0. Len(target) \in Nat /\ at \in Nat /\ at <= Len(target)
  BY SourceEndIs
<1>1. C \subseteq Nat /\ C # {}
  <2>1. C \subseteq Nat
    BY <1>0
  <2>2. \E n \in {Len(target), Len(target) + 1} : n % p = 0
    <3>1. CASE p = 1
      BY <1>0, <3>1
    <3>2. CASE p = 2
      BY <1>0, <3>2
    <3> QED
      BY <3>1, <3>2
  <2>3. PICK n \in {Len(target), Len(target) + 1} : n % p = 0
    BY <2>2
  <2>4. n \in 0..(Len(target) + 2) /\ at + n >= Len(target)
    BY <1>0
  <2>5. n \in C
    BY <2>3, <2>4
  <2> QED
    BY <2>1, <2>5
<1>2. RunLength(p) = Min(C)
  BY DEF RunLength
<1>3. RunLength(p) \in C /\ \A k \in C : RunLength(p) <= k
  <2> HIDE DEF C
  <2> QED
    BY <1>1, <1>2, LeastIs
<1>4. RunLength(p) \in 0..(Len(target) + 2) /\ RunLength(p) % p = 0 /\ Stop(RunLength(p))
  BY <1>3
<1>5. ASSUME NEW n \in Nat, n < RunLength(p), n % p = 0
      PROVE  at + n < Len(target) /\ \A j \in 0..(p - 1) : T(at + j) = T(at + n + j)
  <2>1. n \in 0..(Len(target) + 2) /\ ~(RunLength(p) <= n)
    BY <1>0, <1>4, <1>5
  <2>2. ~Stop(n)
    BY <1>3, <1>5, <2>1
  <2> QED
    BY <1>0, <2>2
<1> QED
  BY <1>0, <1>4, <1>5

\* A run ends at most one byte behind the target.
LEMMA RunEnds ==
    ASSUME Offsets, NEW p \in {1, 2}
    PROVE  at + RunLength(p) <= Len(target) + 1
<1>0. Len(target) \in Nat /\ at \in Nat /\ at <= Len(target)
  BY SourceEndIs
<1> DEFINE r == RunLength(p)
<1>1. /\ r \in Nat /\ r % p = 0
      /\ \A n \in Nat : n < r /\ n % p = 0 => at + n < Len(target)
  BY RunLengthIs
<1> HIDE DEF r
<1>2. CASE r = 0
  BY <1>0, <1>2 DEF r
<1>3. CASE r # 0
  <2>1. r - p \in Nat /\ r - p < r /\ (r - p) % p = 0
    <3>1. CASE p = 1
      BY <1>1, <1>3, <3>1
    <3>2. CASE p = 2
      BY <1>1, <1>3, <3>2
    <3> QED
      BY <3>1, <3>2
  <2>2. at + (r - p) < Len(target)
    BY <1>1, <2>1
  <2> QED
    BY <1>0, <1>1, <2>1, <2>2 DEF r
<1> QED
  BY <1>2, <1>3

-----------------------------------------------------------------------------
\* The buffer of bps_create_linear.

GrowStep(n, b, f) == IF n < b THEN b ELSE f[2 * b]

Growth(n) == CHOOSE f : f = [b \in Nat |-> GrowStep(n, b, f)]

LEMMA GrowIs ==
    ASSUME NEW n, NEW size
    PROVE  Grow(n, size) = Growth(n)[size]
BY Zenon DEF Grow, Growth, GrowStep

LEMMA GrowthFollows ==
    ASSUME NEW n \in Nat
    PROVE  \A b \in Nat : Growth(n)[b] = GrowStep(n, b, Growth(n))
<1> DEFINE V == Nat
           mu == [b \in Nat |-> IF b = 0 \/ n < b THEN 0 ELSE n + 1 - b]
           Rule == [b \in Nat |-> [f \in [Nat -> V] |->
                       IF b = 0 THEN 0 ELSE GrowStep(n, b, f)]]
<1>1. \A b \in Nat : \A f \in [Nat -> V] :
          Rule[b][f] = IF b = 0 THEN 0 ELSE GrowStep(n, b, f)
  OBVIOUS
<1>2. Descends(Nat, V, mu, Rule)
  <2>1. mu \in [Nat -> Nat] /\ \A b \in Nat : mu[b] = IF b = 0 \/ n < b THEN 0 ELSE n + 1 - b
    OBVIOUS
  <2>2. \A b \in Nat : \A f \in [Nat -> V] : GrowStep(n, b, f) \in V
    BY DEF GrowStep
  <2>3. Rule \in [Nat -> [[Nat -> V] -> V]]
    BY <2>2
  <2>4. ASSUME NEW b \in Nat, NEW f \in [Nat -> V], NEW g \in [Nat -> V],
               \A c \in Nat : mu[c] < mu[b] => f[c] = g[c]
        PROVE  Rule[b][f] = Rule[b][g]
    <3>1. CASE b = 0
      BY <1>1, <3>1
    <3>2. CASE b # 0 /\ ~(n < b)
      <4>1. 2 * b \in Nat /\ mu[2 * b] < mu[b]
        BY <2>1, <3>2
      <4>2. f[2 * b] = g[2 * b]
        BY <2>4, <4>1
      <4> QED
        BY <1>1, <3>2, <4>2 DEF GrowStep
    <3>3. CASE b # 0 /\ n < b
      BY <1>1, <3>3 DEF GrowStep
    <3> QED
      BY <3>1, <3>2, <3>3
  <2> HIDE DEF mu, Rule
  <2>5. QED
    BY <2>1, <2>3, <2>4 DEF Descends
<1> HIDE DEF mu, Rule, V
<1>3. PICK f \in [Nat -> V] : \A b \in Nat : f[b] = Rule[b][f]
  <2>1. V # {}
    BY DEF V
  <2> QED
    BY SMTT(60), <1>2, <2>1, RecursionDefines
<1>4. \A b \in Nat : f[b] = GrowStep(n, b, f)
  <2>1. f[0] = GrowStep(n, 0, f)
    BY DEF GrowStep
  <2> QED
    BY <1>1, <1>3, <2>1
<1>5. f = [b \in Nat |-> GrowStep(n, b, f)]
  BY <1>4
<1> DEFINE t == Growth(n)
<1>6. t = [b \in Nat |-> GrowStep(n, b, t)]
  BY <1>5 DEF Growth
<1> HIDE DEF t
<1>7. \A b \in Nat : t[b] = GrowStep(n, b, t)
  BY <1>6
<1> QED
  BY <1>7 DEF t

\* A buffer that is not empty grows until the next byte has room, and no buffer
\* grows that has.
LEMMA GrowMakesRoom ==
    ASSUME NEW n \in Nat, NEW size \in Nat, size > 0
    PROVE  Grow(n, size) \in Nat /\ n < Grow(n, size)
<1> DEFINE t == Growth(n)
           P(b) == t[b] \in Nat /\ n < t[b]
           C == {m \in Nat : \A b \in Nat : b > 0 /\ n + 1 - b <= m => P(b)}
<1>0. \A b \in Nat : t[b] = IF n < b THEN b ELSE t[2 * b]
  BY GrowthFollows DEF GrowStep
<1> HIDE DEF t
<1>1. 0 \in C
  BY <1>0
<1>2. ASSUME NEW m \in Nat, m \in C PROVE m + 1 \in C
  <2>1. ASSUME NEW b \in Nat, b > 0, n + 1 - b <= m + 1 PROVE P(b)
    <3>1. CASE n < b
      BY <1>0, <3>1
    <3>2. CASE ~(n < b)
      <4>1. 2 * b \in Nat /\ 2 * b > 0 /\ n + 1 - 2 * b <= m
        BY <2>1
      <4>2. P(2 * b)
        BY <1>2, <4>1
      <4>3. t[b] = t[2 * b]
        BY <1>0, <3>2
      <4> QED
        BY <4>2, <4>3
    <3> QED
      BY <3>1, <3>2
  <2> QED
    BY <2>1
<1>3. Nat \subseteq C
  <2> HIDE DEF C
  <2> QED
    BY <1>1, <1>2, NaturalsIn
<1>4. P(size)
  <2>1. n + 1 \in C /\ n + 1 - size <= n + 1
    BY <1>3
  <2> QED
    BY <2>1
<1> QED
  BY <1>4, GrowIs DEF t

-----------------------------------------------------------------------------
\* bps_create_linear: the shapes of its variables, and its buffer.

Writing == cpc \in {"loop", "changed", "run"}

CreateShape ==
    /\ cpc \in {"idle", "malloc", "header", "loop", "changed", "run", "done"}
    /\ source \in Memory /\ target \in Memory /\ metadata \in Memory
    /\ at \in Nat /\ at <= Len(target) + 1
    /\ cpc \in {"changed", "run"} => at <= Len(target)
    /\ lastknownchange \in 0..Len(target)
    /\ targetcopypos \in Int
    /\ written \in Seq(Byte) /\ created.body \in Seq(Byte)
    /\ cpc \in {"idle", "malloc", "header"} =>
           at = 0 /\ lastknownchange = 0 /\ targetcopypos = 0 /\ written = <<>>

BufferInv ==
    /\ held \in BOOLEAN /\ outbuflen \in Nat
    /\ cpc \in {"idle", "malloc"} => ~held
    /\ cpc = "header" \/ Writing => held /\ Place(written) < outbuflen
    /\ cpc # "done" => verdict = "bps_ok"
    /\ cpc = "done" =>
           /\ verdict \in {"bps_ok", "bps_identical", "bps_too_big", "bps_out_of_mem"}
           /\ held <=> verdict \in {"bps_ok", "bps_identical"}
           /\ held => Place(created.body) + 12 < outbuflen

CreateInv == CreateShape /\ BufferInv

LEMMA EmptyInMemory == <<>> \in Memory /\ <<>> \in Seq(Byte) /\ Len(<<>>) = 0
<1>1. <<>> \in Seq(Byte) /\ Len(<<>>) = 0 /\ SizeMax \in Nat
  BY DigitsAre
<1>2. InAddress + 0 <= SizeMax
  BY <1>1, AddressAssumption
<1> QED
  BY <1>1, <1>2 DEF Memory

LEMMA CreateBegins == Init => CreateInv
<1> SUFFICES ASSUME Init PROVE CreateInv
  OBVIOUS
<1>1. /\ <<>> \in Memory /\ <<>> \in Seq(Byte) /\ Len(<<>>) = 0
      /\ NoPatch.body = <<>>
  BY EmptyInMemory DEF NoPatch
<1>2. CreateShape
  BY <1>1 DEF Init, CreateInit, CreateShape
<1>3. BufferInv
  BY DEF Init, CreateInit, BufferInv, Writing
<1> QED
  BY <1>2, <1>3 DEF CreateInv

LEMMA ShapeGivesOffsets ==
    ASSUME CreateShape, at <= Len(target)
    PROVE  Offsets
BY DEF CreateShape, Offsets, Memory

LEMMA PlaceIs == ASSUME NEW b \in Seq(Byte) PROVE Place(b) \in Nat
BY DEF Place

\* A write that ends well leaves room for the next byte; one that fails frees
\* the buffer and ends the call.
LEMMA WriteKeepsRoom ==
    ASSUME CreateShape, BufferInv, cpc = "header" \/ Writing, NEW body \in Seq(Byte), NEW next,
           WriteOrFail(body, next)
    PROVE  /\ held' \in BOOLEAN /\ outbuflen' \in Nat /\ written' \in Seq(Byte)
           /\ \/ /\ cpc' = next /\ written' = body /\ held' /\ verdict' = "bps_ok"
                 /\ Place(written') < outbuflen'
              \/ /\ cpc' = "done" /\ ~held' /\ verdict' = "bps_out_of_mem"
                 /\ UNCHANGED <<written, outbuflen>>
<1>1. outbuflen \in Nat /\ outbuflen > 0 /\ held = TRUE /\ verdict = "bps_ok" /\ written \in Seq(Byte)
  BY PlaceIs DEF CreateShape, BufferInv, Writing, Place
<1>2. Grow(Place(body), outbuflen) \in Nat /\ Place(body) < Grow(Place(body), outbuflen)
  BY <1>1, PlaceIs, GrowMakesRoom
<1> QED
  BY <1>1, <1>2 DEF WriteOrFail

LEMMA HeaderIs ==
    ASSUME CreateShape
    PROVE  /\ Header \in Seq(Byte)
           /\ Len(source) \in Nat /\ Len(target) \in Nat /\ Len(metadata) \in Nat
           /\ metadata \in Seq(Byte)
<1>1. /\ Len(source) \in Nat /\ Len(target) \in Nat /\ Len(metadata) \in Nat
      /\ metadata \in Seq(Byte)
  BY DEF CreateShape, Memory
<1>2. /\ writenum[Len(source)] \in Seq(Byte) /\ writenum[Len(target)] \in Seq(Byte)
      /\ writenum[Len(metadata)] \in Seq(Byte)
  BY <1>1, WritenumIs DEF IsNumber
<1> QED
  BY <1>1, <1>2 DEF Header

\* The bytes of a literal are the target's.
LEMMA LiteralBytes ==
    ASSUME CreateShape, NEW n \in Nat, at + n <= Len(target)
    PROVE  [i \in 1..n |-> T(at + i - 1)] \in Seq(Byte)
<1>1. target \in Seq(Byte) /\ at \in Nat /\ Len(target) \in Nat
  BY DEF CreateShape, Memory
<1>2. ASSUME NEW i \in 1..n PROVE T(at + i - 1) \in Byte
  <2>1. at + i - 1 \in 0..(Len(target) - 1) /\ at + i - 1 + 1 \in 1..Len(target)
    BY <1>1
  <2>2. target[at + i - 1 + 1] \in Byte
    BY <1>1, <2>1
  <2> QED
    BY <2>1, <2>2 DEF T
<1> QED
  BY <1>2

LEMMA CreateKeepsHeader ==
    ASSUME CreateInv, Create \/ NoMemory \/ AllocateBuffer \/ WriteHeader \/ FreePatch
    PROVE  CreateInv'
<1> USE DEF CreateInv
<1>1. CASE Create
  <2>1. PICK p \in Pairs : bps_create_linear(p.source, p.target, p.metadata)
    BY <1>1 DEF Create
  <2>2. p.source \in Memory /\ p.target \in Memory /\ p.metadata \in Memory
    BY PairsAssumption
  <2>3. Len(target') \in Nat
    BY <2>1, <2>2 DEF bps_create_linear, Memory
  <2>4. CreateShape'
    BY <2>1, <2>2, <2>3 DEF bps_create_linear, CreateShape
  <2> QED
    BY <2>1, <2>4 DEF bps_create_linear, CreateShape, BufferInv, Writing
<1>2. CASE NoMemory
  BY <1>2 DEF NoMemory, CreateShape, BufferInv, Writing, files
<1>3. CASE AllocateBuffer
  <2>1. Place(<<>>) = 4 /\ FirstBuffer \in Nat /\ FirstBuffer > 4
    BY FirstBufferAssumption DEF Place
  <2> QED
    BY <1>3, <2>1 DEF AllocateBuffer, CreateShape, BufferInv, Writing, files
<1>4. CASE WriteHeader
  <2>1. /\ held' \in BOOLEAN /\ outbuflen' \in Nat /\ written' \in Seq(Byte)
        /\ \/ /\ cpc' = "loop" /\ written' = Header /\ held' /\ verdict' = "bps_ok"
              /\ Place(written') < outbuflen'
           \/ /\ cpc' = "done" /\ ~held' /\ verdict' = "bps_out_of_mem"
              /\ UNCHANGED <<written, outbuflen>>
    BY <1>4, HeaderIs, WriteKeepsRoom DEF WriteHeader
  <2> QED
    BY <1>4, <2>1 DEF WriteHeader, CreateShape, BufferInv, Writing, files
<1>5. CASE FreePatch
  <2>1. /\ <<>> \in Memory /\ <<>> \in Seq(Byte) /\ Len(<<>>) = 0
        /\ NoPatch.body = <<>>
    BY EmptyInMemory DEF NoPatch
  <2>2. CreateShape'
    BY <1>5, <2>1 DEF FreePatch, CreateShape
  <2>3. BufferInv'
    BY <1>5 DEF FreePatch, BufferInv, Writing
  <2> QED
    BY <2>2, <2>3
<1> QED
  BY <1>1, <1>2, <1>3, <1>4, <1>5

LEMMA CreateKeepsLoop ==
    ASSUME CreateInv, MatchSource \/ NothingChanged \/ WriteLiteral \/ NoRun \/ CopyRun
    PROVE  CreateInv'
<1> USE DEF CreateInv
<1>0. /\ target \in Seq(Byte) /\ Len(target) \in Nat /\ at \in Nat /\ targetcopypos \in Int
      /\ written \in Seq(Byte)
  BY DEF CreateShape, Memory
<1>1. CASE MatchSource
  <2>0. cpc = "loop" /\ Writing /\ at <= Len(target) /\ UNCHANGED <<files, lastknownchange, targetcopypos, created>>
    BY <1>0, <1>1 DEF MatchSource, Writing
  <2>1. Offsets
    BY <2>0, ShapeGivesOffsets
  <2>2. Unchanged \in Nat /\ at + Unchanged <= Len(target)
    BY <2>1, UnchangedIs
  <2>3. CASE WorthReading(Unchanged)
    <3> DEFINE body == written \o writenum[(Unchanged - 1) * 4 + SourceRead]
    <3>1. Unchanged >= 1
      <4>1. at < Len(target)
        BY <1>1 DEF MatchSource
      <4> QED
        BY <1>0, <2>2, <2>3, <4>1 DEF WorthReading
    <3>2. (Unchanged - 1) * 4 + SourceRead \in Nat
      BY <2>2, <3>1 DEF SourceRead
    <3>3. body \in Seq(Byte)
      BY <1>0, <3>2, WritenumIs DEF IsNumber
    <3>4. WriteOrFail(body, "changed") /\ at' = at + Unchanged
      BY <1>1, <2>3 DEF MatchSource
    <3> HIDE DEF body
    <3>5. /\ held' \in BOOLEAN /\ outbuflen' \in Nat /\ written' \in Seq(Byte)
          /\ \/ /\ cpc' = "changed" /\ written' = body /\ held' /\ verdict' = "bps_ok"
                /\ Place(written') < outbuflen'
             \/ /\ cpc' = "done" /\ ~held' /\ verdict' = "bps_out_of_mem"
                /\ UNCHANGED <<written, outbuflen>>
      BY <2>0, <3>3, <3>4, WriteKeepsRoom
    <3>6. at' \in Nat /\ at' <= Len(target)
      BY <1>0, <2>2, <3>4
    <3> QED
      BY <1>0, <2>0, <3>5, <3>6 DEF CreateShape, BufferInv, Writing, files
  <2>4. CASE ~WorthReading(Unchanged)
    BY <1>0, <1>1, <2>0, <2>4 DEF MatchSource, CreateShape, BufferInv, Writing, files
  <2> QED
    BY <2>3, <2>4
<1>2. CASE NothingChanged
  BY <1>0, <1>2 DEF NothingChanged, CreateShape, BufferInv, Writing, files
<1>3. CASE WriteLiteral
  <2>0. /\ cpc = "changed" /\ Writing /\ at <= Len(target) /\ Changed > 0
        /\ lastknownchange' = at + Changed /\ UNCHANGED <<files, targetcopypos, created>>
    BY <1>3 DEF WriteLiteral, Writing, CreateShape
  <2>1. Offsets
    BY <2>0, ShapeGivesOffsets
  <2>2. Changed \in Nat /\ at + Changed <= Len(target)
    BY <2>1, ChangedIs
  <2>3. Literal(Changed) \in Nat /\ Literal(Changed) <= Changed
    BY <1>0, <2>0, <2>2, LiteralIs
  <2> DEFINE n == Literal(Changed)
             body == IF n = 0 THEN written
                     ELSE written \o writenum[(n - 1) * 4 + TargetRead]
                              \o [i \in 1..n |-> T(at + i - 1)]
  <2>4. WriteOrFail(body, "run") /\ at' = at + n
    BY <1>3 DEF WriteLiteral
  <2> HIDE DEF n
  <2>5. n \in Nat /\ n <= Changed /\ at + n <= Len(target)
    BY <1>0, <2>2, <2>3 DEF n
  <2>6. body \in Seq(Byte)
    <3>1. CASE n = 0
      BY <1>0, <3>1
    <3>2. CASE n # 0
      <4>1. (n - 1) * 4 + TargetRead \in Nat
        BY <2>5, <3>2 DEF TargetRead
      <4>2. writenum[(n - 1) * 4 + TargetRead] \in Seq(Byte)
        BY <4>1, WritenumIs DEF IsNumber
      <4>3. [i \in 1..n |-> T(at + i - 1)] \in Seq(Byte)
        BY <2>5, LiteralBytes
      <4>4. \A u, v, w \in Seq(Byte) : u \o v \o w \in Seq(Byte)
        OBVIOUS
      <4> QED
        BY <1>0, <3>2, <4>2, <4>3, <4>4
    <3> QED
      BY <3>1, <3>2
  <2> HIDE DEF body
  <2>7. /\ held' \in BOOLEAN /\ outbuflen' \in Nat /\ written' \in Seq(Byte)
        /\ \/ /\ cpc' = "run" /\ written' = body /\ held' /\ verdict' = "bps_ok"
              /\ Place(written') < outbuflen'
           \/ /\ cpc' = "done" /\ ~held' /\ verdict' = "bps_out_of_mem"
              /\ UNCHANGED <<written, outbuflen>>
    BY <2>0, <2>4, <2>6, WriteKeepsRoom
  <2>8. at' \in Nat /\ at' <= Len(target) /\ lastknownchange' \in 0..Len(target)
    BY <1>0, <2>0, <2>2, <2>4, <2>5
  <2> QED
    BY <1>0, <2>0, <2>7, <2>8 DEF CreateShape, BufferInv, Writing, files
<1>4. CASE NoRun
  BY <1>4 DEF NoRun, CreateShape, BufferInv, Writing, files
<1>5. CASE CopyRun
  <2>0. cpc = "run" /\ Writing /\ at <= Len(target) /\ Period > 0 /\ UNCHANGED <<files, lastknownchange, created>>
    BY <1>5 DEF CopyRun, Writing, CreateShape
  <2>1. Offsets
    BY <2>0, ShapeGivesOffsets
  <2>2. Period \in {1, 2}
    BY <2>0, PeriodIs
  <2>3. RunLength(Period) \in Nat /\ at + RunLength(Period) <= Len(target) + 1
    BY <2>1, <2>2, RunLengthIs, RunEnds
  <2> DEFINE n == RunLength(Period)
             body == written \o writenum[Wrap((n - 1) * 4 + TargetCopy)]
                         \o writenum[Wrap((at - targetcopypos - Period) * 2)]
  <2>4. WriteOrFail(body, "loop") /\ at' = at + n /\ targetcopypos' = at + n - Period
    BY <1>5 DEF CopyRun
  <2> HIDE DEF n
  <2>5. n \in Nat /\ at + n <= Len(target) + 1
    BY <2>3 DEF n
  <2>6. \A i \in Int : Wrap(i) \in Nat
    <3>1. SizeMax + 1 \in Nat /\ SizeMax + 1 >= 1
      BY DigitsAre
    <3> QED
      BY <3>1 DEF Wrap
  <2>7. body \in Seq(Byte)
    <3>1. (n - 1) * 4 + TargetCopy \in Int /\ (at - targetcopypos - Period) * 2 \in Int
      BY <1>0, <2>2, <2>5 DEF TargetCopy
    <3>2. /\ writenum[Wrap((n - 1) * 4 + TargetCopy)] \in Seq(Byte)
          /\ writenum[Wrap((at - targetcopypos - Period) * 2)] \in Seq(Byte)
      BY <2>6, <3>1, WritenumIs DEF IsNumber
    <3>3. \A u, v, w \in Seq(Byte) : u \o v \o w \in Seq(Byte)
      OBVIOUS
    <3> QED
      BY <1>0, <3>2, <3>3
  <2> HIDE DEF body
  <2>8. /\ held' \in BOOLEAN /\ outbuflen' \in Nat /\ written' \in Seq(Byte)
        /\ \/ /\ cpc' = "loop" /\ written' = body /\ held' /\ verdict' = "bps_ok"
              /\ Place(written') < outbuflen'
           \/ /\ cpc' = "done" /\ ~held' /\ verdict' = "bps_out_of_mem"
              /\ UNCHANGED <<written, outbuflen>>
    BY <2>0, <2>4, <2>7, WriteKeepsRoom
  <2>9. at' \in Nat /\ at' <= Len(target) + 1 /\ targetcopypos' \in Int
    BY <1>0, <2>2, <2>4, <2>5
  <2> QED
    BY <1>0, <2>0, <2>8, <2>9 DEF CreateShape, BufferInv, Writing, files
<1> QED
  BY <1>1, <1>2, <1>3, <1>4, <1>5

LEMMA CreateKeepsSeal == ASSUME CreateInv, Seal PROVE CreateInv'
<1> USE DEF CreateInv
<1>1. /\ cpc = "loop" /\ Writing /\ cpc' = "done" /\ held = TRUE
      /\ outbuflen \in Nat /\ outbuflen > 0 /\ written \in Seq(Byte)
      /\ UNCHANGED <<files, at, lastknownchange, targetcopypos, written>>
  BY PlaceIs DEF Seal, CreateShape, BufferInv, Writing, Place
<1>2. Place(written) + 12 \in Nat
  BY <1>1, PlaceIs
<1>3. /\ Grow(Place(written) + 12, outbuflen) \in Nat
      /\ Place(written) + 12 < Grow(Place(written) + 12, outbuflen)
  BY <1>1, <1>2, GrowMakesRoom
<1>4. CASE held' = FALSE /\ verdict' = "bps_out_of_mem" /\ UNCHANGED <<outbuflen, created>>
  BY <1>1, <1>4 DEF CreateShape, BufferInv, Writing, files
<1>5. CASE /\ outbuflen' = Grow(Place(written) + 12, outbuflen)
           /\ created' = Sealed(written, Crc(source), Crc(target))
           /\ verdict' = IF IsIdentical(written) THEN "bps_identical" ELSE "bps_ok"
           /\ UNCHANGED held
  <2>1. created'.body = written
    BY <1>5 DEF Sealed
  <2>2. Place(created'.body) + 12 < outbuflen' /\ outbuflen' \in Nat
    BY <1>3, <1>5, <2>1
  <2> QED
    BY <1>1, <1>5, <2>1, <2>2 DEF CreateShape, BufferInv, Writing, files
<1> QED
  BY <1>4, <1>5 DEF Seal

LEMMA CreateNext == CreateInv /\ [Next]_vars => CreateInv'
<1> SUFFICES ASSUME CreateInv, [Next]_vars PROVE CreateInv'
  OBVIOUS
<1>1. CASE Create \/ FreePatch
  BY <1>1, CreateKeepsHeader
<1>2. CASE Creating
  BY <1>2, CreateKeepsHeader, CreateKeepsLoop, CreateKeepsSeal DEF Creating, CreateStep
<1>3. CASE UNCHANGED createVars
  BY <1>3 DEF createVars, files, CreateInv, CreateShape, BufferInv, Writing
<1> QED
  BY <1>1, <1>2, <1>3 DEF Next, ApplyCreated, ApplyForeign, Applying, FreeOutput, vars

LEMMA CreateAlways == Spec => []CreateInv
BY CreateBegins, CreateNext, PTL DEF Spec

\* bps_create_linear never writes behind its buffer, and gives the buffer to its
\* caller exactly when it returns a patch (the macro write, and every return).
THEOREM BufferHandedOver == Spec => []PatchHandedOver
<1>1. CreateInv => PatchHandedOver
  BY DEF CreateInv, CreateShape, BufferInv, PatchHandedOver, Writing
<1> QED
  BY <1>1, CreateAlways, PTL

-----------------------------------------------------------------------------
\* bps_apply: the shapes of its variables, and its cursors.

CursorInv ==
    /\ apc \in {"idle", "check", "metadata", "commands", "exit", "astray", "done"}
    /\ patch.body \in Seq(Byte) /\ in \in Seq(Byte)
    /\ out \in Seq(Byte) /\ outlen \in Nat
    /\ patchat \in Nat /\ patchat >= 1 /\ inreadat \in Nat /\ outreadat \in Nat
    /\ apc \in {"idle", "check", "metadata"} => inreadat = 0 /\ outreadat = 0 /\ out = <<>>
    /\ apc \in {"idle", "check"} => outlen = 0
    /\ CursorsInBounds

LEMMA NumberIs ==
    ASSUME NEW s \in Seq(Byte), NEW p \in Nat, p >= 1
    PROVE  /\ decodenum(s, p).status \in {"ok", "cut", "big"}
           /\ decodenum(s, p).value \in Nat
           /\ decodenum(s, p).at \in Nat /\ decodenum(s, p).at >= 1
           /\ decodenum(s, p).at > p \/ decodenum(s, p).at > Len(s)
           /\ decodenum(s, p).status = "ok" => decodenum(s, p).at <= Len(s) + 1
<1> DEFINE r == decodenum(s, p)
<1>1. r \in Numbers /\ (r.at > p \/ r.at > Len(s)) /\ (r.status = "ok" => r.at <= Len(s) + 1)
  BY DecodenumTotal
<1> HIDE DEF r
<1>2. r.status \in {"ok", "cut", "big"} /\ r.value \in Nat /\ r.at \in Nat /\ r.at >= 1
  BY <1>1 DEF Numbers
<1> QED
  BY <1>1, <1>2 DEF r

LEMMA SizesAre ==
    ASSUME NEW p, p.body \in Seq(Byte)
    PROVE  /\ SizeIn(p).value \in Nat /\ SizeOut(p).value \in Nat /\ SizeMeta(p).value \in Nat
           /\ SizeIn(p).at \in Nat /\ SizeIn(p).at >= 1
           /\ SizeOut(p).at \in Nat /\ SizeOut(p).at >= 1
           /\ SizeMeta(p).at \in Nat /\ SizeMeta(p).at >= 1
<1>1. SizeIn(p).value \in Nat /\ SizeIn(p).at \in Nat /\ SizeIn(p).at >= 1
  BY NumberIs DEF SizeIn
<1>2. SizeOut(p).value \in Nat /\ SizeOut(p).at \in Nat /\ SizeOut(p).at >= 1
  BY <1>1, NumberIs DEF SizeOut
<1>3. SizeMeta(p).value \in Nat /\ SizeMeta(p).at \in Nat /\ SizeMeta(p).at >= 1
  BY <1>2, NumberIs DEF SizeMeta
<1> QED
  BY <1>1, <1>2, <1>3

LEMMA CommandIs ==
    ASSUME CursorInv
    PROVE  /\ Command.value \in Nat /\ Command.at \in Nat /\ Command.at >= 1
           /\ Length \in Nat /\ Length >= 1
           /\ Distance.value \in Nat /\ Distance.at \in Nat /\ Distance.at >= 1
           /\ Command.status = "ok" => Command.at <= Len(patch.body) + 1
           /\ Distance.status = "ok" => Distance.at <= Len(patch.body) + 1
           /\ \A c \in Nat : Moved(c) \in Int
<1>1. /\ Command.value \in Nat /\ Command.at \in Nat /\ Command.at >= 1
      /\ Command.status = "ok" => Command.at <= Len(patch.body) + 1
  BY NumberIs DEF CursorInv, Command
<1>2. Length \in Nat /\ Length >= 1
  <2>1. Command.value \div 4 \in Nat
    BY <1>1, Quotient
  <2> QED
    BY <2>1 DEF Length
<1>3. /\ Distance.value \in Nat /\ Distance.at \in Nat /\ Distance.at >= 1
      /\ Distance.status = "ok" => Distance.at <= Len(patch.body) + 1
  BY <1>1, NumberIs DEF CursorInv, Distance
<1>4. ASSUME NEW c \in Nat PROVE Moved(c) \in Int
  <2>1. Distance.value \div 2 \in Nat
    BY <1>3, Quotient
  <2> QED
    BY <2>1 DEF Moved, MovedBy
<1> QED
  BY <1>1, <1>2, <1>3, <1>4

\* Three sequences one behind the other.
LEMMA Regrouped ==
    ASSUME NEW Any, NEW s \in Seq(Any), NEW t \in Seq(Any), NEW u \in Seq(Any)
    PROVE  s \o (t \o u) = (s \o t) \o u
BY ConcatAssociative

LEMMA PartOf ==
    ASSUME NEW s \in Seq(Byte), NEW a \in Nat, NEW n \in Nat, a + n <= Len(s)
    PROVE  /\ SubSeq(s, a + 1, a + n) \in Seq(Byte)
           /\ Len(SubSeq(s, a + 1, a + n)) = n
           /\ \A i \in 1..n : SubSeq(s, a + 1, a + n)[i] = s[a + i]
<1>1. Len(s) \in Nat
  OBVIOUS
<1>2. a + 1 \in Nat /\ a + 1 >= 1 /\ a + n \in Nat /\ (a + n) - (a + 1) + 1 = n
  OBVIOUS
<1>3. SubSeq(s, a + 1, a + n) = [i \in 1..n |-> s[(a + 1) + i - 1]]
  BY <1>2
<1>4. \A i \in 1..n : (a + 1) + i - 1 = a + i /\ a + i \in 1..Len(s)
  BY <1>1
<1>5. \A i \in 1..n : s[(a + 1) + i - 1] \in Byte
  BY <1>4
<1>6. SubSeq(s, a + 1, a + n) = [i \in 1..n |-> s[a + i]]
  BY <1>3, <1>4
<1>7. \A i \in 1..n : s[a + i] \in Byte
  BY <1>4
<1> QED
  BY <1>6, <1>7

LEMMA RepeatIs ==
    ASSUME NEW s \in Seq(Byte), NEW from \in Nat, from < Len(s), NEW n \in Nat
    PROVE  Repeat(s, from, n) \in Seq(Byte) /\ Len(Repeat(s, from, n)) = n
<1>1. Len(s) \in Nat
  OBVIOUS
<1>2. PICK d \in Nat : d = Len(s) - from /\ d >= 1
  BY <1>1
<1>3. ASSUME NEW i \in 1..n PROVE s[from + 1 + ((i - 1) % (Len(s) - from))] \in Byte
  <2>1. i - 1 \in Nat
    OBVIOUS
  <2>2. (i - 1) % d \in 0..(d - 1)
    BY <1>2, <2>1, Quotient
  <2>3. from + 1 + ((i - 1) % d) \in 1..Len(s)
    BY <1>1, <1>2, <2>2
  <2>4. s[from + 1 + ((i - 1) % d)] \in Byte
    BY <2>3
  <2> QED
    BY <1>2, <2>4
<1> QED
  BY <1>3 DEF Repeat

\* What a command appends, it appends to what was written.
LEMMA Appended ==
    ASSUME NEW s \in Seq(Byte), NEW t \in Seq(Byte)
    PROVE  /\ s \o t \in Seq(Byte) /\ Len(s \o t) = Len(s) + Len(t)
           /\ \A i \in 1..Len(s) : (s \o t)[i] = s[i]
           /\ \A i \in 1..Len(t) : (s \o t)[Len(s) + i] = t[i]
OBVIOUS

LEMMA CursorBegins == Init => CursorInv
<1> SUFFICES ASSUME Init PROVE CursorInv
  OBVIOUS
<1>1. <<>> \in Seq(Byte) /\ Len(<<>>) = 0 /\ NoPatch.body = <<>>
  BY DEF NoPatch
<1> QED
  BY <1>1 DEF Init, ApplyInit, CursorInv, CursorsInBounds

LEMMA CursorKeepsHeader ==
    ASSUME CursorInv, BadPatch \/ BadSize \/ WrongInput \/ OpenOutput \/ BadMetadata \/ ReadMetadata
    PROVE  CursorInv'
<1>1. CASE BadPatch \/ BadSize \/ WrongInput \/ BadMetadata
  BY <1>1 DEF BadPatch, BadSize, WrongInput, BadMetadata, Fail, CursorInv, CursorsInBounds,
              args, cursors
<1>2. CASE OpenOutput
  <2>1. SizeOut(patch).value \in Nat
    BY SizesAre DEF CursorInv
  <2>2. Len(out) = 0
    BY <1>2 DEF OpenOutput, CursorInv
  <2> QED
    BY <1>2, <2>1, <2>2 DEF OpenOutput, CursorInv, CursorsInBounds, args, cursors
<1>3. CASE ReadMetadata
  <2>1. /\ SizeMeta(patch).at \in Nat /\ SizeMeta(patch).at >= 1
        /\ SizeMeta(patch).value \in Nat
    BY SizesAre DEF CursorInv
  <2>2. patchat' \in Nat /\ patchat' >= 1
    BY <1>3, <2>1 DEF ReadMetadata, MetadataEnd
  <2>3. patchat' <= Len(patch'.body) + 1 \/ ~MetadataInside'
    BY <1>3 DEF ReadMetadata, MetadataEnd, MetadataInside, args
  <2> QED
    BY <1>3, <2>2, <2>3 DEF ReadMetadata, CursorInv, CursorsInBounds, args
<1> QED
  BY <1>1, <1>2, <1>3

\* A command ends in the patch.
LEMMA CommandEndsInside ==
    ASSUME CursorInv, DoSourceRead \/ DoTargetRead \/ DoSourceCopy \/ DoTargetCopy
    PROVE  patchat' <= Len(patch'.body) + 1
<1>1. patch' = patch
  BY DEF DoSourceRead, DoTargetRead, DoSourceCopy, DoTargetCopy, args
<1>2. Len(patch.body) \in Nat /\ Command.at \in Nat /\ Length \in Nat
  BY CommandIs DEF CursorInv
<1>3. CASE DoSourceRead
  BY <1>1, <1>3, CommandIs DEF DoSourceRead, IsA
<1>4. CASE DoTargetRead
  <2>1. Command.at + Length - 1 <= Len(patch.body) /\ patchat' = Command.at + Length
    BY <1>4 DEF DoTargetRead, TargetReadFits
  <2> QED
    BY <1>1, <1>2, <2>1
<1>5. CASE DoSourceCopy
  BY <1>1, <1>5, CommandIs DEF DoSourceCopy, SourceCopyFits
<1>6. CASE DoTargetCopy
  BY <1>1, <1>6, CommandIs DEF DoTargetCopy, TargetCopyFits
<1> QED
  BY <1>3, <1>4, <1>5, <1>6

\* What a command appends and where it copies from.
LEMMA CommandAppends ==
    ASSUME CursorInv, DoSourceRead \/ DoTargetRead \/ DoSourceCopy \/ DoTargetCopy
    PROVE  /\ out' \in Seq(Byte) /\ Len(out') = Len(out) + Length /\ Len(out') <= outlen
           /\ DoSourceRead => Len(out) + Length <= Len(in)
           /\ DoSourceCopy => Moved(inreadat) \in Nat /\ Moved(inreadat) + Length <= Len(in)
           /\ DoTargetCopy =>
                  /\ Moved(outreadat) \in Nat /\ Moved(outreadat) < Len(out)
                  /\ Moved(outreadat) + Length <= outlen
<1>0. /\ Len(out) \in Nat /\ Len(in) \in Nat /\ Len(patch.body) \in Nat /\ Length \in Nat
      /\ inreadat \in Nat /\ outreadat \in Nat /\ outlen \in Nat
      /\ out \in Seq(Byte) /\ in \in Seq(Byte) /\ patch.body \in Seq(Byte)
      /\ Command.at \in Nat /\ Command.at >= 1
  <2>1. Length \in Nat /\ Command.at \in Nat /\ Command.at >= 1
    BY CommandIs
  <2> QED
    BY <2>1 DEF CursorInv, CursorsInBounds
<1>1. Len(out) + Length <= outlen
  BY DEF DoSourceRead, SourceReadFits, DoTargetRead, TargetReadFits, DoSourceCopy, SourceCopyFits,
         DoTargetCopy, TargetCopyFits, Fits
<1>2. DoSourceRead => Len(out) + Length <= Len(in)
  BY DEF DoSourceRead, SourceReadFits
<1>3. DoSourceCopy => Moved(inreadat) \in Nat /\ Moved(inreadat) + Length <= Len(in)
  BY <1>0, CommandIs DEF DoSourceCopy, SourceCopyFits
<1>4. DoTargetCopy =>
          /\ Moved(outreadat) \in Nat /\ Moved(outreadat) < Len(out)
          /\ Moved(outreadat) + Length <= outlen
  BY <1>0, CommandIs DEF DoTargetCopy, TargetCopyFits
<1>5. PICK t \in Seq(Byte) : out' = out \o t /\ Len(t) = Length
  <2>1. CASE DoSourceRead
    <3> DEFINE t == SubSeq(in, Len(out) + 1, Len(out) + Length)
    <3>1. t \in Seq(Byte) /\ Len(t) = Length
      BY <1>0, <1>2, <2>1, PartOf
    <3>2. out' = out \o t
      BY <2>1 DEF DoSourceRead
    <3> HIDE DEF t
    <3> QED
      BY <3>1, <3>2
  <2>2. CASE DoTargetRead
    <3> DEFINE t == SubSeq(patch.body, Command.at, Command.at + Length - 1)
    <3>1. PICK a \in Nat : Command.at = a + 1
      <4>1. Command.at - 1 \in Nat /\ Command.at = (Command.at - 1) + 1
        BY <1>0
      <4> QED
        BY <4>1
    <3>2. Command.at + Length - 1 = a + Length /\ a + Length <= Len(patch.body)
      BY <1>0, <2>2, <3>1 DEF DoTargetRead, TargetReadFits
    <3>3. t \in Seq(Byte) /\ Len(t) = Length
      BY SMTT(30), <1>0, <3>1, <3>2, PartOf
    <3>4. out' = out \o t
      BY <2>2 DEF DoTargetRead
    <3> HIDE DEF t
    <3> QED
      BY <3>3, <3>4
  <2>3. CASE DoSourceCopy
    <3> DEFINE m == Moved(inreadat)
               t == SubSeq(in, m + 1, m + Length)
    <3>1. m \in Nat /\ m + Length <= Len(in)
      BY <1>3, <2>3
    <3>2. out' = out \o t
      BY <2>3 DEF DoSourceCopy
    <3> HIDE DEF m
    <3>3. t \in Seq(Byte) /\ Len(t) = Length
      BY ZenonT(30), <1>0, <3>1, PartOf
    <3> HIDE DEF t
    <3> QED
      BY <3>2, <3>3
  <2>4. CASE DoTargetCopy
    <3> DEFINE m == Moved(outreadat)
               t == Repeat(out, m, Length)
    <3>1. m \in Nat /\ m < Len(out)
      BY <1>4, <2>4
    <3>2. out' = out \o t
      BY <2>4 DEF DoTargetCopy
    <3> HIDE DEF m
    <3>3. t \in Seq(Byte) /\ Len(t) = Length
      BY <1>0, <3>1, RepeatIs
    <3> HIDE DEF t
    <3> QED
      BY <3>2, <3>3
  <2> QED
    BY <2>1, <2>2, <2>3, <2>4
<1>6. out' \in Seq(Byte) /\ Len(out') = Len(out) + Length
  BY <1>0, <1>5, Appended
<1> QED
  BY <1>1, <1>2, <1>3, <1>4, <1>6

LEMMA CursorKeepsCommand ==
    ASSUME CursorInv, DoSourceRead \/ DoTargetRead \/ DoSourceCopy \/ DoTargetCopy
    PROVE  CursorInv'
<1>0. /\ Len(out) \in Nat /\ Len(in) \in Nat /\ Length \in Nat
      /\ Len(out) <= outlen /\ inreadat \in Nat /\ outreadat \in Nat /\ outlen \in Nat
      /\ Command.at \in Nat /\ Command.at >= 1 /\ Distance.at \in Nat /\ Distance.at >= 1
      /\ inreadat <= Len(in)
  <2>1. /\ Length \in Nat /\ Command.at \in Nat /\ Command.at >= 1
        /\ Distance.at \in Nat /\ Distance.at >= 1
    BY CommandIs
  <2> QED
    BY <2>1 DEF CursorInv, CursorsInBounds
<1>1. apc = "commands" /\ outreadat <= Len(out)
  BY DEF DoSourceRead, DoTargetRead, DoSourceCopy, DoTargetCopy, More, CursorInv, CursorsInBounds
<1>2. /\ out' \in Seq(Byte) /\ Len(out') = Len(out) + Length /\ Len(out') <= outlen
      /\ outreadat <= Len(out')
  <2>1. out' \in Seq(Byte) /\ Len(out') = Len(out) + Length /\ Len(out') <= outlen
    BY CommandAppends
  <2> QED
    BY <1>0, <1>1, <2>1
<1>7. patchat' <= Len(patch'.body) + 1 \/ ~MetadataInside'
  BY CommandEndsInside
<1>3. CASE DoSourceRead
  BY <1>7, <1>0, <1>1, <1>2, <1>3 DEF DoSourceRead, CursorInv, CursorsInBounds, args
<1>4. CASE DoTargetRead
  <2>1. patchat' \in Nat /\ patchat' >= 1
    BY SMTT(30), <1>0, <1>4 DEF DoTargetRead
  <2> QED
    BY <1>7, <1>0, <1>1, <1>2, <1>4, <2>1 DEF DoTargetRead, CursorInv, CursorsInBounds, args
<1>5. CASE DoSourceCopy
  <2>1. inreadat' \in Nat /\ inreadat' <= Len(in)
    BY <1>0, <1>5, CommandAppends DEF DoSourceCopy
  <2> QED
    BY <1>7, <1>0, <1>1, <1>2, <1>5, <2>1 DEF DoSourceCopy, CursorInv, CursorsInBounds, args
<1>6. CASE DoTargetCopy
  <2>1. outreadat' \in Nat /\ outreadat' <= Len(out')
    BY <1>0, <1>2, <1>6, CommandAppends DEF DoTargetCopy
  <2> QED
    BY <1>7, <1>0, <1>1, <1>2, <1>6, <2>1 DEF DoTargetCopy, CursorInv, CursorsInBounds, args
<1> QED
  BY <1>3, <1>4, <1>5, <1>6

LEMMA CursorKeepsEnd ==
    ASSUME CursorInv, BadCommand \/ Incomplete \/ WrongOutput \/ Return \/ Cleanup
    PROVE  CursorInv'
<1>1. CASE BadCommand \/ Incomplete \/ WrongOutput \/ Return
  BY <1>1 DEF BadCommand, Incomplete, WrongOutput, Return, Fail, CursorInv, CursorsInBounds,
              args, cursors
<1>2. CASE Cleanup
  <2>1. <<>> \in Seq(Byte) /\ Len(<<>>) = 0
    OBVIOUS
  <2> QED
    BY <1>2, <2>1 DEF Cleanup, CursorInv, CursorsInBounds, args, cursors
<1> QED
  BY <1>1, <1>2

LEMMA CursorKeepsStray == ASSUME CursorInv, Strays PROVE CursorInv'
<1>1. GoAstray /\ apc \in {"check", "metadata", "commands"}
  BY StraysGo
<1>2. /\ apc' = "astray"
      /\ UNCHANGED <<patch, in, patchat, inreadat, outreadat, out, outlen>>
  BY <1>1 DEF GoAstray, args, cursors
<1>3. outreadat <= Len(out)
  BY <1>1 DEF CursorInv, CursorsInBounds
<1> QED
  BY <1>2, <1>3 DEF CursorInv, CursorsInBounds

LEMMA CursorKeepsCaller ==
    ASSUME CursorInv, CreateInv, ApplyCreated \/ ApplyForeign \/ FreeOutput
    PROVE  CursorInv'
<1>1. ASSUME NEW p, p.body \in Seq(Byte), NEW i \in Seq(Byte), NEW w, NEW a, bps_apply(p, i, w, a)
      PROVE  CursorInv'
  <2>1. Len(i) \in Nat
    OBVIOUS
  <2> QED
    BY <1>1, <2>1 DEF bps_apply, CursorInv, CursorsInBounds, cursors
<1>2. Memory \subseteq Seq(Byte)
  BY DEF Memory
<1>3. CASE ApplyCreated
  <2>1. created.body \in Seq(Byte) /\ source \in Seq(Byte) /\ target \in Seq(Byte)
    BY <1>2 DEF CreateInv, CreateShape
  <2>2. Inputs \subseteq Seq(Byte)
    BY <1>2, InputsAssumption
  <2>3. PICK i \in Inputs \cup {source, target}, w \in BOOLEAN, a \in BOOLEAN :
            bps_apply(created, i, w, a)
    BY <1>3 DEF ApplyCreated
  <2>4. i \in Seq(Byte)
    BY <2>1, <2>2
  <2> QED
    BY <1>1, <2>1, <2>3, <2>4
<1>4. CASE ApplyForeign
  <2>1. PICK p \in Foreign, i \in Inputs, w \in BOOLEAN, a \in BOOLEAN : bps_apply(p, i, w, a)
    BY <1>4 DEF ApplyForeign
  <2>2. p.body \in Seq(Byte) /\ i \in Seq(Byte)
    BY <1>2, ForeignAssumption, InputsAssumption DEF Patches
  <2> QED
    BY <1>1, <2>1, <2>2
<1>5. CASE FreeOutput
  <2>1. <<>> \in Seq(Byte) /\ Len(<<>>) = 0 /\ NoPatch.body = <<>>
    BY DEF NoPatch
  <2> QED
    BY <1>5, <2>1 DEF FreeOutput, CursorInv, CursorsInBounds
<1> QED
  BY <1>3, <1>4, <1>5

LEMMA CursorNext == CursorInv /\ CreateInv /\ [Next]_vars => CursorInv'
<1> SUFFICES ASSUME CursorInv, CreateInv, [Next]_vars PROVE CursorInv'
  OBVIOUS
<1>1. CASE Applying
  BY <1>1, CursorKeepsHeader, CursorKeepsCommand, CursorKeepsEnd, CursorKeepsStray
     DEF Applying, ApplyStep, Strays
<1>2. CASE ApplyCreated \/ ApplyForeign \/ FreeOutput
  BY <1>2, CursorKeepsCaller
<1>3. CASE UNCHANGED applyVars
  BY <1>3 DEF applyVars, CursorInv, CursorsInBounds, MetadataInside, MetadataEnd
<1> QED
  BY <1>1, <1>2, <1>3 DEF Next, Create, Creating, FreePatch, vars

LEMMA CursorAlways == Spec => []CursorInv
BY CursorBegins, CursorNext, CreateAlways, PTL DEF Spec

\* For every patch, however broken, bps_apply writes no byte outside its output,
\* its copy cursors stay in what they copy from, and the place of the next byte
\* leaves the patch only with metadata said to be longer than it.
THEOREM CursorsStayInBounds == Spec => []CursorsInBounds
<1>1. CursorInv => CursorsInBounds
  BY DEF CursorInv
<1> QED
  BY <1>1, CursorAlways, PTL

-----------------------------------------------------------------------------
\* Words in a body.

\* The bytes w are at b[p].
Holds(b, p, w) ==
    /\ p + Len(w) - 1 <= Len(b)
    /\ \A i \in 1..Len(w) : b[p + i - 1] = w[i]

LEMMA HoldsNumber ==
    ASSUME NEW b, NEW p, NEW n
    PROVE  HasNumber(b, p, n) <=> Holds(b, p, writenum[n])
BY DEF HasNumber, Holds

LEMMA HoldsParts ==
    ASSUME NEW b \in Seq(Byte), NEW p \in Nat, p >= 1, NEW u \in Seq(Byte), NEW v \in Seq(Byte),
           Holds(b, p, u \o v)
    PROVE  Holds(b, p, u) /\ Holds(b, p + Len(u), v)
<1>0. Len(u) \in Nat /\ Len(v) \in Nat /\ Len(b) \in Nat /\ Len(u \o v) = Len(u) + Len(v)
  BY Appended
<1>1. p + (Len(u) + Len(v)) - 1 <= Len(b)
  BY <1>0 DEF Holds
<1>2. ASSUME NEW i \in 1..Len(u) PROVE b[p + i - 1] = u[i]
  <2>1. i \in 1..Len(u \o v) /\ (u \o v)[i] = u[i]
    BY <1>0, Appended
  <2> QED
    BY <2>1 DEF Holds
<1>3. ASSUME NEW i \in 1..Len(v) PROVE b[p + Len(u) + i - 1] = v[i]
  <2>1. Len(u) + i \in 1..Len(u \o v) /\ (u \o v)[Len(u) + i] = v[i]
    BY <1>0, Appended
  <2>2. b[p + (Len(u) + i) - 1] = v[i]
    BY <2>1 DEF Holds
  <2>3. p + (Len(u) + i) - 1 = p + Len(u) + i - 1
    BY <1>0
  <2> QED
    BY <2>2, <2>3
<1>4. p + Len(u) - 1 <= Len(b) /\ p + Len(u) + Len(v) - 1 <= Len(b)
  BY <1>0, <1>1
<1> QED
  BY <1>2, <1>3, <1>4 DEF Holds

LEMMA HoldsLonger ==
    ASSUME NEW b \in Seq(Byte), NEW p \in Nat, p >= 1, NEW w \in Seq(Byte), NEW c \in Seq(Byte),
           Holds(b, p, w)
    PROVE  Holds(b \o c, p, w)
<1>0. /\ Len(b) \in Nat /\ Len(c) \in Nat /\ Len(w) \in Nat /\ Len(b \o c) = Len(b) + Len(c)
      /\ \A i \in 1..Len(b) : (b \o c)[i] = b[i]
  BY Appended
<1>1. ASSUME NEW i \in 1..Len(w) PROVE (b \o c)[p + i - 1] = w[i]
  <2>1. p + i - 1 \in 1..Len(b)
    BY <1>0 DEF Holds
  <2> QED
    BY <1>0, <2>1 DEF Holds
<1>2. p + Len(w) - 1 <= Len(b \o c)
  BY <1>0 DEF Holds
<1> QED
  BY <1>1, <1>2 DEF Holds

LEMMA HoldsTail ==
    ASSUME NEW b \in Seq(Byte), NEW w \in Seq(Byte)
    PROVE  Holds(b \o w, Len(b) + 1, w)
<1>0. /\ Len(b) \in Nat /\ Len(w) \in Nat /\ Len(b \o w) = Len(b) + Len(w)
      /\ \A i \in 1..Len(w) : (b \o w)[Len(b) + i] = w[i]
  BY Appended
<1>1. ASSUME NEW i \in 1..Len(w) PROVE (b \o w)[Len(b) + 1 + i - 1] = w[i]
  <2>1. Len(b) + 1 + i - 1 = Len(b) + i
    BY <1>0
  <2> QED
    BY <1>0, <2>1
<1>2. Len(b) + 1 + Len(w) - 1 <= Len(b \o w)
  BY <1>0
<1> QED
  BY <1>1, <1>2 DEF Holds

LEMMA WrittenWord ==
    ASSUME NEW n \in Nat
    PROVE  /\ writenum[n] \in Seq(Byte) /\ Len(writenum[n]) \in Nat /\ Len(writenum[n]) >= 1
           /\ \A p \in Nat : After(p, n) \in Nat /\ After(p, n) > p
<1> DEFINE w == writenum[n]
<1>1. IsNumber(w)
  BY WritenumIs
<1> HIDE DEF w
<1>2. w \in Seq(Byte) /\ Len(w) \in Nat /\ Len(w) >= 1
  BY <1>1 DEF IsNumber
<1>3. \A p \in Nat : p + Len(w) \in Nat /\ p + Len(w) > p
  BY <1>2
<1> QED
  BY <1>2, <1>3 DEF After, w

LEMMA AfterIs ==
    ASSUME NEW p \in Nat, NEW n \in Nat
    PROVE  After(p, n) \in Nat /\ After(p, n) >= 1 /\ After(p, n) > p
<1>1. After(p, n) \in Nat /\ After(p, n) > p
  BY WrittenWord
<1> QED
  BY <1>1

LEMMA NumberTail ==
    ASSUME NEW b \in Seq(Byte), NEW n \in Nat
    PROVE  /\ b \o writenum[n] \in Seq(Byte)
           /\ HasNumber(b \o writenum[n], Len(b) + 1, n)
           /\ After(Len(b) + 1, n) = Len(b \o writenum[n]) + 1
<1> DEFINE w == writenum[n]
<1>1. IsNumber(w)
  BY WritenumIs
<1>2. HasNumber(b \o w, Len(b) + 1, n) <=> Holds(b \o w, Len(b) + 1, w)
  BY HoldsNumber
<1>3. After(Len(b) + 1, n) = Len(b) + 1 + Len(w)
  BY DEF After
<1> HIDE DEF w
<1>4. w \in Seq(Byte) /\ Len(w) \in Nat /\ Len(b) \in Nat
  BY <1>1 DEF IsNumber
<1>5. Holds(b \o w, Len(b) + 1, w)
  BY <1>4, HoldsTail
<1>6. Len(b \o w) = Len(b) + Len(w) /\ b \o w \in Seq(Byte)
  BY <1>4, Appended
<1>7. After(Len(b) + 1, n) = Len(b \o w) + 1
  BY <1>3, <1>4, <1>6
<1> QED
  BY <1>2, <1>5, <1>6, <1>7 DEF w

LEMMA NumberLonger ==
    ASSUME NEW b \in Seq(Byte), NEW p \in Nat, p >= 1, NEW n \in Nat, NEW c \in Seq(Byte),
           HasNumber(b, p, n)
    PROVE  HasNumber(b \o c, p, n)
BY WrittenWord, HoldsNumber, HoldsLonger

-----------------------------------------------------------------------------
\* The commands of a created patch.

\* A place in the body, the bytes of the target that are written when a reader
\* is there, and where its target cursor is.
Mark(place, pos, cursor) == [place |-> place, pos |-> pos, cursor |-> cursor]
Marks == [place : Nat \ {0}, pos : Nat, cursor : Nat]

\* A command's number.
NumberFor(n, action) == (n - 1) * 4 + action

\* At x the body b has a command that writes n bytes more of the target t and
\* leads to y: they are the source's, ...
ReadsSource(b, s, t, x, y, n) ==
    /\ HasNumber(b, x.place, NumberFor(n, SourceRead))
    /\ x.pos + n <= Len(s) /\ x.pos + n <= Len(t)
    /\ \A i \in 1..n : s[x.pos + i] = t[x.pos + i]
    /\ y = Mark(After(x.place, NumberFor(n, SourceRead)), x.pos + n, x.cursor)

\* ... or they follow in the patch, ...
ReadsPatch(b, t, x, y, n) ==
    /\ HasNumber(b, x.place, NumberFor(n, TargetRead))
    /\ x.pos + n <= Len(t)
    /\ After(x.place, NumberFor(n, TargetRead)) + n - 1 <= Len(b)
    /\ \A i \in 1..n : b[After(x.place, NumberFor(n, TargetRead)) + i - 1] = t[x.pos + i]
    /\ y = Mark(After(x.place, NumberFor(n, TargetRead)) + n, x.pos + n, x.cursor)

\* ... or they repeat the last d.
CopiesTarget(b, t, x, y, n, d) ==
    /\ HasNumber(b, x.place, NumberFor(n, TargetCopy))
    /\ HasNumber(b, After(x.place, NumberFor(n, TargetCopy)), (x.pos - x.cursor - d) * 2)
    /\ x.cursor + d <= x.pos /\ x.pos + n <= Len(t)
    /\ \A i \in 1..n : t[x.pos + i] = t[x.pos - d + 1 + ((i - 1) % d)]
    /\ y = Mark(After(After(x.place, NumberFor(n, TargetCopy)), (x.pos - x.cursor - d) * 2),
                x.pos + n, x.pos + n - d)

Leads(b, s, t, x, y) ==
    \E n \in Nat \ {0} :
        \/ ReadsSource(b, s, t, x, y, n)
        \/ ReadsPatch(b, t, x, y, n)
        \/ \E d \in {1, 2} : CopiesTarget(b, t, x, y, n, d)

\* P is a set of marks from the first command of b, at place first, to end, each
\* with its next.
Chart(P, b, s, t, first, end) ==
    /\ P \subseteq Marks /\ Mark(first, 0, 0) \in P /\ end \in P
    /\ end.place = Len(b) + 1
    /\ \A x \in P : x = end \/ \E y \in P : Leads(b, s, t, x, y)

LEMMA MarkIs ==
    ASSUME NEW p, NEW q, NEW c
    PROVE  /\ Mark(p, q, c).place = p /\ Mark(p, q, c).pos = q /\ Mark(p, q, c).cursor = c
           /\ p \in Nat /\ p >= 1 /\ q \in Nat /\ c \in Nat => Mark(p, q, c) \in Marks
BY DEF Mark, Marks

LEMMA MarkFields ==
    ASSUME NEW x \in Marks
    PROVE  x.place \in Nat /\ x.place >= 1 /\ x.pos \in Nat /\ x.cursor \in Nat
BY DEF Marks

LEMMA NumberForIs ==
    ASSUME NEW n \in Nat \ {0}, NEW action \in {SourceRead, TargetRead, SourceCopy, TargetCopy}
    PROVE  /\ NumberFor(n, action) \in Nat
           /\ NumberFor(n, action) \div 4 + 1 = n /\ NumberFor(n, action) % 4 = action
BY DEF NumberFor, SourceRead, TargetRead, SourceCopy, TargetCopy

\* A command stays when the body grows.
LEMMA LeadsLonger ==
    ASSUME NEW b \in Seq(Byte), NEW c \in Seq(Byte), NEW s, NEW t, NEW x \in Marks, NEW y,
           Leads(b, s, t, x, y)
    PROVE  Leads(b \o c, s, t, x, y)
<1>0. x.place \in Nat /\ x.place >= 1 /\ x.pos \in Nat /\ x.cursor \in Nat
  BY MarkFields
<1>1. PICK n \in Nat \ {0} :
          \/ ReadsSource(b, s, t, x, y, n)
          \/ ReadsPatch(b, t, x, y, n)
          \/ \E d \in {1, 2} : CopiesTarget(b, t, x, y, n, d)
  BY DEF Leads
<1>2. /\ NumberFor(n, SourceRead) \in Nat /\ NumberFor(n, TargetRead) \in Nat
      /\ NumberFor(n, TargetCopy) \in Nat
  BY NumberForIs
<1>3. CASE ReadsSource(b, s, t, x, y, n)
  <2>1. HasNumber(b \o c, x.place, NumberFor(n, SourceRead))
    BY <1>0, <1>2, <1>3, NumberLonger DEF ReadsSource
  <2>2. ReadsSource(b \o c, s, t, x, y, n)
    BY <1>3, <2>1 DEF ReadsSource
  <2> QED
    BY <2>2 DEF Leads
<1>4. CASE ReadsPatch(b, t, x, y, n)
  <2>1. HasNumber(b \o c, x.place, NumberFor(n, TargetRead))
    BY <1>0, <1>2, <1>4, NumberLonger DEF ReadsPatch
  <2>2. PICK p \in Nat : p = After(x.place, NumberFor(n, TargetRead)) /\ p >= 1
    BY <1>0, <1>2, AfterIs
  <2>3. /\ p + n - 1 <= Len(b) /\ Len(b) \in Nat /\ Len(c) \in Nat
        /\ Len(b \o c) = Len(b) + Len(c)
    BY <1>4, <2>2, Appended DEF ReadsPatch
  <2>4. ASSUME NEW i \in 1..n PROVE (b \o c)[p + i - 1] = t[x.pos + i]
    <3>1. p + i - 1 \in 1..Len(b)
      BY <2>2, <2>3
    <3>2. (b \o c)[p + i - 1] = b[p + i - 1]
      BY <3>1, Appended
    <3> QED
      BY <1>4, <2>2, <3>2 DEF ReadsPatch
  <2>5. p + n - 1 <= Len(b \o c)
    BY <2>2, <2>3
  <2>6. ReadsPatch(b \o c, t, x, y, n)
    BY <1>4, <2>1, <2>2, <2>4, <2>5 DEF ReadsPatch
  <2> QED
    BY <2>6 DEF Leads
<1>5. CASE \E d \in {1, 2} : CopiesTarget(b, t, x, y, n, d)
  <2>1. PICK d \in {1, 2} : CopiesTarget(b, t, x, y, n, d)
    BY <1>5
  <2>2. HasNumber(b \o c, x.place, NumberFor(n, TargetCopy))
    BY <1>0, <1>2, <2>1, NumberLonger DEF CopiesTarget
  <2>3. /\ After(x.place, NumberFor(n, TargetCopy)) \in Nat
        /\ After(x.place, NumberFor(n, TargetCopy)) >= 1
    BY <1>0, <1>2, AfterIs
  <2>4. (x.pos - x.cursor - d) * 2 \in Nat
    <3>1. x.cursor + d <= x.pos
      BY <2>1 DEF CopiesTarget
    <3>2. \A i, j, k \in Nat : j + k <= i => (i - j - k) * 2 \in Nat
      OBVIOUS
    <3> QED
      BY <1>0, <3>1, <3>2
  <2>5. HasNumber(b \o c, After(x.place, NumberFor(n, TargetCopy)), (x.pos - x.cursor - d) * 2)
    BY <2>1, <2>3, <2>4, NumberLonger DEF CopiesTarget
  <2>6. CopiesTarget(b \o c, t, x, y, n, d)
    BY <2>1, <2>2, <2>5 DEF CopiesTarget
  <2> QED
    BY <2>6 DEF Leads
<1> QED
  BY <1>1, <1>3, <1>4, <1>5

\* A command behind the body continues its chart.
LEMMA ChartLonger ==
    ASSUME NEW P, NEW b \in Seq(Byte), NEW c \in Seq(Byte), NEW s, NEW t, NEW first,
           NEW end, NEW last \in Marks,
           Chart(P, b, s, t, first, end), Leads(b \o c, s, t, end, last),
           last.place = Len(b \o c) + 1
    PROVE  Chart(P \cup {last}, b \o c, s, t, first, last)
<1>1. P \subseteq Marks /\ Mark(first, 0, 0) \in P /\ end \in P
  BY DEF Chart
<1>2. ASSUME NEW x \in P PROVE \E y \in P \cup {last} : Leads(b \o c, s, t, x, y)
  <2>1. CASE x = end
    BY <2>1
  <2>2. CASE x # end
    <3>1. PICK y \in P : Leads(b, s, t, x, y)
      BY <2>2 DEF Chart
    <3>2. Leads(b \o c, s, t, x, y)
      BY <1>1, <3>1, LeadsLonger
    <3> QED
      BY <3>2
  <2> QED
    BY <2>1, <2>2
<1> QED
  BY <1>1, <1>2 DEF Chart

-----------------------------------------------------------------------------
\* bps_create_linear: what it writes has a chart.

\* bps_too_big turns away what is too large for the format.
Limits ==
    cpc # "idle" /\ verdict # "bps_too_big" =>
        Len(source) < SizeLimit /\ Len(target) < SizeLimit

Bounded == at <= Len(target) /\ targetcopypos \in 0..Len(target)

Begins(b) == Holds(b, 1, Header)

\* The body b leads to offset pos of the target, and to the cursor cur.
Charts(b, pos, cur) ==
    /\ Begins(b)
    /\ \E P : Chart(P, b, source, target, Len(Header) + 1, Mark(Len(b) + 1, pos, cur))

\* The next run begins no less than its period behind the cursor of the reader:
\* no run of two begins where a run of one just ended.
Apart(pos, cur) ==
    \/ pos = 0 /\ cur = 0
    \/ cur + 2 <= pos
    \/ cur + 1 <= pos /\ (pos < Len(target) => T(pos - 2) # T(pos))

TailApart == Apart(at, targetcopypos)

\* Where the runs end inside the target the body has a chart.
ChartInv ==
    /\ Limits /\ Bounded /\ RunsEndInside
    /\ Writing => Charts(written, at, targetcopypos) /\ TailApart
    /\ cpc \in {"changed", "run"} => Len(target) > 0
    /\ HasPatch =>
           /\ Charts(written, at, targetcopypos) /\ at = Len(target)
           /\ created = Sealed(written, Crc(source), Crc(target))

LEMMA FileByte ==
    ASSUME CreateShape, NEW i \in Int
    PROVE  /\ i \in 0..(Len(target) - 1) => T(i) = target[i + 1] /\ T(i) \in Byte
           /\ i \in 0..(Len(source) - 1) => S(i) = source[i + 1]
<1>1. target \in Seq(Byte) /\ Len(target) \in Nat
  BY DEF CreateShape, Memory
<1>2. i \in 0..(Len(target) - 1) => i + 1 \in 1..Len(target)
  BY <1>1
<1>3. i \in 0..(Len(target) - 1) => target[i + 1] \in Byte
  BY <1>1, <1>2
<1> QED
  BY <1>3 DEF S, T

LEMMA Regroup ==
    ASSUME NEW a \in Seq(Byte), NEW b \in Seq(Byte), NEW c \in Seq(Byte)
    PROVE  a \o (b \o c) = (a \o b) \o c /\ b \o c \in Seq(Byte)
OBVIOUS

LEMMA MatchLeads ==
    ASSUME CreateShape, Offsets, Unchanged >= 1, NEW c, c = writenum[NumberFor(Unchanged, SourceRead)],
           targetcopypos \in Nat
    PROVE  /\ c \in Seq(Byte)
           /\ Mark(Len(written \o c) + 1, at + Unchanged, targetcopypos) \in Marks
           /\ Leads(written \o c, source, target, Mark(Len(written) + 1, at, targetcopypos),
                    Mark(Len(written \o c) + 1, at + Unchanged, targetcopypos))
<1> DEFINE n == Unchanged
           m == NumberFor(n, SourceRead)
           x == Mark(Len(written) + 1, at, targetcopypos)
           y == Mark(Len(written \o c) + 1, at + n, targetcopypos)
<1>0. /\ n \in Nat \ {0} /\ at + n <= Len(target) /\ at \in Nat
      /\ \A j \in 0..(n - 1) : at + j < SourceEnd /\ S(at + j) = T(at + j)
      /\ SourceEnd \in Nat /\ SourceEnd <= Len(source) /\ SourceEnd <= Len(target)
      /\ Len(source) \in Nat /\ Len(target) \in Nat
  BY UnchangedIs, SourceEndIs
<1> HIDE DEF n
<1>1. m \in Nat /\ written \in Seq(Byte) /\ c = writenum[m]
  BY <1>0, NumberForIs DEF CreateShape, n
<1> HIDE DEF m
<1>2. /\ c \in Seq(Byte) /\ written \o c \in Seq(Byte)
      /\ HasNumber(written \o c, Len(written) + 1, m)
      /\ After(Len(written) + 1, m) = Len(written \o c) + 1
  BY <1>1, NumberTail, WrittenWord
<1>3. at + n <= Len(source)
  <2>1. n - 1 \in 0..(n - 1)
    BY <1>0
  <2>2. at + (n - 1) < SourceEnd
    BY <1>0, <2>1
  <2> QED
    BY <1>0, <2>2
<1>4. ASSUME NEW i \in 1..n PROVE source[at + i] = target[at + i]
  <2>1. /\ i - 1 \in 0..(n - 1) /\ at + (i - 1) \in 0..(Len(target) - 1)
        /\ at + (i - 1) \in 0..(Len(source) - 1) /\ at + (i - 1) + 1 = at + i
    BY <1>0, <1>3
  <2>2. S(at + (i - 1)) = T(at + (i - 1))
    BY <1>0, <2>1
  <2>3. S(at + (i - 1)) = source[at + (i - 1) + 1] /\ T(at + (i - 1)) = target[at + (i - 1) + 1]
    BY <2>1, FileByte
  <2> QED
    BY <2>1, <2>2, <2>3
<1>5. x.place = Len(written) + 1 /\ x.pos = at /\ x.cursor = targetcopypos
  BY MarkIs
<1>6. ReadsSource(written \o c, source, target, x, y, n)
  <2> HIDE DEF x, y
  <2>1. y = Mark(After(x.place, m), x.pos + n, x.cursor)
    BY <1>2, <1>5 DEF y
  <2> QED
    BY <1>0, <1>2, <1>3, <1>4, <1>5, <2>1 DEF ReadsSource, m
<1>7. Leads(written \o c, source, target, x, y)
  <2> HIDE DEF x, y
  <2> QED
    BY <1>0, <1>6 DEF Leads
<1>8. y \in Marks
  <2>1. Len(written \o c) + 1 \in Nat /\ Len(written \o c) + 1 >= 1 /\ at + n \in Nat
    BY <1>0, <1>2
  <2> QED
    BY <2>1, MarkIs
<1> QED
  BY <1>2, <1>7, <1>8 DEF n

LEMMA LiteralLeads ==
    ASSUME CreateShape, NEW n \in Nat \ {0}, at + n <= Len(target), targetcopypos \in Nat,
           NEW c, c = writenum[NumberFor(n, TargetRead)] \o [i \in 1..n |-> T(at + i - 1)]
    PROVE  /\ c \in Seq(Byte)
           /\ Mark(Len(written \o c) + 1, at + n, targetcopypos) \in Marks
           /\ Leads(written \o c, source, target, Mark(Len(written) + 1, at, targetcopypos),
                    Mark(Len(written \o c) + 1, at + n, targetcopypos))
<1> DEFINE m == NumberFor(n, TargetRead)
           w == writenum[m]
           lit == [i \in 1..n |-> T(at + i - 1)]
           x == Mark(Len(written) + 1, at, targetcopypos)
           y == Mark(Len(written \o c) + 1, at + n, targetcopypos)
           p == After(Len(written) + 1, m)
<1>0. /\ at \in Nat /\ Len(target) \in Nat /\ written \in Seq(Byte)
      /\ m \in Nat
  BY NumberForIs DEF CreateShape, Memory
<1>1. lit \in Seq(Byte) /\ Len(lit) = n /\ \A i \in 1..n : lit[i] = T(at + i - 1)
  BY LiteralBytes
<1>2. c = w \o lit
  OBVIOUS
<1> HIDE DEF m, lit
<1>3. /\ w \in Seq(Byte) /\ written \o w \in Seq(Byte)
      /\ HasNumber(written \o w, Len(written) + 1, m)
      /\ p = Len(written \o w) + 1
  BY <1>0, NumberTail, WrittenWord
<1> HIDE DEF w, p
<1>4. written \o c = (written \o w) \o lit /\ c \in Seq(Byte)
  <2>1. written \o (w \o lit) = (written \o w) \o lit /\ w \o lit \in Seq(Byte)
    BY <1>0, <1>1, <1>3, Regroup
  <2> QED
    BY <1>2, <2>1
<1>5. HasNumber(written \o c, Len(written) + 1, m)
  <2>1. Len(written) + 1 \in Nat /\ Len(written) + 1 >= 1
    BY <1>0
  <2> DEFINE u == written \o w
  <2> HIDE DEF u
  <2>2. u \in Seq(Byte) /\ HasNumber(u, Len(written) + 1, m) /\ written \o c = u \o lit
    BY <1>3, <1>4 DEF u
  <2> QED
    BY <1>0, <1>1, <2>1, <2>2, NumberLonger
<1>6. /\ Holds(written \o c, p, lit)
      /\ Len(written \o c) = Len(written \o w) + n /\ Len(written \o w) \in Nat
  <2> DEFINE u == written \o w
  <2>1. u \in Seq(Byte) /\ p = Len(u) + 1 /\ written \o c = u \o lit
    BY <1>3, <1>4
  <2> HIDE DEF u
  <2>2. Holds(u \o lit, Len(u) + 1, lit)
    BY <1>1, <2>1, HoldsTail
  <2>3. lit \in Seq(Byte)
    BY <1>1
  <2>4. Len(u \o lit) = Len(u) + Len(lit) /\ Len(u) \in Nat
    BY <2>1, <2>3, Appended
  <2> QED
    BY <1>1, <2>1, <2>2, <2>4 DEF u
<1>7. p = Len(written \o w) + 1 /\ p \in Nat /\ p >= 1
  BY <1>3, <1>6
<1>8. p + n - 1 <= Len(written \o c) /\ p + n = Len(written \o c) + 1
  <2>1. \A i, j, k \in Nat : i = k + 1 /\ j = k + n => i + n - 1 <= j /\ i + n = j + 1
    OBVIOUS
  <2>2. Len(written \o c) \in Nat
    BY <1>6
  <2> QED
    BY <1>6, <1>7, <2>1, <2>2
<1>9. ASSUME NEW i \in 1..n PROVE (written \o c)[p + i - 1] = target[at + i]
  <2>1. (written \o c)[p + i - 1] = T(at + i - 1)
    BY <1>1, <1>6 DEF Holds
  <2>2. at + i - 1 \in 0..(Len(target) - 1) /\ at + i - 1 + 1 = at + i
    BY <1>0
  <2> DEFINE k == at + i - 1
  <2>3. (written \o c)[p + i - 1] = T(k) /\ k \in 0..(Len(target) - 1) /\ k + 1 = at + i
    BY <2>1, <2>2
  <2> HIDE DEF k
  <2>4. T(k) = target[k + 1]
    BY <2>3, FileByte
  <2> QED
    BY <2>3, <2>4
<1>10. x.place = Len(written) + 1 /\ x.pos = at /\ x.cursor = targetcopypos
  BY MarkIs
<1>11. ReadsPatch(written \o c, target, x, y, n)
  <2>1. After(x.place, NumberFor(n, TargetRead)) = p
    BY <1>10 DEF p, m
  <2>2. HasNumber(written \o c, x.place, NumberFor(n, TargetRead))
    BY <1>5, <1>10 DEF m
  <2>3. y = Mark(p + n, x.pos + n, x.cursor)
    BY <1>8, <1>10
  <2> HIDE DEF x, y
  <2> QED
    BY <1>8, <1>9, <1>10, <2>1, <2>2, <2>3 DEF ReadsPatch
<1>12. Leads(written \o c, source, target, x, y)
  <2> HIDE DEF x, y
  <2> QED
    BY <1>11 DEF Leads
<1>13. y \in Marks
  <2>1. Len(written \o c) + 1 \in Nat /\ Len(written \o c) + 1 >= 1 /\ at + n \in Nat
    BY <1>0, <1>6
  <2> QED
    BY <2>1, MarkIs
<1> QED
  BY <1>4, <1>12, <1>13

\* A run begins in the target, behind one that is its first period.
LEMMA PeriodInside ==
    ASSUME CreateShape, Offsets, RunsEndInside, Len(target) > 0, Period # 0
    PROVE  /\ at < Len(target) /\ Period <= at /\ at + Period < Len(target)
           /\ Period = 1 => T(at - 1) = T(at) /\ T(at) = T(at + 1)
           /\ Period = 2 => T(at - 2) = T(at) /\ T(at - 1) = T(at + 1)
<1>0. at \in Nat /\ Len(target) \in Nat /\ at <= Len(target)
  BY SourceEndIs
<1>1. PICK l \in Nat : l = Len(target) /\ l >= 1 /\ at <= l
  BY <1>0
<1>2. T(-1) # T(1) /\ T(l) # T(l - 1) /\ T(l) # T(l - 2)
  BY <1>1 DEF RunsEndInside
<1>3. CASE T(at - 2) = T(at) /\ T(at - 1) = T(at + 1) /\ T(at) = T(at + 2)
  <2>0. Period = 2
    BY <1>3 DEF Period
  <2>1. at # l
    BY <1>2, <1>3
  <2>2. at # l - 1
    <3>1. at = l - 1 => at - 1 = l - 2 /\ at + 1 = l
      BY <1>0, <1>1
    <3> QED
      BY <1>2, <1>3, <3>1
  <2>3. at # l - 2
    <3>1. at = l - 2 => at + 2 = l
      BY <1>0, <1>1
    <3> QED
      BY <1>2, <1>3, <3>1
  <2>4. at # 0
    <3>1. at = 0 => at - 1 = -1 /\ at + 1 = 1
      BY <1>0
    <3> QED
      BY <1>2, <1>3, <3>1
  <2>5. at # 1
    <3>1. at = 1 => at - 2 = -1
      BY <1>0
    <3> QED
      BY <1>2, <1>3, <3>1
  <2>6. at + 2 < l /\ 2 <= at
    BY <1>0, <1>1, <2>1, <2>2, <2>3, <2>4, <2>5
  <2> QED
    BY <1>0, <1>1, <1>3, <2>0, <2>6
<1>4. CASE /\ T(at - 1) = T(at) /\ T(at) = T(at + 1)
           /\ ~(T(at - 2) = T(at) /\ T(at - 1) = T(at + 1) /\ T(at) = T(at + 2))
  <2>0. Period = 1
    BY <1>4 DEF Period
  <2>1. at # l
    BY <1>2, <1>4
  <2>2. at # l - 1
    <3>1. at = l - 1 => at + 1 = l
      BY <1>0, <1>1
    <3> QED
      BY <1>2, <1>4, <3>1
  <2>3. at # 0
    <3>1. at = 0 => at - 1 = -1 /\ at + 1 = 1
      BY <1>0
    <3> QED
      BY <1>2, <1>4, <3>1
  <2>4. at + 1 < l /\ 1 <= at
    BY <1>0, <1>1, <2>1, <2>2, <2>3
  <2> QED
    BY <1>0, <1>1, <1>4, <2>0, <2>4
<1> QED
  BY <1>3, <1>4 DEF Period

\* It repeats its first period to its end, which is in the target, and behind a
\* run of one byte comes another byte.
LEMMA RunInside ==
    ASSUME CreateShape, Offsets, RunsEndInside, Len(target) > 0, Period # 0
    PROVE  /\ RunLength(Period) \in Nat /\ RunLength(Period) >= Period
           /\ at + RunLength(Period) <= Len(target)
           /\ \A i \in 1..RunLength(Period) :
                  target[at + i] = target[at - Period + 1 + ((i - 1) % Period)]
           /\ Period = 1 /\ at + RunLength(Period) < Len(target) =>
                  T(at + RunLength(Period) - 2) # T(at + RunLength(Period))
<1> DEFINE p == Period
           r == RunLength(p)
<1>0. /\ at \in Nat /\ Len(target) \in Nat /\ p \in {1, 2}
      /\ at < Len(target) /\ p <= at /\ at + p < Len(target)
      /\ p = 1 => T(at - 1) = T(at) /\ T(at) = T(at + 1)
      /\ p = 2 => T(at - 2) = T(at) /\ T(at - 1) = T(at + 1)
  BY SourceEndIs, PeriodIs, PeriodInside
<1>1. /\ r \in Nat /\ r % p = 0 /\ at + r <= Len(target) + 1
      /\ \A n \in Nat : n < r /\ n % p = 0 =>
             at + n < Len(target) /\ \A j \in 0..(p - 1) : T(at + j) = T(at + n + j)
      /\ \/ at + r >= Len(target)
         \/ \E j \in 0..(p - 1) : T(at + j) # T(at + r + j)
  BY <1>0, RunLengthIs, RunEnds
<1> HIDE DEF r, p
<1>2. CASE p = 1
  <2>1. \A n \in Nat : n < r => at + n < Len(target) /\ T(at) = T(at + n)
    <3> TAKE n \in Nat
    <3> HAVE n < r
    <3>1. n % p = 0 /\ 0 \in 0..(p - 1) /\ at + 0 = at /\ at + n + 0 = at + n
      BY <1>0, <1>2
    <3> QED
      BY <1>1, <3>1
  <2>2. at + r >= Len(target) \/ T(at) # T(at + r)
    <3>1. \A j \in 0..(p - 1) : at + j = at /\ at + r + j = at + r
      BY <1>0, <1>1, <1>2
    <3> QED
      BY <1>1, <3>1
  <2>3. r >= 2
    <3>1. r # 0
      BY <1>0, <1>2, <2>2
    <3>2. r # 1
      BY <1>0, <1>2, <2>2
    <3> QED
      BY <1>1, <3>1, <3>2
  <2>4. at + r <= Len(target)
    <3>1. r - 1 \in Nat /\ r - 1 < r
      BY <1>1, <2>3
    <3>2. at + (r - 1) < Len(target)
      BY <2>1, <3>1
    <3> QED
      BY <1>0, <1>1, <3>2
  <2>5. ASSUME NEW i \in 1..r PROVE target[at + i] = target[at - p + 1 + ((i - 1) % p)]
    <3>1. i - 1 \in Nat /\ i - 1 < r /\ at + (i - 1) + 1 = at + i /\ (i - 1) % p = 0
          /\ at - p + 1 + 0 = (at - 1) + 1 /\ at - 1 \in 0..(Len(target) - 1) /\ at - 1 \in Int
          /\ at + (i - 1) \in Int
      BY <1>0, <1>1, <1>2
    <3>2. at + (i - 1) < Len(target) /\ T(at) = T(at + (i - 1))
      BY <2>1, <3>1
    <3>3. at + (i - 1) \in 0..(Len(target) - 1)
      BY <1>0, <3>1, <3>2
    <3>4. T(at + (i - 1)) = target[at + (i - 1) + 1] /\ T(at - 1) = target[(at - 1) + 1]
      BY <3>1, <3>3, FileByte
    <3> QED
      BY <1>0, <1>2, <3>1, <3>2, <3>4
  <2>6. at + r < Len(target) => T(at + r - 2) # T(at + r)
    <3>1. r - 2 \in Nat /\ r - 2 < r /\ at + (r - 2) = at + r - 2
      BY <1>0, <1>1, <2>3
    <3>2. T(at) = T(at + r - 2)
      BY <2>1, <3>1
    <3> QED
      BY <1>0, <1>1, <2>2, <3>2
  <2> QED
    BY <1>1, <1>2, <2>3, <2>4, <2>5, <2>6 DEF r, p
<1>3. CASE p = 2
  <2>1. \A n \in Nat : n < r /\ n % 2 = 0 =>
            at + n < Len(target) /\ T(at) = T(at + n) /\ T(at + 1) = T(at + n + 1)
    <3> TAKE n \in Nat
    <3> HAVE n < r /\ n % 2 = 0
    <3>1. 0 \in 0..(p - 1) /\ 1 \in 0..(p - 1) /\ at + 0 = at /\ at + n + 0 = at + n
      BY <1>0, <1>3
    <3> QED
      BY <1>1, <1>3, <3>1
  <2>2. r # 0
    <3>1. r = 0 => \A j \in 0..(p - 1) : at + r + j = at + j
      BY <1>0
    <3> QED
      BY <1>0, <1>1, <3>1
  <2>3. r >= 2 /\ r - 2 \in Nat /\ r - 2 < r /\ (r - 2) % 2 = 0
    BY <1>1, <1>3, <2>2
  <2>4. at + r <= Len(target)
    <3>1. at + (r - 2) < Len(target) /\ T(at + 1) = T(at + (r - 2) + 1)
      BY <2>1, <2>3
    <3>2. T(Len(target)) # T(Len(target) - 2)
      BY DEF RunsEndInside
    <3>3. r # 2 => r - 4 \in Nat /\ r - 4 < r /\ (r - 4) % 2 = 0
      BY <1>1, <2>3
    <3>4. r # 2 => T(at + 1) = T(at + (r - 4) + 1)
      BY <2>1, <3>3
    <3>5. at + r = Len(target) + 1 => /\ r # 2 /\ at + (r - 2) + 1 = Len(target)
                                      /\ at + (r - 4) + 1 = Len(target) - 2
      BY <1>0, <1>1, <1>3
    <3>6. at + r # Len(target) + 1
      BY <3>1, <3>2, <3>4, <3>5
    <3> QED
      BY <1>0, <1>1, <3>6
  <2>5. ASSUME NEW i \in 1..r PROVE target[at + i] = target[at - p + 1 + ((i - 1) % p)]
    <3>1. CASE (i - 1) % 2 = 0
      <4>1. i - 1 \in Nat /\ i - 1 < r /\ at + (i - 1) + 1 = at + i
            /\ at - p + 1 + 0 = (at - 2) + 1 /\ at - 2 \in 0..(Len(target) - 1) /\ at - 2 \in Int
            /\ at + (i - 1) \in Int
        BY <1>0, <1>1, <1>3
      <4>2. at + (i - 1) < Len(target) /\ T(at) = T(at + (i - 1))
        BY <2>1, <3>1, <4>1
      <4>3. at + (i - 1) \in 0..(Len(target) - 1)
        BY <1>0, <4>1, <4>2
      <4>4. T(at + (i - 1)) = target[at + (i - 1) + 1] /\ T(at - 2) = target[(at - 2) + 1]
        BY <4>1, <4>3, FileByte
      <4> QED
        BY <1>0, <1>3, <3>1, <4>1, <4>2, <4>4
    <3>2. CASE (i - 1) % 2 = 1
      <4>0. i >= 2 /\ (i - 2) % 2 = 0
        BY <1>1, <3>2
      <4>1. i - 2 \in Nat /\ i - 2 < r /\ at + (i - 2) + 2 = at + i
            /\ at - p + 1 + 1 = (at - 1) + 1 /\ at - 1 \in 0..(Len(target) - 1) /\ at - 1 \in Int
            /\ at + (i - 2) + 1 \in Int
        BY <1>0, <1>1, <1>3, <4>0
      <4>2. T(at + 1) = T(at + (i - 2) + 1)
        BY <2>1, <4>0, <4>1
      <4>3. at + (i - 2) + 1 \in 0..(Len(target) - 1) /\ at + (i - 2) + 1 + 1 = at + i
        BY <1>0, <1>1, <2>4, <4>1
      <4>4. T(at + (i - 2) + 1) = target[at + (i - 2) + 1 + 1] /\ T(at - 1) = target[(at - 1) + 1]
        BY <4>1, <4>3, FileByte
      <4> QED
        BY <1>0, <1>3, <3>2, <4>1, <4>2, <4>3, <4>4
    <3>3. (i - 1) % 2 = 0 \/ (i - 1) % 2 = 1
      BY <1>1
    <3> QED
      BY <3>1, <3>2, <3>3
  <2> QED
    BY <1>1, <1>3, <2>3, <2>4, <2>5 DEF r, p
<1> QED
  BY <1>0, <1>2, <1>3

\* No number of a created patch is too big for a size_t.
LEMMA SmallNumbers ==
    ASSUME NEW n \in Nat, n < SizeLimit
    PROVE  /\ n * 2 <= SizeMax /\ Wrap(n * 2) = n * 2
           /\ \A action \in {SourceRead, TargetRead, TargetCopy} :
                  n >= 1 => /\ NumberFor(n, action) <= SizeMax
                            /\ Wrap(NumberFor(n, action)) = NumberFor(n, action)
<1>1. SizeMax \in Nat
  BY DigitsAre
<1>2. PICK q \in Nat : q = SizeMax \div 4 /\ 4 * q <= SizeMax
  <2>1. SizeMax \div 4 \in Nat /\ 4 * (SizeMax \div 4) <= SizeMax
    BY <1>1
  <2> QED
    BY <2>1
<1>3. n < q - 16
  BY <1>2 DEF SizeLimit
<1>4. ASSUME NEW i \in Nat, i <= SizeMax PROVE Wrap(i) = i
  BY <1>1, <1>4 DEF Wrap
<1>5. n * 2 \in Nat /\ n * 2 <= SizeMax
  BY <1>1, <1>2, <1>3
<1>6. ASSUME NEW action \in {SourceRead, TargetRead, TargetCopy}, n >= 1
      PROVE  NumberFor(n, action) \in Nat /\ NumberFor(n, action) <= SizeMax
  <2>1. action \in 0..3
    BY DEF SourceRead, TargetRead, TargetCopy
  <2>2. (n - 1) * 4 + action \in Nat /\ (n - 1) * 4 + action <= SizeMax
    BY <1>1, <1>2, <1>3, <1>6, <2>1
  <2> QED
    BY <2>2 DEF NumberFor
<1> QED
  BY <1>4, <1>5, <1>6

LEMMA RunLeads ==
    ASSUME CreateShape, Offsets, RunsEndInside, Len(target) < SizeLimit, Len(target) > 0,
           Period # 0, TailApart, targetcopypos \in 0..Len(target), NEW r, r = RunLength(Period),
           NEW c, c = writenum[Wrap((r - 1) * 4 + TargetCopy)]
                          \o writenum[Wrap((at - targetcopypos - Period) * 2)]
    PROVE  /\ c \in Seq(Byte)
           /\ Mark(Len(written \o c) + 1, at + r, at + r - Period) \in Marks
           /\ Leads(written \o c, source, target, Mark(Len(written) + 1, at, targetcopypos),
                    Mark(Len(written \o c) + 1, at + r, at + r - Period))
           /\ r \in Nat /\ r >= Period /\ at + r <= Len(target)
<1> DEFINE d == Period
           m == NumberFor(r, TargetCopy)
           w == writenum[m]
           g == (at - targetcopypos - d) * 2
           v == writenum[g]
           x == Mark(Len(written) + 1, at, targetcopypos)
           y == Mark(Len(written \o c) + 1, at + r, at + r - d)
           p == After(Len(written) + 1, m)
<1>0. /\ at \in Nat /\ Len(target) \in Nat /\ d \in {1, 2} /\ written \in Seq(Byte)
      /\ at < Len(target) /\ d <= at
      /\ d = 2 => T(at - 2) = T(at)
      /\ r \in Nat /\ r >= d /\ at + r <= Len(target)
      /\ \A i \in 1..r : target[at + i] = target[at - d + 1 + ((i - 1) % d)]
      /\ targetcopypos \in Nat
  BY SourceEndIs, PeriodIs, PeriodInside, RunInside DEF CreateShape
<1>1. targetcopypos + d <= at
  BY <1>0 DEF TailApart, Apart
<1> HIDE DEF d
<1>2. at - targetcopypos - d \in Nat /\ at - targetcopypos - d < SizeLimit
      /\ r \in Nat \ {0} /\ r < SizeLimit
  <2>1. SizeLimit \in Int
    <3>1. SizeMax \div 4 \in Int
      BY DigitsAre
    <3> QED
      BY <3>1 DEF SizeLimit
  <2> QED
    BY <1>0, <1>1, <2>1
<1>3. m \in Nat /\ Wrap(m) = m /\ g \in Nat /\ Wrap(g) = g
  <2>1. g \in Nat
    BY <1>2
  <2>2. m \in Nat
    BY <1>2, NumberForIs
  <2>3. Wrap(m) = m
    <3>1. r \in Nat /\ r >= 1
      BY <1>2
    <3> QED
      BY <1>2, <3>1, SmallNumbers
  <2>4. PICK k \in Nat : k = at - targetcopypos - d /\ k < SizeLimit
    BY <1>2
  <2>5. Wrap(k * 2) = k * 2
    BY <2>4, SmallNumbers
  <2>6. Wrap(g) = g
    BY <2>4, <2>5
  <2> QED
    BY <2>1, <2>2, <2>3, <2>6
<1>4. c = w \o v
  BY <1>3 DEF NumberFor, d
<1> HIDE DEF m, g
<1>5. /\ w \in Seq(Byte) /\ written \o w \in Seq(Byte)
      /\ HasNumber(written \o w, Len(written) + 1, m)
      /\ p = Len(written \o w) + 1
      /\ v \in Seq(Byte)
  BY <1>0, <1>3, NumberTail, WrittenWord
<1> DEFINE u == written \o w
<1>6. written \o c = u \o v /\ c \in Seq(Byte)
  <2>1. written \o (w \o v) = (written \o w) \o v /\ w \o v \in Seq(Byte)
    BY <1>0, <1>5, Regroup
  <2> QED
    BY <1>4, <2>1
<1>7. u \in Seq(Byte) /\ HasNumber(u, Len(written) + 1, m) /\ p = Len(u) + 1
  BY <1>5
<1> HIDE DEF u, p
<1>8. HasNumber(u \o v, Len(written) + 1, m)
  <2>1. Len(written) + 1 \in Nat /\ Len(written) + 1 >= 1
    BY <1>0
  <2> QED
    BY <1>3, <1>5, <1>7, <2>1, NumberLonger
<1>9. /\ HasNumber(u \o v, p, g) /\ u \o v \in Seq(Byte)
      /\ After(p, g) = Len(u \o v) + 1
  BY <1>3, <1>7, NumberTail
<1>10. x.place = Len(written) + 1 /\ x.pos = at /\ x.cursor = targetcopypos
  BY MarkIs
<1>11. CopiesTarget(written \o c, target, x, y, r, d)
  <2>1. After(x.place, NumberFor(r, TargetCopy)) = p
    BY <1>10 DEF p, m
  <2>2. HasNumber(written \o c, x.place, NumberFor(r, TargetCopy))
    BY <1>6, <1>8, <1>10 DEF m
  <2>3. (x.pos - x.cursor - d) * 2 = g
    BY <1>10 DEF g
  <2>4. y = Mark(After(p, g), x.pos + r, x.pos + r - d)
    BY <1>6, <1>9, <1>10
  <2>5. x.cursor + d <= x.pos /\ x.pos + r <= Len(target)
    BY <1>0, <1>1, <1>10
  <2>6. \A i \in 1..r : target[x.pos + i] = target[x.pos - d + 1 + ((i - 1) % d)]
    BY <1>0, <1>10
  <2>7. HasNumber(written \o c, After(x.place, NumberFor(r, TargetCopy)), (x.pos - x.cursor - d) * 2)
    BY <1>6, <1>9, <2>1, <2>3
  <2>8. y = Mark(After(After(x.place, NumberFor(r, TargetCopy)), (x.pos - x.cursor - d) * 2),
                 x.pos + r, x.pos + r - d)
    BY <2>1, <2>3, <2>4
  <2> HIDE DEF x, y
  <2> QED
    BY <2>2, <2>5, <2>6, <2>7, <2>8 DEF CopiesTarget
<1>12. Leads(written \o c, source, target, x, y)
  <2> HIDE DEF x, y
  <2> QED
    BY <1>0, <1>2, <1>11 DEF Leads
<1>13. y \in Marks
  <2>1. Len(written \o c) \in Nat
    BY <1>6, <1>9
  <2>2. \A l \in Nat : l + 1 \in Nat /\ l + 1 >= 1
    OBVIOUS
  <2>3. at + r \in Nat /\ at + r - d \in Nat
    BY SMTT(30), <1>0
  <2> QED
    BY <2>1, <2>2, <2>3, MarkIs
<1> QED
  BY <1>0, <1>6, <1>12, <1>13 DEF d

LEMMA ApartLater ==
    ASSUME CreateShape, Offsets, RunsEndInside, TailApart, targetcopypos \in Nat,
           NEW n \in Nat \ {0}, at + n <= Len(target)
    PROVE  Apart(at + n, targetcopypos)
<1>0. at \in Nat /\ Len(target) \in Nat
  BY SourceEndIs
<1>1. CASE at = 0 /\ targetcopypos = 0 /\ n = 1
  <2>1. T(-1) # T(1)
    BY <1>0, <1>1 DEF RunsEndInside
  <2>2. at + n = 1 /\ 1 - 2 = -1
    BY <1>1
  <2> QED
    BY <1>1, <2>1, <2>2 DEF Apart
<1>2. CASE at = 0 /\ targetcopypos = 0 /\ n # 1
  BY <1>2 DEF Apart
<1>3. CASE targetcopypos + 1 <= at
  BY <1>0, <1>3 DEF Apart
<1> QED
  BY <1>0, <1>1, <1>2, <1>3 DEF TailApart, Apart

\* A command written behind the body goes on from where it led.
LEMMA ChartsOn ==
    ASSUME CreateShape, Charts(written, at, targetcopypos), NEW c \in Seq(Byte), NEW pos, NEW cur,
           Mark(Len(written \o c) + 1, pos, cur) \in Marks,
           Leads(written \o c, source, target, Mark(Len(written) + 1, at, targetcopypos),
                 Mark(Len(written \o c) + 1, pos, cur))
    PROVE  Charts(written \o c, pos, cur)
<1> DEFINE x == Mark(Len(written) + 1, at, targetcopypos)
           y == Mark(Len(written \o c) + 1, pos, cur)
           first == Len(Header) + 1
<1>1. written \in Seq(Byte) /\ Header \in Seq(Byte)
  BY HeaderIs DEF CreateShape
<1>2. Begins(written \o c)
  BY <1>1, HoldsLonger DEF Charts, Begins
<1>3. PICK P : Chart(P, written, source, target, first, x)
  BY DEF Charts
<1>4. y.place = Len(written \o c) + 1 /\ y \in Marks
  BY MarkIs
<1>5. Leads(written \o c, source, target, x, y)
  OBVIOUS
<1>6. Chart(P \cup {y}, written \o c, source, target, first, y)
  <2> HIDE DEF x, y, first
  <2> QED
    BY <1>1, <1>3, <1>4, <1>5, ChartLonger
<1> QED
  BY <1>2, <1>6 DEF Charts

LEMMA SameFiles ==
    ASSUME UNCHANGED files
    PROVE  /\ Charts(written', at', targetcopypos') => Charts(written, at, targetcopypos)'
           /\ Apart(at', targetcopypos') => TailApart'
           /\ RunsEndInside => RunsEndInside'
<1>1. source' = source /\ target' = target /\ metadata' = metadata
  BY DEF files
<1>2. Header' = Header
  BY <1>1 DEF Header
<1> QED
  BY <1>1, <1>2 DEF Charts, Begins, TailApart, Apart, T, RunsEndInside

\* Inside a call the files are not too large, and stay.
LEMMA RestStays ==
    ASSUME CreateInv, ChartInv, cpc \notin {"idle", "done"}, UNCHANGED files
    PROVE  /\ Limits' /\ RunsEndInside'
           /\ Len(source) < SizeLimit /\ Len(target) < SizeLimit
<1>1. verdict = "bps_ok" /\ Len(source) < SizeLimit /\ Len(target) < SizeLimit
  BY DEF CreateInv, BufferInv, ChartInv, Limits
<1>2. Limits'
  BY <1>1 DEF Limits, files
<1> QED
  BY <1>1, <1>2, SameFiles DEF ChartInv

\* New files are not too large, or turned away.
LEMMA NewLimits == ASSUME Create PROVE Limits'
<1>1. PICK p \in Pairs : bps_create_linear(p.source, p.target, p.metadata)
  BY DEF Create
<1>2. Len(p.source) \in Nat /\ Len(p.target) \in Nat
  BY PairsAssumption DEF Memory
<1>3. SizeLimit \in Int
  <2>1. SizeMax \div 4 \in Int
    BY DigitsAre
  <2> QED
    BY <2>1 DEF SizeLimit
<1>4. source' = p.source /\ target' = p.target
  BY <1>1 DEF bps_create_linear
<1>5. verdict' # "bps_too_big" => ~(Len(p.source) >= SizeLimit) /\ ~(Len(p.target) >= SizeLimit)
  BY <1>1 DEF bps_create_linear
<1> QED
  BY <1>2, <1>3, <1>4, <1>5 DEF Limits

\* New files are charted from the start.
LEMMA ChartKeepsFiles ==
    ASSUME CreateInv, RunsEndInside', Create \/ FreePatch PROVE ChartInv'
<1>0. CreateShape /\ BufferInv
  BY DEF CreateInv
<1>1. CASE Create
  <2>1. PICK p \in Pairs : bps_create_linear(p.source, p.target, p.metadata)
    BY <1>1 DEF Create
  <2>3. /\ cpc' \in {"malloc", "done"} /\ ~held' /\ at' = 0 /\ targetcopypos' = 0
        /\ target' \in Memory
    BY <1>0, <2>1, PairsAssumption DEF bps_create_linear, BufferInv, CreateShape
  <2>6. Limits'
    BY <1>1, NewLimits
  <2>4. Len(target') \in Nat
    BY <2>3 DEF Memory
  <2> QED
    BY <2>3, <2>4, <2>6 DEF ChartInv, Bounded, Writing, HasPatch
<1>2. CASE FreePatch
  <2>1. cpc' = "idle" /\ target' = <<>> /\ at' = 0 /\ targetcopypos' = 0
    BY <1>2 DEF FreePatch
  <2>2. Len(<<>>) = 0
    OBVIOUS
  <2> QED
    BY <2>1, <2>2 DEF ChartInv, Limits, Bounded, Writing, HasPatch
<1> QED
  BY <1>1, <1>2

LEMMA ChartKeepsHeader ==
    ASSUME CreateInv, ChartInv, NoMemory \/ AllocateBuffer \/ WriteHeader PROVE ChartInv'
<1>0. CreateShape /\ BufferInv
  BY DEF CreateInv
<1>1. CASE NoMemory \/ AllocateBuffer
  <2>1. /\ cpc = "malloc" /\ cpc' \in {"header", "done"} /\ UNCHANGED <<files, at, targetcopypos>>
        /\ (cpc' = "done" => ~held')
    BY <1>0, <1>1 DEF NoMemory, AllocateBuffer, BufferInv
  <2>2. Limits' /\ RunsEndInside'
    BY <2>1, RestStays
  <2>3. Bounded'
    BY <2>1 DEF ChartInv, Bounded, files
  <2> QED
    BY <2>1, <2>2, <2>3 DEF ChartInv, Writing, HasPatch
<1>2. CASE WriteHeader
  <2>1. cpc = "header" /\ UNCHANGED <<files, at, targetcopypos>> /\ at = 0 /\ targetcopypos = 0
    BY <1>0, <1>2 DEF WriteHeader, CreateShape
  <2>2. Limits' /\ RunsEndInside'
    BY <2>1, RestStays
  <2>3. Bounded'
    BY <2>1 DEF ChartInv, Bounded, files
  <2>4. \/ cpc' = "loop" /\ written' = Header
        \/ cpc' = "done" /\ ~held'
    BY <1>0, <1>2, <2>1, HeaderIs, WriteKeepsRoom DEF WriteHeader
  <2>5. Charts(Header, 0, 0)
    <3> DEFINE x == Mark(Len(Header) + 1, 0, 0)
    <3>1. Header \in Seq(Byte) /\ Len(Header) \in Nat
      BY <1>0, HeaderIs
    <3>2. Begins(Header)
      <4>1. \A i \in 1..Len(Header) : 1 + i - 1 = i
        BY <3>1
      <4> QED
        BY <3>1, <4>1 DEF Begins, Holds
    <3>3. x \in Marks /\ x.place = Len(Header) + 1
      BY <3>1, MarkIs
    <3>4. Chart({x}, Header, source, target, Len(Header) + 1, x)
      <4> HIDE DEF x
      <4> QED
        BY <3>3 DEF Chart, x
    <3> QED
      BY <3>2, <3>4 DEF Charts
  <2>6. Apart(0, 0)
    BY DEF Apart
  <2>7. cpc' = "loop" => Charts(written, at, targetcopypos)' /\ TailApart'
    <3>1. at' = 0 /\ targetcopypos' = 0
      BY <2>1
    <3> QED
      BY <2>1, <2>4, <2>5, <2>6, <3>1, SameFiles
  <2> QED
    BY <2>2, <2>3, <2>4, <2>7 DEF ChartInv, Writing, HasPatch
<1> QED
  BY <1>1, <1>2

LEMMA ChartKeepsMatch == ASSUME CreateInv, ChartInv, MatchSource PROVE ChartInv'
<1>0. /\ CreateShape /\ BufferInv /\ cpc = "loop" /\ Writing /\ at < Len(target)
      /\ UNCHANGED <<files, targetcopypos>>
  BY DEF CreateInv, MatchSource, Writing
<1>1. Offsets /\ at \in Nat /\ Len(target) \in Nat /\ written \in Seq(Byte)
  <2>1. at <= Len(target)
    BY DEF ChartInv, Bounded
  <2>2. Offsets
    BY <1>0, <2>1, ShapeGivesOffsets
  <2> QED
    BY <1>0, <2>2, SourceEndIs DEF CreateShape
<1>2. /\ Charts(written, at, targetcopypos) /\ TailApart /\ targetcopypos \in 0..Len(target)
      /\ targetcopypos \in Nat
  BY <1>0 DEF ChartInv, Bounded, CreateShape
<1>3. Limits' /\ RunsEndInside'
  BY <1>0, RestStays
<1>4. CASE WorthReading(Unchanged)
  <2> DEFINE n == Unchanged
             c == writenum[(n - 1) * 4 + SourceRead]
  <2>1. n \in Nat /\ at + n <= Len(target)
    BY <1>1, UnchangedIs
  <2>2. n >= 1
    BY <1>0, <1>1, <1>4, <2>1 DEF WorthReading
  <2>3. WriteOrFail(written \o c, "changed") /\ at' = at + n
    BY <1>4 DEF MatchSource
  <2>4. c = writenum[NumberFor(n, SourceRead)]
    BY DEF NumberFor
  <2>5. /\ c \in Seq(Byte)
        /\ Mark(Len(written \o c) + 1, at + n, targetcopypos) \in Marks
        /\ Leads(written \o c, source, target, Mark(Len(written) + 1, at, targetcopypos),
                 Mark(Len(written \o c) + 1, at + n, targetcopypos))
    BY <1>0, <1>1, <1>2, <2>2, <2>4, MatchLeads
  <2> HIDE DEF n, c
  <2>6. Charts(written \o c, at + n, targetcopypos)
    BY <1>0, <1>2, <2>5, ChartsOn
  <2>7. Apart(at + n, targetcopypos)
    <3>1. n \in Nat \ {0}
      BY <2>1, <2>2
    <3> QED
      BY <1>0, <1>1, <1>2, <2>1, <3>1, ApartLater DEF ChartInv
  <2>8. \/ cpc' = "changed" /\ written' = written \o c
        \/ cpc' = "done" /\ ~held'
    <3>1. written \o c \in Seq(Byte)
      BY <1>1, <2>5, Appended
    <3> QED
      BY <1>0, <2>3, <3>1, WriteKeepsRoom
  <2>9. targetcopypos' = targetcopypos /\ target' = target
    BY <1>0 DEF files
  <2>10. cpc' = "changed" => Charts(written, at, targetcopypos)' /\ TailApart'
    BY <1>0, <2>3, <2>6, <2>7, <2>8, <2>9, SameFiles
  <2>11. Bounded' /\ Len(target') > 0
    BY <1>0, <1>1, <1>2, <2>1, <2>3, <2>9 DEF Bounded
  <2> QED
    BY <1>3, <2>8, <2>10, <2>11 DEF ChartInv, Writing, HasPatch
<1>5. CASE ~WorthReading(Unchanged)
  <2>1. cpc' = "changed" /\ UNCHANGED <<files, at, written, targetcopypos>>
    BY <1>5 DEF MatchSource
  <2>2. Charts(written', at', targetcopypos') /\ Apart(at', targetcopypos') /\ target' = target
    BY <1>2, <2>1 DEF TailApart, files
  <2>3. Charts(written, at, targetcopypos)' /\ TailApart'
    BY <2>1, <2>2, SameFiles
  <2>4. Bounded' /\ Len(target') > 0
    BY <1>0, <1>1, <1>2, <2>1, <2>2 DEF Bounded
  <2> QED
    BY <1>3, <2>1, <2>3, <2>4 DEF ChartInv, Writing, HasPatch
<1> QED
  BY <1>4, <1>5

\* Nothing is written, and the reader stays where it is.
LEMMA ChartKeepsIdle ==
    ASSUME CreateInv, ChartInv, Writing, cpc' \in {"loop", "run"}, cpc' = "run" => Len(target) > 0,
           UNCHANGED <<files, at, written, targetcopypos>>
    PROVE  ChartInv'
<1>1. Charts(written, at, targetcopypos) /\ TailApart /\ Bounded
  BY DEF ChartInv
<1>2. Charts(written', at', targetcopypos') /\ Apart(at', targetcopypos') /\ target' = target
  BY <1>1 DEF TailApart, files
<1>3. Charts(written, at, targetcopypos)' /\ TailApart'
  BY <1>2, SameFiles
<1>4. Limits' /\ RunsEndInside'
  BY RestStays DEF Writing
<1>5. Bounded'
  BY <1>1, <1>2 DEF Bounded
<1> QED
  BY <1>2, <1>3, <1>4, <1>5 DEF ChartInv, Writing, HasPatch

LEMMA ChartKeepsLiteral == ASSUME CreateInv, ChartInv, WriteLiteral PROVE ChartInv'
<1>0. /\ CreateShape /\ BufferInv /\ cpc = "changed" /\ Writing /\ Len(target) > 0
      /\ UNCHANGED <<files, targetcopypos>> /\ Changed > 0
  BY DEF CreateInv, ChartInv, WriteLiteral, Writing
<1>1. Offsets /\ at \in Nat /\ Len(target) \in Nat /\ written \in Seq(Byte)
  <2>1. at <= Len(target)
    BY DEF ChartInv, Bounded
  <2>2. Offsets
    BY <1>0, <2>1, ShapeGivesOffsets
  <2> QED
    BY <1>0, <2>2, SourceEndIs DEF CreateShape
<1>2. /\ Charts(written, at, targetcopypos) /\ TailApart /\ targetcopypos \in 0..Len(target)
      /\ targetcopypos \in Nat
  BY <1>0 DEF ChartInv, Bounded, CreateShape
<1>3. Limits' /\ RunsEndInside'
  BY <1>0, RestStays
<1> DEFINE n == Literal(Changed)
<1>4. n \in Nat /\ at + n <= Len(target)
  <2>1. Changed \in Nat /\ at + Changed <= Len(target)
    BY <1>1, ChangedIs
  <2>2. n \in Nat /\ n <= Changed
    BY <1>0, <1>1, <2>1, LiteralIs
  <2> HIDE DEF n
  <2> QED
    BY <1>1, <2>1, <2>2
<1>5. /\ at' = at + n
      /\ WriteOrFail(IF n = 0 THEN written
                     ELSE written \o writenum[(n - 1) * 4 + TargetRead]
                              \o [i \in 1..n |-> T(at + i - 1)], "run")
  BY DEF WriteLiteral
<1> HIDE DEF n
<1>6. CASE n = 0
  <2>1. WriteOrFail(written, "run") /\ at' = at
    BY <1>1, <1>5, <1>6
  <2>2. \/ cpc' = "run" /\ written' = written
        \/ cpc' = "done" /\ ~held'
    BY <1>0, <1>1, <2>1, WriteKeepsRoom
  <2>3. CASE cpc' = "run" /\ written' = written
    BY <1>0, <2>1, <2>3, ChartKeepsIdle
  <2>4. CASE cpc' = "done" /\ ~held'
    <3>1. Bounded'
      BY <1>0, <2>1 DEF ChartInv, Bounded, files
    <3> QED
      BY <1>3, <2>4, <3>1 DEF ChartInv, Writing, HasPatch
  <2> QED
    BY <2>2, <2>3, <2>4
<1>7. CASE n # 0
  <2> DEFINE lit == [i \in 1..n |-> T(at + i - 1)]
             w == writenum[(n - 1) * 4 + TargetRead]
             c == w \o lit
  <2>1. n \in Nat \ {0} /\ c = writenum[NumberFor(n, TargetRead)] \o [i \in 1..n |-> T(at + i - 1)]
    BY <1>4, <1>7 DEF NumberFor
  <2>2. w \in Seq(Byte) /\ lit \in Seq(Byte)
    <3>1. NumberFor(n, TargetRead) \in Nat
      BY <2>1, NumberForIs
    <3>2. lit \in Seq(Byte)
      BY <1>0, <1>4, LiteralBytes
    <3> QED
      BY <3>1, <3>2, WrittenWord DEF NumberFor
  <2>3. WriteOrFail(written \o w \o lit, "run")
    BY <1>5, <1>7
  <2> HIDE DEF lit, w
  <2>4. written \o w \o lit = written \o c
    BY <1>1, <2>2, Regroup
  <2> HIDE DEF c
  <2>5. /\ c \in Seq(Byte)
        /\ Mark(Len(written \o c) + 1, at + n, targetcopypos) \in Marks
        /\ Leads(written \o c, source, target, Mark(Len(written) + 1, at, targetcopypos),
                 Mark(Len(written \o c) + 1, at + n, targetcopypos))
    BY <1>0, <1>2, <1>4, <2>1, LiteralLeads
  <2>6. Charts(written \o c, at + n, targetcopypos)
    BY <1>0, <1>2, <2>5, ChartsOn
  <2>7. Apart(at + n, targetcopypos)
    BY <1>0, <1>1, <1>2, <1>4, <2>1, ApartLater DEF ChartInv
  <2>8. \/ cpc' = "run" /\ written' = written \o c
        \/ cpc' = "done" /\ ~held'
    <3>1. written \o c \in Seq(Byte)
      BY <1>1, <2>5, Appended
    <3> QED
      BY <1>0, <2>3, <2>4, <3>1, WriteKeepsRoom
  <2>9. targetcopypos' = targetcopypos /\ target' = target
    BY <1>0 DEF files
  <2>10. cpc' = "run" => Charts(written, at, targetcopypos)' /\ TailApart'
    BY <1>0, <1>5, <2>6, <2>7, <2>8, <2>9, SameFiles
  <2>11. Bounded' /\ Len(target') > 0
    BY <1>0, <1>1, <1>2, <1>4, <1>5, <2>9 DEF Bounded
  <2> QED
    BY <1>3, <2>8, <2>10, <2>11 DEF ChartInv, Writing, HasPatch
<1> QED
  BY <1>6, <1>7

LEMMA ChartKeepsRun == ASSUME CreateInv, ChartInv, CopyRun PROVE ChartInv'
<1>0. /\ CreateShape /\ BufferInv /\ cpc = "run" /\ Writing /\ Len(target) > 0
      /\ UNCHANGED files /\ Period > 0
  BY DEF CreateInv, ChartInv, CopyRun, Writing
<1>1. Offsets /\ at \in Nat /\ Len(target) \in Nat /\ written \in Seq(Byte)
  <2>1. at <= Len(target)
    BY DEF ChartInv, Bounded
  <2>2. Offsets
    BY <1>0, <2>1, ShapeGivesOffsets
  <2> QED
    BY <1>0, <2>2, SourceEndIs DEF CreateShape
<1>2. /\ Charts(written, at, targetcopypos) /\ TailApart /\ targetcopypos \in 0..Len(target)
      /\ targetcopypos \in Int
  BY <1>0 DEF ChartInv, Bounded, CreateShape
<1>3. Limits' /\ RunsEndInside' /\ Len(target) < SizeLimit
  BY <1>0, RestStays
<1>4. Period \in {1, 2} /\ Period # 0
  BY <1>0, PeriodIs
<1> DEFINE r == RunLength(Period)
           w == writenum[Wrap((r - 1) * 4 + TargetCopy)]
           v == writenum[Wrap((at - targetcopypos - Period) * 2)]
           c == w \o v
<1>5. /\ WriteOrFail(written \o w \o v, "loop")
      /\ at' = at + r /\ targetcopypos' = at + r - Period
  BY DEF CopyRun
<1>6. w \in Seq(Byte) /\ v \in Seq(Byte)
  <2>1. \A i \in Int : Wrap(i) \in Nat
    <3>1. SizeMax + 1 \in Nat /\ SizeMax + 1 >= 1
      BY DigitsAre
    <3> QED
      BY <3>1 DEF Wrap
  <2>2. r \in Nat
    BY <1>1, <1>4, RunLengthIs
  <2>3. (r - 1) * 4 + TargetCopy \in Int /\ (at - targetcopypos - Period) * 2 \in Int
    <3> HIDE DEF r
    <3> QED
      BY <1>1, <1>2, <1>4, <2>2 DEF TargetCopy
  <2> QED
    BY <2>1, <2>3, WrittenWord
<1>7. /\ c \in Seq(Byte)
      /\ Mark(Len(written \o c) + 1, at + r, at + r - Period) \in Marks
      /\ Leads(written \o c, source, target, Mark(Len(written) + 1, at, targetcopypos),
               Mark(Len(written \o c) + 1, at + r, at + r - Period))
      /\ r \in Nat /\ r >= Period /\ at + r <= Len(target)
  <2> DEFINE rr == r
             cc == c
  <2>1. rr = RunLength(Period)
        /\ cc = writenum[Wrap((rr - 1) * 4 + TargetCopy)]
                   \o writenum[Wrap((at - targetcopypos - Period) * 2)]
    OBVIOUS
  <2> HIDE DEF rr, cc
  <2>2. /\ cc \in Seq(Byte)
        /\ Mark(Len(written \o cc) + 1, at + rr, at + rr - Period) \in Marks
        /\ Leads(written \o cc, source, target, Mark(Len(written) + 1, at, targetcopypos),
                 Mark(Len(written \o cc) + 1, at + rr, at + rr - Period))
        /\ rr \in Nat /\ rr >= Period /\ at + rr <= Len(target)
    BY <1>0, <1>1, <1>2, <1>3, <1>4, <2>1, RunLeads DEF ChartInv
  <2> QED
    BY <2>2 DEF rr, cc
<1>8. Apart(at + r, at + r - Period)
  <2>1. Period = 1 /\ at + r < Len(target) => T(at + r - 2) # T(at + r)
    BY <1>0, <1>1, <1>4, RunInside DEF ChartInv
  <2> HIDE DEF r
  <2> QED
    BY <1>1, <1>4, <1>7, <2>1 DEF Apart
<1> HIDE DEF r, w, v
<1>9. written \o w \o v = written \o c
  BY <1>1, <1>6, Regroup
<1> HIDE DEF c
<1>10. Charts(written \o c, at + r, at + r - Period)
  BY <1>0, <1>2, <1>7, ChartsOn
<1>11. \/ cpc' = "loop" /\ written' = written \o c
       \/ cpc' = "done" /\ ~held'
  <2>1. written \o c \in Seq(Byte)
    BY <1>1, <1>7, Appended
  <2> QED
    BY <1>0, <1>5, <1>9, <2>1, WriteKeepsRoom
<1>12. cpc' = "loop" => Charts(written, at, targetcopypos)' /\ TailApart'
  BY <1>0, <1>5, <1>8, <1>10, <1>11, SameFiles
<1>13. Bounded'
  <2>1. target' = target
    BY <1>0 DEF files
  <2> QED
    BY <1>1, <1>4, <1>5, <1>7, <2>1 DEF Bounded
<1> QED
  BY <1>3, <1>11, <1>12, <1>13 DEF ChartInv, Writing, HasPatch

LEMMA ChartKeepsSeal == ASSUME CreateInv, ChartInv, Seal PROVE ChartInv'
<1>1. /\ cpc = "loop" /\ Writing /\ cpc' = "done" /\ at >= Len(target)
      /\ UNCHANGED <<files, at, targetcopypos, written>>
  BY DEF Seal, Writing
<1>2. Limits' /\ RunsEndInside'
  BY <1>1, RestStays
<1>3. Charts(written, at, targetcopypos) /\ Bounded /\ at = Len(target)
  BY <1>1 DEF ChartInv, Bounded, CreateInv, CreateShape, Memory
<1>4. source' = source /\ target' = target
  BY <1>1 DEF files
<1>5. Charts(written, at, targetcopypos)'
  BY <1>1, <1>3, SameFiles
<1>6. held' => created' = Sealed(written', Crc(source'), Crc(target'))
  BY <1>1, <1>4 DEF Seal
<1>7. Bounded'
  BY <1>1, <1>3, <1>4 DEF Bounded
<1> QED
  BY <1>1, <1>2, <1>3, <1>4, <1>5, <1>6, <1>7 DEF ChartInv, Writing, HasPatch

-----------------------------------------------------------------------------
\* bps_create_linear: what it writes begins with the header, whatever its runs.

BodyInv ==
    /\ Limits
    /\ targetcopypos \in -1..Len(target)
    /\ cpc \in {"changed", "run"} => Len(target) > 0
    /\ Writing => Begins(written)
    /\ HasPatch => Begins(written) /\ created = Sealed(written, Crc(source), Crc(target))

LEMMA SameHeader == ASSUME UNCHANGED files, Begins(written') PROVE Begins(written)'
<1>1. Header' = Header
  BY DEF Header, files
<1> QED
  BY <1>1 DEF Begins

\* A command that is written behind the header.
LEMMA WriteGoesOn ==
    ASSUME CreateShape, BufferInv, Writing, Begins(written), UNCHANGED files,
           NEW c \in Seq(Byte), NEW next, WriteOrFail(written \o c, next)
    PROVE  /\ \/ cpc' = next /\ written' = written \o c
              \/ cpc' = "done" /\ ~held'
           /\ Begins(written)'
<1>1. written \in Seq(Byte) /\ Header \in Seq(Byte)
  BY HeaderIs DEF CreateShape
<1>2. written \o c \in Seq(Byte)
  BY <1>1, Appended
<1>3. \/ cpc' = next /\ written' = written \o c
      \/ cpc' = "done" /\ ~held' /\ written' = written
  BY <1>2, WriteKeepsRoom
<1>4. Begins(written \o c)
  BY <1>1, HoldsLonger DEF Begins
<1>5. Begins(written')
  BY <1>3, <1>4
<1> QED
  BY <1>3, <1>5, SameHeader

LEMMA LimitsStay ==
    ASSUME CreateInv, Limits, cpc \notin {"idle", "done"}, UNCHANGED files PROVE Limits'
BY DEF CreateInv, BufferInv, Limits, files

LEMMA BodyKeepsFiles == ASSUME CreateInv, Create \/ FreePatch PROVE BodyInv'
<1>1. CASE Create
  <2>1. PICK p \in Pairs : bps_create_linear(p.source, p.target, p.metadata)
    BY <1>1 DEF Create
  <2>2. cpc' \in {"malloc", "done"} /\ ~held' /\ targetcopypos' = 0
    BY <2>1 DEF bps_create_linear, CreateInv, BufferInv, CreateShape
  <2>3. Len(p.target) \in Nat
    BY PairsAssumption DEF Memory
  <2>5. target' = p.target
    BY <2>1 DEF bps_create_linear
  <2>7. Limits'
    BY <1>1, NewLimits
  <2>8. targetcopypos' \in -1..Len(target')
    BY <2>2, <2>3, <2>5
  <2> QED
    BY <2>2, <2>7, <2>8 DEF BodyInv, Writing, HasPatch
<1>2. CASE FreePatch
  <2>1. cpc' = "idle" /\ target' = <<>> /\ targetcopypos' = 0 /\ Len(<<>>) = 0
    BY <1>2 DEF FreePatch
  <2> QED
    BY <2>1 DEF BodyInv, Limits, Writing, HasPatch
<1> QED
  BY <1>1, <1>2

LEMMA BodyKeepsHeader ==
    ASSUME CreateInv, BodyInv, NoMemory \/ AllocateBuffer \/ WriteHeader PROVE BodyInv'
<1>0. CreateShape /\ BufferInv /\ Limits
  BY DEF CreateInv, BodyInv
<1>1. CASE NoMemory \/ AllocateBuffer
  <2>1. /\ cpc = "malloc" /\ cpc' \in {"header", "done"} /\ UNCHANGED <<files, targetcopypos>>
        /\ (cpc' = "done" => ~held')
    BY <1>0, <1>1 DEF NoMemory, AllocateBuffer, BufferInv
  <2>2. Limits'
    BY <1>0, <2>1, LimitsStay
  <2> QED
    BY <2>1, <2>2 DEF BodyInv, Writing, HasPatch, files
<1>2. CASE WriteHeader
  <2>1. cpc = "header" /\ UNCHANGED <<files, targetcopypos>>
    BY <1>2 DEF WriteHeader
  <2>2. Limits'
    BY <1>0, <2>1, LimitsStay
  <2>3. \/ cpc' = "loop" /\ written' = Header
        \/ cpc' = "done" /\ ~held'
    BY <1>0, <1>2, <2>1, HeaderIs, WriteKeepsRoom DEF WriteHeader
  <2>4. Begins(Header)
    <3>1. Len(Header) \in Nat
      BY <1>0, HeaderIs
    <3>2. \A i \in 1..Len(Header) : 1 + i - 1 = i
      BY <3>1
    <3> QED
      BY <3>1, <3>2 DEF Begins, Holds
  <2>5. written' = Header => Begins(written)'
    BY <2>1, <2>4, SameHeader
  <2> QED
    BY <2>1, <2>2, <2>3, <2>5 DEF BodyInv, Writing, HasPatch, files
<1> QED
  BY <1>1, <1>2

LEMMA BodyKeepsLoop ==
    ASSUME CreateInv, BodyInv, MatchSource \/ NothingChanged \/ WriteLiteral \/ NoRun
    PROVE  BodyInv'
<1>0. /\ CreateShape /\ BufferInv /\ Limits /\ Writing /\ cpc \notin {"idle", "done"}
      /\ UNCHANGED <<files, targetcopypos>>
  BY DEF CreateInv, BodyInv, MatchSource, NothingChanged, WriteLiteral, NoRun, Writing
<1>1. Limits'
  BY <1>0, LimitsStay
<1>2. Begins(written) /\ written \in Seq(Byte) /\ at \in Nat /\ Len(target) \in Nat
  BY <1>0 DEF BodyInv, CreateShape, Memory
<1>3. /\ \/ cpc' = "loop"
         \/ cpc' \in {"changed", "run"} /\ Len(target) > 0
         \/ cpc' = "done" /\ ~held'
      /\ Begins(written)'
  <2>1. CASE NothingChanged \/ NoRun
    BY <1>0, <1>2, <2>1, SameHeader DEF NothingChanged, NoRun
  <2>2. CASE MatchSource /\ ~WorthReading(Unchanged)
    BY <1>0, <1>2, <2>2, SameHeader DEF MatchSource
  <2>3. CASE MatchSource /\ WorthReading(Unchanged)
    <3>1. at < Len(target) /\ Offsets
      BY <1>0, <1>2, <2>3, ShapeGivesOffsets DEF MatchSource
    <3>2. Unchanged \in Nat /\ Unchanged >= 1
      BY <1>2, <2>3, <3>1, UnchangedIs DEF WorthReading
    <3> DEFINE c == writenum[(Unchanged - 1) * 4 + SourceRead]
    <3>3. c \in Seq(Byte)
      <4>1. Unchanged \in Nat \ {0} /\ NumberFor(Unchanged, SourceRead) \in Nat
        BY <3>2, NumberForIs
      <4> QED
        BY <4>1, WrittenWord DEF NumberFor
    <3>4. WriteOrFail(written \o c, "changed")
      BY <2>3 DEF MatchSource
    <3> HIDE DEF c
    <3> QED
      BY <1>0, <1>2, <3>1, <3>3, <3>4, WriteGoesOn
  <2>4. CASE WriteLiteral
    <3>1. cpc = "changed" /\ Len(target) > 0 /\ Offsets /\ Changed > 0
      BY <1>0, <2>4, ShapeGivesOffsets DEF WriteLiteral, BodyInv, CreateShape
    <3> DEFINE n == Literal(Changed)
    <3>2. n \in Nat /\ at + n <= Len(target)
      <4>1. Changed \in Nat /\ at + Changed <= Len(target)
        BY <3>1, ChangedIs
      <4>2. n \in Nat /\ n <= Changed
        BY <1>2, <3>1, <4>1, LiteralIs
      <4> HIDE DEF n
      <4> QED
        BY <1>2, <4>1, <4>2
    <3>3. WriteOrFail(IF n = 0 THEN written
                      ELSE written \o writenum[(n - 1) * 4 + TargetRead]
                               \o [i \in 1..n |-> T(at + i - 1)], "run")
      BY <2>4 DEF WriteLiteral
    <3> HIDE DEF n
    <3> DEFINE lit == [i \in 1..n |-> T(at + i - 1)]
               w == writenum[(n - 1) * 4 + TargetRead]
               c == IF n = 0 THEN <<>> ELSE w \o lit
    <3>4. c \in Seq(Byte) /\ WriteOrFail(written \o c, "run")
      <4>1. CASE n = 0
        <5>1. c = <<>> /\ written \o <<>> = written
          BY <1>2, <4>1
        <5> QED
          BY <3>3, <4>1, <5>1
      <4>2. CASE n # 0
        <5>1. lit \in Seq(Byte)
          BY <1>0, <3>2, LiteralBytes
        <5>2. w \in Seq(Byte)
          <6>1. n \in Nat \ {0} /\ NumberFor(n, TargetRead) \in Nat
            BY <3>2, <4>2, NumberForIs
          <6> QED
            BY <6>1, WrittenWord DEF NumberFor
        <5>3. WriteOrFail(written \o w \o lit, "run")
          BY <3>3, <4>2
        <5> HIDE DEF lit, w
        <5>4. written \o w \o lit = written \o (w \o lit) /\ w \o lit \in Seq(Byte)
          BY <1>2, <5>1, <5>2, Regroup
        <5> QED
          BY <4>2, <5>3, <5>4
      <4> QED
        BY <4>1, <4>2
    <3> HIDE DEF c
    <3> QED
      BY <1>0, <1>2, <3>1, <3>4, WriteGoesOn
  <2> QED
    BY <2>1, <2>2, <2>3, <2>4
<1> QED
  BY <1>0, <1>1, <1>3 DEF BodyInv, Writing, HasPatch, files

LEMMA BodyKeepsRun == ASSUME CreateInv, BodyInv, CopyRun PROVE BodyInv'
<1>0. /\ CreateShape /\ BufferInv /\ Limits /\ Writing /\ cpc = "run" /\ UNCHANGED files
      /\ Period > 0 /\ Begins(written) /\ Len(target) > 0 /\ at <= Len(target)
  BY DEF CreateInv, BodyInv, CopyRun, Writing, CreateShape
<1>1. Offsets /\ at \in Nat /\ Len(target) \in Nat /\ written \in Seq(Byte) /\ targetcopypos \in Int
  <2>1. Offsets
    BY <1>0, ShapeGivesOffsets
  <2> QED
    BY <1>0, <2>1, SourceEndIs DEF CreateShape
<1>2. Period \in {1, 2}
  BY <1>0, PeriodIs
<1> DEFINE r == RunLength(Period)
           w == writenum[Wrap((r - 1) * 4 + TargetCopy)]
           v == writenum[Wrap((at - targetcopypos - Period) * 2)]
<1>3. /\ WriteOrFail(written \o w \o v, "loop")
      /\ targetcopypos' = at + r - Period
  BY DEF CopyRun
<1>4. /\ r \in Nat /\ at + r <= Len(target) + 1
      /\ r = 0 => at = Len(target)
      /\ r % Period = 0
  <2>1. /\ r \in Nat /\ at + r <= Len(target) + 1 /\ r % Period = 0
        /\ \/ at + r >= Len(target)
           \/ \E j \in 0..(Period - 1) : T(at + j) # T(at + r + j)
    BY <1>1, <1>2, RunLengthIs, RunEnds
  <2> HIDE DEF r
  <2>2. r = 0 => \A j \in 0..(Period - 1) : at + r + j = at + j
    BY <1>1
  <2> QED
    BY <1>0, <1>1, <2>1, <2>2
<1>5. w \in Seq(Byte) /\ v \in Seq(Byte)
  <2>1. \A i \in Int : Wrap(i) \in Nat
    <3>1. SizeMax + 1 \in Nat /\ SizeMax + 1 >= 1
      BY DigitsAre
    <3> QED
      BY <3>1 DEF Wrap
  <2>2. (r - 1) * 4 + TargetCopy \in Int /\ (at - targetcopypos - Period) * 2 \in Int
    <3> HIDE DEF r
    <3> QED
      BY <1>1, <1>2, <1>4 DEF TargetCopy
  <2> QED
    BY <2>1, <2>2, WrittenWord
<1> HIDE DEF w, v, r
<1>6. w \o v \in Seq(Byte) /\ WriteOrFail(written \o (w \o v), "loop")
  <2>1. written \o w \o v = written \o (w \o v) /\ w \o v \in Seq(Byte)
    BY <1>1, <1>5, Regroup
  <2> QED
    BY <1>3, <2>1
<1>7. Begins(written)' /\ (cpc' = "loop" \/ (cpc' = "done" /\ ~held'))
  <2> DEFINE c == w \o v
  <2>1. c \in Seq(Byte) /\ WriteOrFail(written \o c, "loop")
    BY <1>6
  <2> HIDE DEF c
  <2> QED
    BY <1>0, <2>1, WriteGoesOn
<1>8. targetcopypos' \in -1..Len(target)
  <2>1. Period = 2 => r # 1
    BY <1>4
  <2>2. at + r - Period >= -1 /\ at + r - Period <= Len(target)
    BY <1>0, <1>1, <1>2, <1>4, <2>1
  <2> QED
    BY <1>1, <1>2, <1>3, <1>4, <2>2
<1>9. Limits'
  BY <1>0, LimitsStay
<1> QED
  BY <1>0, <1>7, <1>8, <1>9 DEF BodyInv, Writing, HasPatch, files

LEMMA BodyKeepsSeal == ASSUME CreateInv, BodyInv, Seal PROVE BodyInv'
<1>1. /\ cpc = "loop" /\ Writing /\ cpc' = "done"
      /\ UNCHANGED <<files, at, targetcopypos, written>>
  BY DEF Seal, Writing
<1>2. Limits'
  BY <1>1, LimitsStay DEF BodyInv
<1>3. source' = source /\ target' = target
  BY <1>1 DEF files
<1>4. Begins(written)'
  BY <1>1, SameHeader DEF BodyInv
<1>5. held' => created' = Sealed(written', Crc(source'), Crc(target'))
  BY <1>1, <1>3 DEF Seal
<1> QED
  BY <1>1, <1>2, <1>3, <1>4, <1>5 DEF BodyInv, Writing, HasPatch

LEMMA BodyNext == CreateInv /\ BodyInv /\ [Next]_vars => BodyInv'
<1> SUFFICES ASSUME CreateInv, BodyInv, [Next]_vars PROVE BodyInv'
  OBVIOUS
<1>1. CASE Create \/ FreePatch
  BY <1>1, BodyKeepsFiles
<1>2. CASE Creating
  BY <1>2, BodyKeepsHeader, BodyKeepsLoop, BodyKeepsRun, BodyKeepsSeal DEF Creating, CreateStep
<1>3. CASE UNCHANGED createVars
  BY <1>3 DEF createVars, files, BodyInv, Limits, Begins, Header, Writing, HasPatch
<1> QED
  BY <1>1, <1>2, <1>3 DEF Next, ApplyCreated, ApplyForeign, Applying, FreeOutput, vars

LEMMA BodyBegins == Init => BodyInv
<1> SUFFICES ASSUME Init PROVE BodyInv
  OBVIOUS
<1>1. cpc = "idle" /\ target = <<>> /\ targetcopypos = 0 /\ Len(<<>>) = 0
  BY DEF Init, CreateInit
<1> QED
  BY <1>1 DEF BodyInv, Limits, Writing, HasPatch

LEMMA BodyAlways == Spec => []BodyInv
BY BodyBegins, BodyNext, CreateAlways, PTL DEF Spec

-----------------------------------------------------------------------------
\* The chart, as long as the files let the runs end inside the target.

Charted == RunsEndInside => ChartInv

LEMMA ChartNext == CreateInv /\ Charted /\ [Next]_vars => Charted'
<1> SUFFICES ASSUME CreateInv, Charted, [Next]_vars, RunsEndInside' PROVE ChartInv'
  BY DEF Charted
<1>1. CASE Create \/ FreePatch
  BY <1>1, ChartKeepsFiles
<1>2. ASSUME UNCHANGED files PROVE ChartInv
  <2>1. RunsEndInside' => RunsEndInside
    BY <1>2 DEF files, RunsEndInside, T
  <2> QED
    BY <2>1 DEF Charted
<1>3. CASE Creating
  <2>1. UNCHANGED files
    BY <1>3 DEF Creating, CreateStep, NoMemory, AllocateBuffer, WriteHeader, MatchSource,
                NothingChanged, WriteLiteral, NoRun, CopyRun, Seal
  <2>2. ChartInv
    BY <1>2, <2>1
  <2>3. CASE NothingChanged \/ NoRun
    <3>1. Writing /\ cpc' = "loop" /\ UNCHANGED <<files, at, written, targetcopypos>>
      BY <2>3 DEF NothingChanged, NoRun, Writing
    <3> QED
      BY <2>2, <3>1, ChartKeepsIdle
  <2> QED
    BY <1>3, <2>2, <2>3, ChartKeepsHeader, ChartKeepsMatch, ChartKeepsLiteral, ChartKeepsRun,
       ChartKeepsSeal DEF Creating, CreateStep
<1>4. CASE UNCHANGED createVars
  <2>1. ChartInv
    BY <1>2, <1>4 DEF createVars
  <2> QED
    BY <1>4, <2>1 DEF createVars, files, ChartInv, Limits, Bounded, RunsEndInside, Charts, Begins,
              Header, TailApart, Apart, T, Writing, HasPatch
<1> QED
  BY <1>1, <1>3, <1>4 DEF Next, ApplyCreated, ApplyForeign, Applying, FreeOutput, vars

LEMMA ChartBegins == Init => Charted
<1> SUFFICES ASSUME Init, RunsEndInside PROVE ChartInv
  BY DEF Charted
<1>1. cpc = "idle" /\ target = <<>> /\ at = 0 /\ targetcopypos = 0 /\ Len(<<>>) = 0
  BY DEF Init, CreateInit
<1> QED
  BY <1>1 DEF ChartInv, Limits, Bounded, Writing, HasPatch

\* Between the calls and inside them the body has a chart.
LEMMA ChartAlways == Spec => []Charted
BY ChartBegins, ChartNext, CreateAlways, PTL DEF Spec

-----------------------------------------------------------------------------
\* bps_apply reads what bps_create_linear wrote.

LEMMA GoodIs ==
    ASSUME NEW n, NEW after
    PROVE  /\ Good(n, after).status = "ok" /\ Good(n, after).value = n
           /\ Good(n, after).at = after
BY DEF Good

\* The next word of a body is a number, and words follow.
LEMMA ReadsNumber ==
    ASSUME NEW b \in Seq(Byte), NEW p \in Nat, p >= 1, NEW n \in Nat, n <= SizeMax,
           NEW rest \in Seq(Byte), Holds(b, p, writenum[n] \o rest)
    PROVE  /\ decodenum(b, p).status = "ok" /\ decodenum(b, p).value = n
           /\ decodenum(b, p).at = After(p, n) /\ After(p, n) \in Nat /\ After(p, n) > p
           /\ Holds(b, After(p, n), rest)
<1>1. writenum[n] \in Seq(Byte) /\ After(p, n) \in Nat /\ After(p, n) > p
  BY WrittenWord
<1>2. Holds(b, p, writenum[n]) /\ Holds(b, p + Len(writenum[n]), rest)
  <2> DEFINE w == writenum[n]
  <2>1. w \in Seq(Byte) /\ Holds(b, p, w \o rest)
    BY <1>1
  <2> HIDE DEF w
  <2>2. Holds(b, p, w) /\ Holds(b, p + Len(w), rest)
    BY <2>1, HoldsParts
  <2> QED
    BY <2>2 DEF w
<1>3. HasNumber(b, p, n)
  BY <1>2, HoldsNumber
<1>4. decodenum(b, p) = Good(n, After(p, n))
  BY <1>3, DecodesWritten
<1> QED
  BY <1>1, <1>2, <1>4, GoodIs DEF After

\* The header of a created patch gives the three lengths; the metadata and the
\* first command follow.
LEMMA HeaderReads ==
    ASSUME CreateShape, NEW p, p.body \in Seq(Byte), Begins(p.body)
    PROVE  /\ SizeIn(p).status = "ok" /\ SizeIn(p).value = Len(source)
           /\ SizeOut(p).status = "ok" /\ SizeOut(p).value = Len(target)
           /\ SizeMeta(p).status = "ok" /\ SizeMeta(p).value = Len(metadata)
           /\ SizeMeta(p).at \in Nat /\ SizeMeta(p).at >= 4
           /\ Holds(p.body, SizeMeta(p).at, metadata)
           /\ SizeMeta(p).at + Len(metadata) = Len(Header) + 1
           /\ Len(p.body) >= 3
<1> DEFINE b == p.body
           w1 == writenum[Len(source)]
           w2 == writenum[Len(target)]
           w3 == writenum[Len(metadata)]
<1>0. /\ Len(source) \in Nat /\ Len(target) \in Nat /\ Len(metadata) \in Nat
      /\ Len(source) <= SizeMax /\ Len(target) <= SizeMax /\ Len(metadata) <= SizeMax
      /\ metadata \in Seq(Byte) /\ b \in Seq(Byte)
  <2>1. /\ source \in Memory /\ target \in Memory /\ metadata \in Memory
        /\ SizeMax \in Nat /\ InAddress \in Nat
    BY AddressAssumption, DigitsAre DEF CreateShape
  <2>2. \A s \in Memory : Len(s) \in Nat /\ InAddress + Len(s) <= SizeMax /\ s \in Seq(Byte)
    BY DEF Memory
  <2> QED
    BY <2>1, <2>2
<1>1. /\ w1 \in Seq(Byte) /\ w2 \in Seq(Byte) /\ w3 \in Seq(Byte)
      /\ Len(w1) \in Nat /\ Len(w2) \in Nat /\ Len(w3) \in Nat
      /\ Len(w1) >= 1 /\ Len(w2) >= 1 /\ Len(w3) >= 1
  BY <1>0, WrittenWord
<1>2. Header = w1 \o w2 \o w3 \o metadata
  BY DEF Header
<1> HIDE DEF w1, w2, w3, b
<1> DEFINE r2 == w3 \o metadata
           r1 == w2 \o r2
<1>3. Header = w1 \o r1 /\ r1 \in Seq(Byte) /\ r2 \in Seq(Byte)
  <2>1. w1 \o w2 \in Seq(Byte) /\ r2 \in Seq(Byte)
    BY <1>0, <1>1, Appended
  <2>2. Header = (w1 \o w2) \o r2
    <3> DEFINE u == w1 \o w2
    <3>1. u \in Seq(Byte) /\ Header = u \o w3 \o metadata
      BY <1>2, <2>1
    <3> HIDE DEF u
    <3>2. u \in Seq(Byte) /\ w3 \in Seq(Byte) /\ metadata \in Seq(Byte)
      BY <1>0, <1>1, <3>1
    <3>3. u \o (w3 \o metadata) = u \o w3 \o metadata
      BY <3>2, Regroup
    <3> QED
      BY <3>1, <3>3 DEF u
  <2> HIDE DEF r2
  <2>3. (w1 \o w2) \o r2 = w1 \o (w2 \o r2) /\ w2 \o r2 \in Seq(Byte)
    BY SMTT(30), <1>1, <2>1, Regroup
  <2> QED
    BY <2>1, <2>2, <2>3
<1> HIDE DEF r1, r2
<1>4. Holds(b, 1, w1 \o r1)
  BY <1>3 DEF Begins, b
<1> DEFINE p1 == After(1, Len(source))
           p2 == After(p1, Len(target))
           p3 == After(p2, Len(metadata))
<1>5. /\ decodenum(b, 1).status = "ok" /\ decodenum(b, 1).value = Len(source)
      /\ decodenum(b, 1).at = p1 /\ p1 \in Nat /\ p1 > 1
      /\ Holds(b, p1, w2 \o r2)
  <2>1. Holds(b, 1, writenum[Len(source)] \o r1)
    BY <1>4 DEF w1
  <2>2. /\ decodenum(b, 1).status = "ok" /\ decodenum(b, 1).value = Len(source)
        /\ decodenum(b, 1).at = p1 /\ p1 \in Nat /\ p1 > 1 /\ Holds(b, p1, r1)
    BY <1>0, <1>3, <2>1, ReadsNumber
  <2> QED
    BY <2>2 DEF r1
<1> HIDE DEF p1
<1>6. /\ decodenum(b, p1).status = "ok" /\ decodenum(b, p1).value = Len(target)
      /\ decodenum(b, p1).at = p2 /\ p2 \in Nat /\ p2 > p1
      /\ Holds(b, p2, w3 \o metadata)
  <2>1. p1 >= 1 /\ Holds(b, p1, writenum[Len(target)] \o r2)
    BY <1>5 DEF w2
  <2>2. /\ decodenum(b, p1).status = "ok" /\ decodenum(b, p1).value = Len(target)
        /\ decodenum(b, p1).at = p2 /\ p2 \in Nat /\ p2 > p1 /\ Holds(b, p2, r2)
    BY <1>0, <1>3, <1>5, <2>1, ReadsNumber
  <2> QED
    BY <2>2 DEF r2
<1> HIDE DEF p2
<1>7. /\ decodenum(b, p2).status = "ok" /\ decodenum(b, p2).value = Len(metadata)
      /\ decodenum(b, p2).at = p3 /\ p3 \in Nat /\ p3 > p2
      /\ Holds(b, p3, metadata)
  <2>1. p2 >= 1
    BY <1>5, <1>6
  <2> QED
    BY <1>0, <1>3, <1>6, <2>1, ReadsNumber DEF w3
<1>8. p3 + Len(metadata) = Len(Header) + 1
  <2>1. p1 = 1 + Len(w1)
    BY DEF p1, After, w1
  <2>2. p2 = p1 + Len(w2)
    BY DEF p2, After, w2
  <2>3. p3 = p2 + Len(w3)
    BY DEF p3, After, w3
  <2>4. Len(Header) = Len(w1) + Len(w2) + Len(w3) + Len(metadata)
    <3>1. \A s, t, u, v \in Seq(Byte) :
              Len(s \o t \o u \o v) = Len(s) + Len(t) + Len(u) + Len(v)
      OBVIOUS
    <3> QED
      BY <1>0, <1>1, <1>2, <3>1
  <2> QED
    BY <1>0, <1>1, <2>1, <2>2, <2>3, <2>4
<1> HIDE DEF p3
<1>9. p3 >= 4
  BY <1>5, <1>6, <1>7
<1>10. Len(b) >= 3
  <2>1. p3 + Len(metadata) - 1 <= Len(b) /\ Len(b) \in Nat
    BY <1>0, <1>7 DEF Holds
  <2> QED
    BY <1>0, <1>7, <1>9, <2>1
<1> QED
  BY <1>5, <1>6, <1>7, <1>8, <1>9, <1>10 DEF SizeIn, SizeOut, SizeMeta, b

\* The next command of a created patch is decoded as it was written.
LEMMA CommandDecoded ==
    ASSUME CursorInv, NEW n \in Nat \ {0}, n < SizeLimit,
           NEW action \in {SourceRead, TargetRead, TargetCopy},
           HasNumber(patch.body, patchat, NumberFor(n, action))
    PROVE  /\ Command.status = "ok" /\ Length = n
           /\ Command.at = After(patchat, NumberFor(n, action))
           /\ \A a : IsA(a) <=> a = action
           /\ NeedsDistance => action = TargetCopy
           /\ patchat <= Len(patch.body)
<1>1. /\ patch.body \in Seq(Byte) /\ patchat \in Nat /\ patchat >= 1
      /\ NumberFor(n, action) \in Nat
      /\ NumberFor(n, action) \div 4 + 1 = n /\ NumberFor(n, action) % 4 = action
  BY NumberForIs DEF CursorInv
<1>2. NumberFor(n, action) <= SizeMax
  <2>1. n \in Nat /\ n >= 1
    OBVIOUS
  <2> QED
    BY <2>1, SmallNumbers
<1>3. Command = Good(NumberFor(n, action), After(patchat, NumberFor(n, action)))
  BY <1>1, <1>2, DecodesWritten DEF Command
<1>4. /\ Command.status = "ok" /\ Command.value = NumberFor(n, action)
      /\ Command.at = After(patchat, NumberFor(n, action))
  BY <1>3, GoodIs
<1>5. patchat <= Len(patch.body)
  <2> DEFINE w == writenum[NumberFor(n, action)]
  <2>1. Len(w) \in Nat /\ Len(w) >= 1 /\ patchat + Len(w) - 1 <= Len(patch.body)
    BY <1>1, WrittenWord DEF HasNumber
  <2> HIDE DEF w
  <2> QED
    BY <1>1, <2>1
<1>6. Length = n /\ \A a : IsA(a) <=> a = action
  BY <1>1, <1>4 DEF Length, IsA
<1>7. NeedsDistance => action = TargetCopy
  BY <1>1, <1>4 DEF NeedsDistance, SourceRead, TargetRead, SourceCopy, TargetCopy
<1> QED
  BY <1>4, <1>5, <1>6, <1>7

\* Its distance, too.
LEMMA DistanceDecoded ==
    ASSUME CursorInv, NEW d \in Nat, d < SizeLimit, HasNumber(patch.body, Command.at, d * 2)
    PROVE  /\ Distance.status = "ok" /\ Distance.at = After(Command.at, d * 2)
           /\ \A c \in Nat : Moved(c) = c + d
<1>1. patch.body \in Seq(Byte) /\ Command.at \in Nat /\ Command.at >= 1
  BY CommandIs DEF CursorInv
<1>2. d * 2 \in Nat /\ d * 2 <= SizeMax /\ (d * 2) % 2 = 0 /\ (d * 2) \div 2 = d
  BY SmallNumbers
<1>3. Distance = Good(d * 2, After(Command.at, d * 2))
  BY <1>1, <1>2, DecodesWritten DEF Distance
<1>4. /\ Distance.status = "ok" /\ Distance.value = d * 2
      /\ Distance.at = After(Command.at, d * 2)
  BY <1>3, GoodIs
<1> QED
  BY <1>2, <1>4 DEF Moved, MovedBy, Forward

\* s is a beginning of t, and w goes on in it behind k elements.
PrefixOf(s, t) == \A i \in 1..Len(s) : s[i] = t[i]
GoesOn(w, k, t) == \A i \in 1..Len(w) : w[i] = t[k + i]

LEMMA PrefixLonger ==
    ASSUME NEW s \in Seq(Byte), NEW w \in Seq(Byte), NEW t, NEW r, r = s \o w,
           PrefixOf(s, t), GoesOn(w, Len(s), t)
    PROVE  r \in Seq(Byte) /\ Len(r) = Len(s) + Len(w) /\ PrefixOf(r, t)
<1>1. /\ r \in Seq(Byte) /\ Len(r) = Len(s) + Len(w)
      /\ Len(s) \in Nat /\ Len(w) \in Nat
      /\ \A i \in 1..Len(s) : r[i] = s[i]
      /\ \A i \in 1..Len(w) : r[Len(s) + i] = w[i]
  BY Appended
<1>2. ASSUME NEW i \in 1..Len(r) PROVE r[i] = t[i]
  <2>1. CASE i <= Len(s)
    BY <1>1, <2>1 DEF PrefixOf
  <2>2. CASE i > Len(s)
    <3>1. PICK j \in 1..Len(w) : i = Len(s) + j
      <4>1. i - Len(s) \in 1..Len(w) /\ i = Len(s) + (i - Len(s))
        BY <1>1, <2>2
      <4> QED
        BY <4>1
    <3>2. r[Len(s) + j] = w[j] /\ w[j] = t[Len(s) + j]
      BY <1>1 DEF GoesOn
    <3> QED
      BY <3>1, <3>2
  <2> QED
    BY <1>1, <2>1, <2>2
<1> QED
  BY <1>1, <1>2 DEF PrefixOf

\* bps_apply is at the mark x, and has written what of the target is before it.
ReaderAt(x) ==
    /\ patchat = x.place /\ Len(out) = x.pos /\ outreadat = x.cursor
    /\ PrefixOf(out, target)

\* It applies a patch of the source to the source.
AppliesToSource ==
    /\ CursorInv /\ apc = "commands" /\ in = source /\ outlen = Len(target)
    /\ source \in Seq(Byte) /\ target \in Seq(Byte) /\ Len(target) < SizeLimit

\* It takes the command from there, and no other.
TakesOnly(action, y) ==
    /\ More /\ CommandErrors = {} /\ ~Strays
    /\ \A a : IsA(a) <=> a = action
    /\ DoSourceRead \/ DoTargetRead \/ DoTargetCopy => ReaderAt(y)'

\* A command that is no copy from the source, and whose numbers end well, does not
\* go astray.
LEMMA NoStray ==
    ASSUME apc = "commands", Command.status = "ok", ~IsA(SourceCopy),
           ~NeedsDistance \/ Distance.status = "ok"
    PROVE  ~Strays
BY DEF Strays, MetadataAstray, SourceCopyAstray, NumberAstray

LEMMA TakesSourceRead ==
    ASSUME AppliesToSource, NEW x \in Marks, ReaderAt(x), NEW y, NEW n \in Nat \ {0},
           ReadsSource(patch.body, source, target, x, y, n), UNCHANGED target
    PROVE  TakesOnly(SourceRead, y)
<1>0. /\ CursorInv /\ Len(out) \in Nat /\ Len(target) \in Nat /\ Len(in) \in Nat
      /\ out \in Seq(Byte) /\ in \in Seq(Byte) /\ Len(out) = x.pos
      /\ Len(out) + n <= outlen /\ Len(out) + n <= Len(in) /\ n < SizeLimit
  <2>1. SizeLimit \in Int
    <3>1. SizeMax \div 4 \in Int
      BY DigitsAre
    <3> QED
      BY <3>1 DEF SizeLimit
  <2> QED
    BY <2>1 DEF AppliesToSource, CursorInv, ReaderAt, ReadsSource
<1>1. /\ Command.status = "ok" /\ Length = n
      /\ Command.at = After(patchat, NumberFor(n, SourceRead))
      /\ \A a : IsA(a) <=> a = SourceRead
      /\ ~NeedsDistance /\ patchat <= Len(patch.body)
  <2>1. HasNumber(patch.body, patchat, NumberFor(n, SourceRead))
    BY DEF ReaderAt, ReadsSource
  <2>2. SourceRead # TargetCopy
    BY DEF SourceRead, TargetCopy
  <2> QED
    BY <1>0, <2>1, <2>2, CommandDecoded
<1>2. More /\ CommandErrors = {} /\ ~Strays
  <2>1. SourceReadFits
    BY <1>0, <1>1 DEF SourceReadFits, Fits
  <2>2. SourceRead # TargetRead /\ SourceRead # SourceCopy /\ SourceRead # TargetCopy
    BY DEF SourceRead, TargetRead, SourceCopy, TargetCopy
  <2>3. ~Strays
    <3>1. apc = "commands" /\ ~IsA(SourceCopy)
      BY <1>1, <2>2 DEF AppliesToSource
    <3> QED
      BY <1>1, <3>1, NoStray
  <2> QED
    BY <1>1, <2>1, <2>2, <2>3 DEF More, AppliesToSource, CommandErrors
<1>3. ASSUME DoSourceRead \/ DoTargetRead \/ DoTargetCopy PROVE ReaderAt(y)'
  <2>1. DoSourceRead
    BY <1>1, <1>3 DEF DoTargetRead, DoTargetCopy, SourceRead, TargetRead, TargetCopy
  <2> DEFINE w == SubSeq(in, Len(out) + 1, Len(out) + n)
  <2>2. /\ w \in Seq(Byte) /\ Len(w) = n
        /\ \A i \in 1..n : w[i] = in[Len(out) + i]
    <3>1. PICK l \in Nat : l = Len(out)
      BY <1>0
    <3> HIDE DEF w
    <3>2. n \in Nat /\ l + n <= Len(in) /\ in \in Seq(Byte)
      BY <1>0, <3>1
    <3>3. /\ SubSeq(in, l + 1, l + n) \in Seq(Byte) /\ Len(SubSeq(in, l + 1, l + n)) = n
          /\ \A i \in 1..n : SubSeq(in, l + 1, l + n)[i] = in[l + i]
      BY <3>2, PartOf
    <3>4. w = SubSeq(in, l + 1, l + n)
      BY Zenon, <3>1 DEF w
    <3> QED
      BY Zenon, <3>1, <3>3, <3>4
  <2>3. out' = out \o w /\ patchat' = Command.at /\ outreadat' = outreadat
    BY <1>1, <2>1 DEF DoSourceRead
  <2> HIDE DEF w
  <2>4. GoesOn(w, Len(out), target)
    BY <1>0, <2>2 DEF GoesOn, AppliesToSource, ReadsSource
  <2>5. Len(out') = Len(out) + n /\ PrefixOf(out', target)
    <3>1. PrefixOf(out, target)
      BY DEF ReaderAt
    <3>2. out \in Seq(Byte) /\ w \in Seq(Byte) /\ Len(w) = n /\ out' = out \o w
      BY <1>0, <2>2, <2>3
    <3> QED
      BY <2>4, <3>1, <3>2, PrefixLonger
  <2>6. /\ y.place = After(x.place, NumberFor(n, SourceRead)) /\ y.pos = x.pos + n
        /\ y.cursor = x.cursor
    BY MarkIs DEF ReadsSource
  <2> QED
    BY <1>0, <1>1, <2>3, <2>5, <2>6 DEF ReaderAt, PrefixOf
<1> QED
  BY <1>1, <1>2, <1>3 DEF TakesOnly

LEMMA TakesTargetRead ==
    ASSUME AppliesToSource, NEW x \in Marks, ReaderAt(x), NEW y, NEW n \in Nat \ {0},
           ReadsPatch(patch.body, target, x, y, n), UNCHANGED target
    PROVE  TakesOnly(TargetRead, y)
<1> DEFINE p == After(patchat, NumberFor(n, TargetRead))
<1>0. /\ CursorInv /\ Len(out) \in Nat /\ Len(target) \in Nat
      /\ out \in Seq(Byte) /\ patch.body \in Seq(Byte) /\ Len(out) = x.pos
      /\ Len(out) + n <= outlen /\ n < SizeLimit
  <2>1. SizeLimit \in Int
    <3>1. SizeMax \div 4 \in Int
      BY DigitsAre
    <3> QED
      BY <3>1 DEF SizeLimit
  <2> QED
    BY <2>1 DEF AppliesToSource, CursorInv, ReaderAt, ReadsPatch
<1>1. /\ Command.status = "ok" /\ Length = n /\ Command.at = p
      /\ \A a : IsA(a) <=> a = TargetRead
      /\ ~NeedsDistance /\ patchat <= Len(patch.body)
  <2>1. HasNumber(patch.body, patchat, NumberFor(n, TargetRead))
    BY DEF ReaderAt, ReadsPatch
  <2>2. TargetRead # TargetCopy
    BY DEF TargetRead, TargetCopy
  <2> QED
    BY <1>0, <2>1, <2>2, CommandDecoded
<1>2. /\ p + n - 1 <= Len(patch.body)
      /\ \A i \in 1..n : patch.body[p + i - 1] = target[Len(out) + i]
  BY DEF ReaderAt, ReadsPatch
<1>3. p \in Nat /\ p >= 1
  BY <1>0, <1>1, CommandIs
<1> HIDE DEF p
<1>4. More /\ CommandErrors = {} /\ ~Strays
  <2>1. TargetReadFits
    BY <1>0, <1>1, <1>2 DEF TargetReadFits, Fits
  <2>2. TargetRead # SourceRead /\ TargetRead # SourceCopy /\ TargetRead # TargetCopy
    BY DEF SourceRead, TargetRead, SourceCopy, TargetCopy
  <2>3. ~Strays
    <3>1. apc = "commands" /\ ~IsA(SourceCopy)
      BY <1>1, <2>2 DEF AppliesToSource
    <3> QED
      BY <1>1, <3>1, NoStray
  <2> QED
    BY <1>1, <2>1, <2>2, <2>3 DEF More, AppliesToSource, CommandErrors
<1>5. ASSUME DoSourceRead \/ DoTargetRead \/ DoTargetCopy PROVE ReaderAt(y)'
  <2>1. DoTargetRead
    BY <1>1, <1>5 DEF DoSourceRead, DoTargetCopy, SourceRead, TargetRead, TargetCopy
  <2> DEFINE w == SubSeq(patch.body, p, p + n - 1)
  <2>2. /\ w \in Seq(Byte) /\ Len(w) = n
        /\ \A i \in 1..n : w[i] = patch.body[p + i - 1]
    <3>1. PICK a \in Nat : p = a + 1
      <4>1. p - 1 \in Nat /\ p = (p - 1) + 1
        BY <1>3
      <4> QED
        BY <4>1
    <3>2. p + n - 1 = a + n /\ a + n <= Len(patch.body) /\ \A i \in 1..n : p + i - 1 = a + i
      BY <1>2, <3>1
    <3>3. w = SubSeq(patch.body, a + 1, a + n)
      BY <3>1, <3>2
    <3> HIDE DEF w
    <3> QED
      BY <1>0, <3>2, <3>3, PartOf
  <2>3. out' = out \o w /\ patchat' = p + n /\ outreadat' = outreadat
    BY <1>1, <2>1 DEF DoTargetRead
  <2> HIDE DEF w
  <2>4. GoesOn(w, Len(out), target)
    BY <1>2, <2>2 DEF GoesOn
  <2>5. Len(out') = Len(out) + n /\ PrefixOf(out', target)
    <3>1. PrefixOf(out, target)
      BY DEF ReaderAt
    <3>2. out \in Seq(Byte) /\ w \in Seq(Byte) /\ Len(w) = n /\ out' = out \o w
      BY <1>0, <2>2, <2>3
    <3> QED
      BY <2>4, <3>1, <3>2, PrefixLonger
  <2>6. /\ y.place = After(x.place, NumberFor(n, TargetRead)) + n /\ y.pos = x.pos + n
        /\ y.cursor = x.cursor
    BY MarkIs DEF ReadsPatch
  <2>7. y.place = p + n
    BY <2>6 DEF ReaderAt, p
  <2> QED
    BY <1>0, <2>3, <2>5, <2>6, <2>7 DEF ReaderAt, PrefixOf
<1> QED
  BY <1>1, <1>4, <1>5 DEF TakesOnly

LEMMA TakesTargetCopy ==
    ASSUME AppliesToSource, NEW x \in Marks, ReaderAt(x), NEW y, NEW n \in Nat \ {0},
           NEW d \in {1, 2}, CopiesTarget(patch.body, target, x, y, n, d), UNCHANGED target
    PROVE  TakesOnly(TargetCopy, y)
<1> DEFINE p == After(patchat, NumberFor(n, TargetCopy))
           g == x.pos - x.cursor - d
           k == x.pos - d
<1>0. /\ CursorInv /\ Len(target) \in Nat /\ outreadat \in Nat
      /\ out \in Seq(Byte) /\ Len(out) = x.pos /\ outreadat = x.cursor
      /\ x.pos \in Nat /\ x.cursor \in Nat /\ outlen = Len(target)
      /\ x.pos + n <= outlen /\ x.cursor + d <= x.pos
  BY DEF AppliesToSource, CursorInv, ReaderAt, CopiesTarget
<1>1. n < SizeLimit /\ g < SizeLimit /\ g \in Nat
  <2>1. SizeLimit \in Int
    <3>1. SizeMax \div 4 \in Int
      BY DigitsAre
    <3> QED
      BY <3>1 DEF SizeLimit
  <2>2. Len(target) < SizeLimit
    BY DEF AppliesToSource
  <2>3. g \in Nat /\ g <= Len(target) /\ n <= Len(target)
    <3>1. \A i, j, l, m \in Nat : j + d <= i /\ i + n <= m =>
              i - j - d \in Nat /\ i - j - d <= m /\ n <= m
      OBVIOUS
    <3> QED
      BY <1>0, <3>1
  <2> HIDE DEF g
  <2> QED
    BY <1>0, <2>1, <2>2, <2>3
<1>2. /\ Command.status = "ok" /\ Length = n /\ Command.at = p
      /\ \A a : IsA(a) <=> a = TargetCopy
      /\ patchat <= Len(patch.body)
  <2>1. HasNumber(patch.body, patchat, NumberFor(n, TargetCopy))
    BY DEF ReaderAt, CopiesTarget
  <2> QED
    BY <1>0, <1>1, <2>1, CommandDecoded
<1>3. HasNumber(patch.body, p, g * 2)
  BY DEF ReaderAt, CopiesTarget
<1> HIDE DEF p, g
<1>4. Distance.status = "ok" /\ Distance.at = After(p, g * 2) /\ \A c \in Nat : Moved(c) = c + g
  BY <1>0, <1>1, <1>2, <1>3, DistanceDecoded
<1>5. /\ Moved(outreadat) = k /\ k \in Nat /\ k < Len(out) /\ k + n <= outlen
      /\ Len(out) - k = d
  <2>1. Moved(outreadat) = outreadat + g
    BY <1>0, <1>4
  <2>2. x.cursor + g = k
    BY <1>0 DEF g
  <2>3. k \in Nat /\ k < Len(out) /\ k + n <= outlen /\ Len(out) - k = d
    <3>1. \A i, j, m \in Nat : j + d <= i /\ i + n <= m =>
              i - d \in Nat /\ i - d < i /\ i - d + n <= m /\ i - (i - d) = d
      OBVIOUS
    <3> QED
      BY <1>0, <3>1
  <2> HIDE DEF k
  <2> QED
    BY <1>0, <2>1, <2>2, <2>3
<1> HIDE DEF k
<1>6. More /\ CommandErrors = {} /\ ~Strays
  <2>1. TargetCopyFits
    BY <1>0, <1>2, <1>4, <1>5 DEF TargetCopyFits, Fits
  <2>2. TargetCopy # SourceRead /\ TargetCopy # SourceCopy /\ TargetCopy # TargetRead
    BY DEF SourceRead, TargetRead, SourceCopy, TargetCopy
  <2>3. ~Strays
    <3>1. apc = "commands" /\ ~IsA(SourceCopy)
      BY <1>2, <1>4, <2>2 DEF AppliesToSource
    <3> QED
      BY <1>2, <1>4, <3>1, NoStray
  <2> QED
    BY <1>2, <1>4, <2>1, <2>2, <2>3 DEF More, AppliesToSource, CommandErrors
<1>7. ASSUME DoSourceRead \/ DoTargetRead \/ DoTargetCopy PROVE ReaderAt(y)'
  <2>1. DoTargetCopy
    BY <1>2, <1>7 DEF DoSourceRead, DoTargetRead, SourceRead, TargetRead, TargetCopy
  <2> DEFINE w == Repeat(out, k, n)
  <2>2. w \in Seq(Byte) /\ Len(w) = n
    BY <1>0, <1>5, RepeatIs
  <2>3. \A i \in 1..n : w[i] = target[Len(out) + i]
    <3> TAKE i \in 1..n
    <3>1. w[i] = out[k + 1 + ((i - 1) % (Len(out) - k))]
      BY DEF Repeat
    <3>2. w[i] = out[k + 1 + ((i - 1) % d)]
      BY <1>5, <3>1
    <3>3. (i - 1) % d \in 0..(d - 1)
      OBVIOUS
    <3>4. k + 1 + ((i - 1) % d) \in 1..Len(out)
      BY SMTT(30), <1>0, <1>5, <3>3
    <3>5. out[k + 1 + ((i - 1) % d)] = target[k + 1 + ((i - 1) % d)]
      BY <3>4 DEF ReaderAt, PrefixOf
    <3>6. target[x.pos + i] = target[x.pos - d + 1 + ((i - 1) % d)]
      BY DEF CopiesTarget
    <3>7. target[Len(out) + i] = target[k + 1 + ((i - 1) % d)]
      BY <1>0, <3>6 DEF k
    <3> QED
      BY <3>2, <3>5, <3>7
  <2>4. out' = out \o w /\ patchat' = Distance.at /\ outreadat' = k + n
    BY <1>2, <1>5, <2>1 DEF DoTargetCopy
  <2> HIDE DEF w
  <2>5. Len(out') = Len(out) + n /\ PrefixOf(out', target)
    <3>1. PrefixOf(out, target)
      BY DEF ReaderAt
    <3>2. out \in Seq(Byte) /\ w \in Seq(Byte) /\ Len(w) = n /\ out' = out \o w
      BY <1>0, <2>2, <2>4
    <3>3. GoesOn(w, Len(out), target)
      BY <2>2, <2>3 DEF GoesOn
    <3> QED
      BY <3>1, <3>2, <3>3, PrefixLonger
  <2>6. /\ y.place = After(After(x.place, NumberFor(n, TargetCopy)), (x.pos - x.cursor - d) * 2)
        /\ y.pos = x.pos + n /\ y.cursor = x.pos + n - d
    BY MarkIs DEF CopiesTarget
  <2>7. y.place = After(p, g * 2)
    BY <2>6 DEF ReaderAt, p, g
  <2>8. x.pos + n - d = k + n
    BY <1>0 DEF k
  <2> QED
    BY <1>0, <1>4, <2>4, <2>5, <2>6, <2>7, <2>8 DEF ReaderAt, PrefixOf
<1> QED
  BY <1>2, <1>6, <1>7 DEF TakesOnly

\* A call of bps_apply that runs beside a patch runs on that patch.
CallerInv == apc # "idle" => cpc = "idle" \/ (HasPatch /\ patch = created)

LEMMA CallerAlways == Spec => []CallerInv
<1>1. Init => CallerInv
  BY DEF Init, ApplyInit, CallerInv
<1>2. ASSUME CallerInv, [Next]_vars PROVE CallerInv'
  <2>1. CASE Create \/ FreePatch
    BY <2>1 DEF Create, FreePatch, applyVars, CallerInv
  <2>2. CASE Creating
    <3>1. cpc \notin {"idle", "done"} /\ UNCHANGED applyVars
      BY <2>2 DEF Creating, CreateStep, NoMemory, AllocateBuffer, WriteHeader, MatchSource,
                  NothingChanged, WriteLiteral, NoRun, CopyRun, Seal
    <3> QED
      BY <1>2, <3>1 DEF CallerInv, applyVars, HasPatch
  <2>3. CASE ApplyCreated
    BY <2>3 DEF ApplyCreated, bps_apply, createVars, CallerInv, HasPatch
  <2>4. CASE ApplyForeign
    BY <2>4 DEF ApplyForeign, createVars, CallerInv
  <2>5. CASE Applying
    <3>1. apc # "idle" /\ UNCHANGED <<args, createVars>>
      BY <2>5 DEF Applying, ApplyStep, BadPatch, BadSize, WrongInput, OpenOutput, BadMetadata,
                  ReadMetadata, DoSourceRead, DoTargetRead, DoSourceCopy, DoTargetCopy,
                  BadCommand, Incomplete, WrongOutput, Return, Cleanup, More,
                  MetadataAstray, SourceCopyAstray, NumberAstray, GoAstray
    <3> QED
      BY <1>2, <3>1 DEF CallerInv, HasPatch, args, createVars
  <2>6. CASE FreeOutput
    BY <2>6 DEF FreeOutput, CallerInv
  <2>7. CASE UNCHANGED vars
    BY <1>2, <2>7 DEF CallerInv, HasPatch, vars, applyVars, createVars
  <2> QED
    BY <1>2, <2>1, <2>2, <2>3, <2>4, <2>5, <2>6, <2>7 DEF Next
<1>3. CallerInv /\ [Next]_vars => CallerInv'
  BY <1>2
<1> QED
  BY <1>1, <1>3, PTL DEF Spec

Commands(b) ==
    \E P : Chart(P, b, source, target, Len(Header) + 1, Mark(Len(b) + 1, Len(target), targetcopypos))

\* What bps_apply finds in a patch that bps_create_linear made.
LEMMA OwnPatch ==
    ASSUME CreateInv, BodyInv, HasPatch, patch = created
    PROVE  /\ patch.body \in Seq(Byte) /\ Begins(patch.body)
           /\ Intact /\ patch.crcIn = Crc(source) /\ patch.crcOut = Crc(target)
           /\ SizeIn(patch).value = Len(source) /\ SizeOut(patch).value = Len(target)
           /\ SizeErrors = {} /\ NumberErrors(SizeMeta(patch)) = {}
           /\ SizeIn(patch).status = "ok" /\ SizeOut(patch).status = "ok"
           /\ SizeMeta(patch).status = "ok"
           /\ MetadataEnd = Len(Header) + 1 /\ MetadataInside
           /\ ~TooShort(patch)
           /\ Len(target) < SizeLimit
<1>1. /\ CreateShape /\ written \in Seq(Byte) /\ Begins(written)
      /\ patch = Sealed(written, Crc(source), Crc(target))
  BY DEF BodyInv, CreateInv, CreateShape
<1>2. /\ patch.body = written /\ patch.magic = TRUE
      /\ patch.crcIn = Crc(source) /\ patch.crcOut = Crc(target)
      /\ patch.crcPatch = SealOf(written, Crc(source), Crc(target))
  BY <1>1 DEF Sealed
<1>3. Begins(patch.body)
  BY <1>1, <1>2
<1>4. Intact
  BY <1>2 DEF Intact
<1>5. /\ SizeIn(patch).status = "ok" /\ SizeIn(patch).value = Len(source)
      /\ SizeOut(patch).status = "ok" /\ SizeOut(patch).value = Len(target)
      /\ SizeMeta(patch).status = "ok" /\ SizeMeta(patch).value = Len(metadata)
      /\ SizeMeta(patch).at + Len(metadata) = Len(Header) + 1
      /\ Len(patch.body) >= 3
  BY <1>1, <1>2, <1>3, HeaderReads
<1>6. SizeErrors = {} /\ NumberErrors(SizeMeta(patch)) = {}
  BY <1>5 DEF SizeErrors, NumberErrors
<1>7. ~TooShort(patch)
  BY <1>1, <1>2, <1>5 DEF TooShort
<1>8. Len(target) < SizeLimit
  BY DEF CreateInv, BufferInv, BodyInv, Limits, HasPatch
<1>9. MetadataEnd = Len(Header) + 1
  BY <1>5 DEF MetadataEnd
<1>10. MetadataInside
  <2>1. Len(Header) \in Nat /\ Len(patch.body) \in Nat
    BY <1>1, <1>2, HeaderIs
  <2>2. 1 + Len(Header) - 1 <= Len(patch.body)
    BY <1>3 DEF Begins, Holds
  <2> QED
    BY <1>9, <2>1, <2>2 DEF MetadataInside
<1> QED
  BY <1>1, <1>2, <1>3, <1>4, <1>5, <1>6, <1>7, <1>8, <1>9, <1>10

\* Its header does not lead astray.
LEMMA OwnHeaderFits ==
    ASSUME CreateInv, BodyInv, HasPatch, patch = created, apc # "commands" PROVE ~Strays
<1>1. /\ SizeIn(patch).status = "ok" /\ SizeOut(patch).status = "ok"
      /\ SizeMeta(patch).status = "ok" /\ MetadataInside /\ patch.body \in Seq(Byte)
      /\ MetadataEnd = Len(Header) + 1
  BY OwnPatch
<1>2. Len(patch.body) \in Nat /\ Len(Header) \in Nat
  BY <1>1, HeaderIs DEF CreateInv
<1>3. ~MetadataWraps /\ ~(MetadataEnd > Len(patch.body) + 13)
  BY <1>1, <1>2 DEF MetadataWraps, MetadataInside
<1> QED
  BY <1>1, <1>3 DEF Strays, MetadataAstray, SourceCopyAstray, NumberAstray, More

\* Where the runs end inside the target its commands lead to the target's end.
LEMMA OwnCommands ==
    ASSUME CreateInv, BodyInv, ChartInv, HasPatch, patch = created
    PROVE  Commands(patch.body)
<1>1. /\ at = Len(target) /\ Charts(written, at, targetcopypos)
      /\ patch = Sealed(written, Crc(source), Crc(target))
  BY DEF ChartInv, BodyInv
<1>2. patch.body = written
  BY <1>1 DEF Sealed
<1> QED
  BY <1>1, <1>2 DEF Charts, Commands


-----------------------------------------------------------------------------
\* Applied to the source it was made of, a patch gives the target.

Reads ==
    \E P : /\ Chart(P, patch.body, source, target, Len(Header) + 1,
                    Mark(Len(patch.body) + 1, Len(target), targetcopypos))
           /\ \E x \in P : ReaderAt(x)

AppliesOwn == RunsEndInside /\ apc # "idle" /\ HasPatch /\ in = source

Answer ==
    AppliesOwn =>
        /\ apc \in {"check", "metadata", "commands", "done"} /\ error = "bps_ok"
        /\ apc \in {"metadata", "commands", "done"} => outlen = Len(target)
        /\ apc = "commands" => Reads
        /\ apc = "done" => out = target

AnswerFacts == CreateInv /\ CursorInv /\ BodyInv /\ Charted /\ CallerInv

LEMMA SameReads ==
    ASSUME UNCHANGED <<createVars, args>>
    PROVE  /\ AppliesOwn' => RunsEndInside /\ HasPatch /\ in = source
           /\ source' = source /\ target' = target
           /\ \A P : Chart(P, patch.body, source, target, Len(Header) + 1,
                           Mark(Len(patch.body) + 1, Len(target), targetcopypos))
                     => (Chart(P, patch.body, source, target, Len(Header) + 1,
                               Mark(Len(patch.body) + 1, Len(target), targetcopypos)))'
<1>1. /\ source' = source /\ target' = target /\ metadata' = metadata /\ cpc' = cpc
      /\ held' = held /\ targetcopypos' = targetcopypos /\ patch' = patch /\ in' = in
  BY DEF createVars, files, args
<1>2. Header' = Header
  BY <1>1 DEF Header
<1> QED
  BY <1>1, <1>2 DEF AppliesOwn, HasPatch, RunsEndInside, T

LEMMA AnswerKeepsHeader ==
    ASSUME AnswerFacts, Answer, UNCHANGED createVars,
           \/ BadPatch \/ BadSize \/ WrongInput \/ OpenOutput \/ BadMetadata \/ ReadMetadata
           \/ Strays /\ apc # "commands"
    PROVE  Answer'
<1> SUFFICES ASSUME AppliesOwn' PROVE Answer'
  BY DEF Answer
<1>1. UNCHANGED args /\ apc # "idle"
  BY StraysGo DEF BadPatch, BadSize, WrongInput, OpenOutput, BadMetadata, ReadMetadata, GoAstray
<1>2. HasPatch /\ in = source /\ source' = source /\ target' = target /\ AppliesOwn
  BY <1>1, SameReads DEF AppliesOwn
<1>3. patch = created
  BY <1>1, <1>2 DEF AnswerFacts, CallerInv, HasPatch
<1>4. CreateInv /\ BodyInv /\ ChartInv /\ CursorInv
  BY <1>2 DEF AnswerFacts, Charted, AppliesOwn
<1>5. /\ Intact /\ SizeErrors = {} /\ InputMatches /\ NumberErrors(SizeMeta(patch)) = {}
      /\ SizeOut(patch).value = Len(target)
      /\ MetadataEnd = Len(Header) + 1
      /\ Commands(patch.body)
  BY <1>2, <1>3, <1>4, OwnPatch, OwnCommands DEF InputMatches
<1>6. /\ ~BadPatch /\ ~BadSize /\ ~WrongInput /\ ~BadMetadata
      /\ apc # "commands" => ~Strays
  <2>1. ~BadPatch /\ ~BadSize /\ ~WrongInput /\ ~BadMetadata
    BY <1>5 DEF BadPatch, BadSize, WrongInput, BadMetadata
  <2> QED
    BY <1>2, <1>3, <1>4, <2>1, OwnHeaderFits
<1>7. CASE OpenOutput
  BY <1>2, <1>5, <1>7 DEF OpenOutput, Answer
<1>8. CASE ReadMetadata
  <2>1. /\ apc = "metadata" /\ error = "bps_ok" /\ outlen = Len(target)
        /\ apc' = "commands" /\ error' = error /\ outlen' = outlen
        /\ out' = out /\ outreadat' = outreadat /\ patchat' = Len(Header) + 1
    BY <1>2, <1>5, <1>8 DEF ReadMetadata, Answer
  <2>2. out = <<>> /\ outreadat = 0
    BY <1>4, <2>1 DEF CursorInv
  <2>3. PICK P : Chart(P, patch.body, source, target, Len(Header) + 1,
                       Mark(Len(patch.body) + 1, Len(target), targetcopypos))
    BY <1>5 DEF Commands
  <2> DEFINE x == Mark(Len(Header) + 1, 0, 0)
  <2>4. x \in P
    BY <2>3 DEF Chart
  <2>5. ReaderAt(x)'
    <3>1. Len(<<>>) = 0 /\ PrefixOf(<<>>, target')
      BY DEF PrefixOf
    <3>2. x.place = Len(Header) + 1 /\ x.pos = 0 /\ x.cursor = 0
      BY MarkIs
    <3>3. x' = x
      <4>1. metadata' = metadata
        BY DEF createVars, files
      <4> QED
        BY <1>2, <4>1 DEF Header
    <3> HIDE DEF x
    <3> QED
      BY <2>1, <2>2, <3>1, <3>2, <3>3 DEF ReaderAt
  <2>6. Reads'
    <3>1. x' = x
      <4>1. metadata' = metadata
        BY DEF createVars, files
      <4> QED
        BY <1>2, <4>1 DEF Header
    <3> HIDE DEF x
    <3> QED
      BY <1>1, <2>3, <2>4, <2>5, <3>1, SameReads DEF Reads
  <2> QED
    BY <1>2, <2>1, <2>6 DEF Answer
<1> QED
  BY <1>6, <1>7, <1>8

\* A reader on the chart either is at its end, and has the target, or takes the
\* command that is there to the next mark.
LEMMA OnChart ==
    ASSUME AppliesToSource, NEW P,
           Chart(P, patch.body, source, target, Len(Header) + 1,
                 Mark(Len(patch.body) + 1, Len(target), targetcopypos)),
           NEW x \in P, ReaderAt(x), UNCHANGED target
    PROVE  \/ ~More /\ Complete /\ out = target
           \/ \E y \in P, action \in {SourceRead, TargetRead, TargetCopy} : TakesOnly(action, y)
<1> DEFINE end == Mark(Len(patch.body) + 1, Len(target), targetcopypos)
<1>0. P \subseteq Marks /\ (x = end \/ \E y \in P : Leads(patch.body, source, target, x, y))
  BY DEF Chart
<1>1. CASE x = end
  <2>1. patchat = Len(patch.body) + 1 /\ Len(out) = Len(target) /\ PrefixOf(out, target)
    BY <1>1, MarkIs DEF ReaderAt
  <2>2. patch.body \in Seq(Byte) /\ out \in Seq(Byte) /\ target \in Seq(Byte) /\ outlen = Len(target)
    BY DEF AppliesToSource, CursorInv
  <2>3. ~More /\ Complete
    BY <2>1, <2>2 DEF More, Complete
  <2>4. out = target
    <3>1. \A i \in 1..Len(out) : out[i] = target[i]
      BY <2>1 DEF PrefixOf
    <3> QED
      BY <2>1, <2>2, <3>1
  <2> QED
    BY <2>3, <2>4
<1>2. CASE \E y \in P : Leads(patch.body, source, target, x, y)
  <2>1. PICK y \in P : Leads(patch.body, source, target, x, y)
    BY <1>2
  <2>2. PICK n \in Nat \ {0} :
            \/ ReadsSource(patch.body, source, target, x, y, n)
            \/ ReadsPatch(patch.body, target, x, y, n)
            \/ \E d \in {1, 2} : CopiesTarget(patch.body, target, x, y, n, d)
    BY <2>1 DEF Leads
  <2> QED
    BY <1>0, <2>2, TakesSourceRead, TakesTargetRead, TakesTargetCopy
<1> QED
  BY <1>0, <1>1, <1>2

LEMMA AnswerKeepsCommand ==
    ASSUME AnswerFacts, Answer, UNCHANGED createVars,
           \/ DoSourceRead \/ DoTargetRead \/ DoSourceCopy \/ DoTargetCopy \/ BadCommand
           \/ Incomplete \/ WrongOutput \/ Return
           \/ Strays /\ apc = "commands"
    PROVE  Answer'
<1> SUFFICES ASSUME AppliesOwn' PROVE Answer'
  BY DEF Answer
<1>1. UNCHANGED args /\ apc = "commands"
  BY StraysGo DEF DoSourceRead, DoTargetRead, DoSourceCopy, DoTargetCopy, BadCommand, Incomplete,
         WrongOutput, Return, More, GoAstray
<1>2. HasPatch /\ in = source /\ source' = source /\ target' = target /\ AppliesOwn
  BY <1>1, SameReads DEF AppliesOwn
<1>3. patch = created
  BY <1>1, <1>2 DEF AnswerFacts, CallerInv, HasPatch
<1>4. CreateInv /\ BodyInv /\ CursorInv
  BY DEF AnswerFacts
<1>5. error = "bps_ok" /\ outlen = Len(target) /\ Reads
  BY <1>1, <1>2 DEF Answer
<1>6. patch.crcOut = Crc(target) /\ Len(target) < SizeLimit
  BY <1>2, <1>3, <1>4, OwnPatch
<1>7. AppliesToSource
  <2>1. source \in Seq(Byte) /\ target \in Seq(Byte)
    BY <1>4 DEF CreateInv, CreateShape, Memory
  <2> QED
    BY <1>1, <1>2, <1>4, <1>5, <1>6, <2>1 DEF AppliesToSource
<1>8. PICK P : /\ Chart(P, patch.body, source, target, Len(Header) + 1,
                        Mark(Len(patch.body) + 1, Len(target), targetcopypos))
               /\ \E x \in P : ReaderAt(x)
  BY <1>5 DEF Reads
<1>9. PICK x \in P : ReaderAt(x)
  BY <1>8
<1>10. CASE ~More /\ Complete /\ out = target
  <2>1. Return
    <3>1. ~Strays
      BY <1>1, <1>10 DEF Strays, MetadataAstray, SourceCopyAstray, NumberAstray
    <3> QED
      BY <1>6, <1>10, <3>1 DEF DoSourceRead, DoTargetRead, DoSourceCopy, DoTargetCopy, BadCommand,
                               Incomplete, WrongOutput
  <2> QED
    BY <1>2, <1>5, <1>10, <2>1 DEF Return, Answer
<1>11. CASE \E y \in P, action \in {SourceRead, TargetRead, TargetCopy} : TakesOnly(action, y)
  <2>1. PICK y \in P, action \in {SourceRead, TargetRead, TargetCopy} : TakesOnly(action, y)
    BY <1>11
  <2>2. DoSourceRead \/ DoTargetRead \/ DoTargetCopy
    <3>1. ~IsA(SourceCopy)
      BY <2>1 DEF TakesOnly, SourceRead, TargetRead, SourceCopy, TargetCopy
    <3> QED
      BY <2>1, <3>1 DEF TakesOnly, DoSourceCopy, BadCommand, Incomplete, WrongOutput, Return
  <2>3. ReaderAt(y)'
    BY <2>1, <2>2 DEF TakesOnly
  <2>4. apc' = apc /\ error' = error /\ outlen' = outlen
    BY <2>2 DEF DoSourceRead, DoTargetRead, DoTargetCopy
  <2>5. Reads'
    BY <1>1, <1>8, <2>3, SameReads DEF Reads
  <2> QED
    BY <1>1, <1>2, <1>5, <2>4, <2>5 DEF Answer
<1> QED
  BY <1>2, <1>7, <1>8, <1>9, <1>10, <1>11, OnChart

LEMMA AnswerKeepsCaller ==
    ASSUME AnswerFacts, Answer,
           ApplyCreated \/ ApplyForeign \/ (Cleanup /\ UNCHANGED createVars) \/ FreeOutput
    PROVE  Answer'
<1>1. CASE ApplyCreated
  <2>1. PICK i \in Inputs \cup {source, target}, w \in BOOLEAN, a \in BOOLEAN :
            bps_apply(created, i, w, a)
    BY <1>1 DEF ApplyCreated
  <2>2. HasPatch /\ BodyInv /\ CreateInv
    BY <1>1 DEF ApplyCreated, AnswerFacts
  <2>3. ~TooShort(created)
    <3>1. /\ CreateShape /\ written \in Seq(Byte) /\ Begins(written)
          /\ created = Sealed(written, Crc(source), Crc(target))
      BY <2>2 DEF BodyInv, CreateInv, CreateShape
    <3>2. created.body = written
      BY <3>1 DEF Sealed
    <3>3. Len(created.body) >= 3 /\ Len(created.body) \in Nat
      BY <3>1, <3>2, HeaderReads
    <3> QED
      BY <3>3 DEF TooShort
  <2> QED
    BY <2>1, <2>3 DEF bps_apply, Answer
<1>2. CASE ApplyForeign
  BY <1>2 DEF ApplyForeign, createVars, Answer, AppliesOwn, HasPatch
<1>3. CASE Cleanup /\ UNCHANGED createVars
  <2>1. apc = "exit" /\ UNCHANGED <<createVars, args>>
    BY <1>3 DEF Cleanup
  <2>2. AppliesOwn' => AppliesOwn
    BY <2>1, SameReads DEF AppliesOwn
  <2>3. ~AppliesOwn
    BY <2>1 DEF Answer
  <2> QED
    BY <2>2, <2>3 DEF Answer
<1>4. CASE FreeOutput
  BY <1>4 DEF FreeOutput, Answer, AppliesOwn
<1> QED
  BY <1>1, <1>2, <1>3, <1>4

LEMMA AnswerNext == AnswerFacts /\ Answer /\ [Next]_vars => Answer'
<1> SUFFICES ASSUME AnswerFacts, Answer, [Next]_vars PROVE Answer'
  OBVIOUS
<1>1. CASE Applying
  BY <1>1, AnswerKeepsHeader, AnswerKeepsCommand, AnswerKeepsCaller DEF Applying, ApplyStep, Strays
<1>2. CASE ApplyCreated \/ ApplyForeign \/ FreeOutput
  BY <1>2, AnswerKeepsCaller
<1>3. CASE Create \/ FreePatch
  BY <1>3 DEF Create, FreePatch, applyVars, Answer, AppliesOwn
<1>4. CASE Creating
  <2>1. cpc \notin {"idle", "done"} /\ UNCHANGED applyVars
    BY <1>4 DEF Creating, CreateStep, NoMemory, AllocateBuffer, WriteHeader, MatchSource,
                NothingChanged, WriteLiteral, NoRun, CopyRun, Seal
  <2>2. apc = "idle"
    BY <2>1 DEF AnswerFacts, CallerInv, HasPatch
  <2> QED
    BY <2>1, <2>2 DEF applyVars, Answer, AppliesOwn
<1>5. CASE UNCHANGED vars
  <2>1. UNCHANGED <<createVars, args>> /\ UNCHANGED <<apc, error, outlen, out, patchat, outreadat>>
    BY <1>5 DEF vars, applyVars, args
  <2>2. AppliesOwn' => AppliesOwn
    BY <2>1, SameReads DEF AppliesOwn
  <2>3. Reads => Reads'
    BY <2>1, SameReads DEF Reads, ReaderAt, PrefixOf
  <2> QED
    BY <2>1, <2>2, <2>3, SameReads DEF Answer
<1> QED
  BY <1>1, <1>2, <1>3, <1>4, <1>5 DEF Next

LEMMA FactsAlways == Spec => []AnswerFacts
BY BodyAlways, ChartAlways, CreateAlways, CursorAlways, CallerAlways, PTL DEF AnswerFacts

\* For every pair of files, bps_apply of what bps_create_linear made of the two
\* turns the source into the target, whatever bytes they have and however wide
\* numbers are, if the three bytes beside the target do not make a run reach out of
\* it.
THEOREM PatchesRoundTrip == Spec => []PatchConverts
<1>1. Init => Answer
  BY DEF Init, ApplyInit, Answer, AppliesOwn
<1>2. Answer => PatchConverts
  BY DEF Answer, AppliesOwn, PatchConverts, RoundTrip
<1> QED
  BY <1>1, <1>2, FactsAlways, AnswerNext, PTL DEF Spec

-----------------------------------------------------------------------------
\* Applied to another input, it is turned away.

DiffersFromSource == Len(in) # Len(source) \/ Crc(in) # Crc(source)

AppliesOther == apc # "idle" /\ HasPatch /\ DiffersFromSource

NamedError ==
    error = IF Len(in) = Len(target) /\ Crc(in) = Crc(target) THEN "bps_to_output" ELSE "bps_not_this"

Rejection ==
    AppliesOther =>
        /\ apc \in {"metadata", "commands"} => accept
        /\ apc # "check" => error # "bps_ok"
        /\ apc # "check" /\ ~accept => NamedError
        /\ live # {} => accept

LEMMA RejectionKeeps ==
    ASSUME AnswerFacts, ApplyInv, Rejection, UNCHANGED createVars, ApplyStep
    PROVE  Rejection'
<1> SUFFICES ASSUME AppliesOther' PROVE Rejection'
  BY DEF Rejection
<1>1. UNCHANGED args /\ apc # "idle"
  BY DEF ApplyStep, BadPatch, BadSize, WrongInput, OpenOutput, BadMetadata, ReadMetadata,
         DoSourceRead, DoTargetRead, DoSourceCopy, DoTargetCopy, BadCommand, Incomplete,
         WrongOutput, Return, Cleanup, More, MetadataAstray, SourceCopyAstray, NumberAstray,
         GoAstray
<1>2. AppliesOther /\ source' = source /\ target' = target
  BY <1>1 DEF AppliesOther, DiffersFromSource, HasPatch, createVars, files, args
<1>3. HasPatch /\ patch = created /\ CreateInv /\ BodyInv
  BY <1>1, <1>2 DEF AnswerFacts, CallerInv, HasPatch, AppliesOther
<1>4. /\ Intact /\ SizeErrors = {} /\ NumberErrors(SizeMeta(patch)) = {} /\ ~InputMatches
      /\ SizeOut(patch).value = Len(target) /\ patch.crcOut = Crc(target)
  BY <1>2, <1>3, OwnPatch DEF InputMatches, AppliesOther, DiffersFromSource
<1>5. ~BadPatch /\ ~BadSize /\ ~BadMetadata
  BY <1>4 DEF BadPatch, BadSize, BadMetadata
<1>6. NamedError' <=> error' = WrongInputError
  BY <1>1, <1>2, <1>4 DEF NamedError, WrongInputError, args
<1>7. CASE WrongInput
  BY <1>1, <1>2, <1>6, <1>7, ErrorsAreErrors DEF WrongInput, Fail, Rejection, ApplyInv
<1>8. CASE OpenOutput
  BY <1>1, <1>2, <1>4, <1>8, ErrorsAreErrors DEF OpenOutput, Rejection, args
<1>9. CASE ReadMetadata \/ DoSourceRead \/ DoTargetRead \/ DoSourceCopy \/ DoTargetCopy
  <2>1. apc \in {"metadata", "commands"} /\ error' = error /\ accept' = accept
    BY <1>9 DEF ReadMetadata, DoSourceRead, DoTargetRead, DoSourceCopy, DoTargetCopy, More, args
  <2> QED
    BY <1>2, <2>1 DEF Rejection
<1>10. CASE BadCommand \/ Incomplete \/ WrongOutput \/ Return
  <2>1. apc = "commands" /\ accept' = accept
    BY <1>10 DEF BadCommand, Incomplete, WrongOutput, Return, More, args
  <2>2. accept /\ error # "bps_ok"
    BY <1>2, <2>1 DEF Rejection
  <2>3. error' # "bps_ok"
    BY <1>10, <2>2, ErrorsAreErrors DEF BadCommand, Incomplete, WrongOutput, Return, Fail
  <2> QED
    BY <2>1, <2>2, <2>3 DEF Rejection
<1>11. CASE Cleanup
  <2>1. apc = "exit" /\ error' = error /\ accept' = accept /\ live' = {} /\ apc' = "done"
    BY <1>11 DEF Cleanup, args
  <2>2. ~accept => NamedError'
    BY <1>1, <1>2, <2>1 DEF Rejection, NamedError, args
  <2> QED
    BY <1>2, <2>1, <2>2 DEF Rejection
<1>12. CASE Strays
  <2>1. apc = "commands"
    BY <1>3, <1>12, OwnHeaderFits
  <2>2. apc' = "astray" /\ error' = error /\ accept' = accept
    BY <1>12, StraysGo DEF GoAstray, args
  <2> QED
    BY <1>2, <2>1, <2>2 DEF Rejection
<1> QED
  BY <1>5, <1>7, <1>8, <1>9, <1>10, <1>11, <1>12 DEF ApplyStep, Strays

LEMMA RejectionNext == AnswerFacts /\ ApplyInv /\ Rejection /\ [Next]_vars => Rejection'
<1> SUFFICES ASSUME AnswerFacts, ApplyInv, Rejection, [Next]_vars PROVE Rejection'
  OBVIOUS
<1>1. CASE Applying
  BY <1>1, RejectionKeeps DEF Applying
<1>2. CASE ApplyCreated
  <2>1. PICK i \in Inputs \cup {source, target}, w \in BOOLEAN, a \in BOOLEAN :
            bps_apply(created, i, w, a)
    BY <1>2 DEF ApplyCreated
  <2>2. HasPatch /\ BodyInv /\ CreateInv /\ live = {}
    BY <1>2 DEF ApplyCreated, AnswerFacts, ApplyInv
  <2>3. ~TooShort(created)
    <3>1. /\ CreateShape /\ written \in Seq(Byte) /\ Begins(written)
          /\ created = Sealed(written, Crc(source), Crc(target))
      BY <2>2 DEF BodyInv, CreateInv, CreateShape
    <3>2. created.body = written
      BY <3>1 DEF Sealed
    <3>3. Len(created.body) >= 3 /\ Len(created.body) \in Nat
      BY <3>1, <3>2, HeaderReads
    <3> QED
      BY <3>3 DEF TooShort
  <2> QED
    BY <2>1, <2>2, <2>3 DEF bps_apply, Rejection
<1>3. CASE ApplyForeign
  BY <1>3 DEF ApplyForeign, createVars, Rejection, AppliesOther, HasPatch
<1>4. CASE FreeOutput
  BY <1>4 DEF FreeOutput, Rejection, AppliesOther
<1>5. CASE Create \/ FreePatch
  BY <1>5 DEF Create, FreePatch, applyVars, Rejection, AppliesOther
<1>6. CASE Creating
  <2>1. cpc \notin {"idle", "done"} /\ UNCHANGED applyVars
    BY <1>6 DEF Creating, CreateStep, NoMemory, AllocateBuffer, WriteHeader, MatchSource,
                NothingChanged, WriteLiteral, NoRun, CopyRun, Seal
  <2>2. apc = "idle"
    BY <2>1 DEF AnswerFacts, CallerInv, HasPatch
  <2> QED
    BY <2>1, <2>2 DEF applyVars, Rejection, AppliesOther
<1>7. CASE UNCHANGED vars
  BY <1>7 DEF vars, applyVars, createVars, files, Rejection, AppliesOther, DiffersFromSource,
              HasPatch, NamedError
<1> QED
  BY <1>1, <1>2, <1>3, <1>4, <1>5, <1>6, <1>7 DEF Next

\* bps_apply gives no bytes to a caller whose input is not the source, in size or
\* checksum, unless the caller asked for them, and never says that all is well;
\* of the target it says so.
THEOREM WrongInputTurnedAway == Spec => []WrongInputRejected
<1>1. Init => Rejection
  BY DEF Init, ApplyInit, Rejection, AppliesOther
<1>2. Rejection => WrongInputRejected
  BY DEF Rejection, AppliesOther, DiffersFromSource, NamedError, WrongInputRejected
<1>3. Spec => []AnswerFacts
  BY FactsAlways
<1>4. Spec => []ApplyInv
  BY ApplyBegins, ApplyNext, PTL DEF Spec
<1> QED
  BY <1>1, <1>2, <1>3, <1>4, RejectionNext, PTL DEF Spec

-----------------------------------------------------------------------------
\* The types of all that both calls keep.

\* The checksum of bytes is a number.
CrcIsNumber == \A s \in Seq(Nat) : Crc(s) \in Nat

LEMMA SealedIs ==
    ASSUME CrcIsNumber, NEW b \in Seq(Byte), NEW s \in Seq(Byte), NEW t \in Seq(Byte)
    PROVE  Sealed(b, Crc(s), Crc(t)) \in Patches
<1>1. Byte \subseteq Nat
  BY DigitsAre DEF Byte
<1>2. b \in Seq(Nat) /\ s \in Seq(Nat) /\ t \in Seq(Nat)
  <2>1. ASSUME NEW u \in Seq(Byte) PROVE u \in Seq(Nat)
    <3>1. u \in [1..Len(u) -> Byte] /\ Len(u) \in Nat
      OBVIOUS
    <3>2. u \in [1..Len(u) -> Nat]
      BY <1>1, <3>1
    <3> QED
      BY <3>1, <3>2
  <2> QED
    BY <2>1
<1>3. Crc(s) \in Nat /\ Crc(t) \in Nat
  BY <1>2 DEF CrcIsNumber
<1> DEFINE c == Crc(s)
           e == Crc(t)
<1>4. c \in Nat /\ e \in Nat
  BY <1>3
<1> HIDE DEF c, e
<1>5. b \o <<c, e>> \in Seq(Nat)
  <2>1. <<c, e>> \in Seq(Nat)
    BY <1>4
  <2> QED
    BY <1>2, <2>1
<1>6. SealOf(b, c, e) \in Nat
  BY <1>5 DEF SealOf, CrcIsNumber
<1> QED
  BY <1>4, <1>6 DEF Sealed, Patches, c, e

PatchTypes ==
    /\ created \in Patches /\ patch \in Patches
    /\ wanted \in BOOLEAN /\ accept \in BOOLEAN
    /\ error \in Errors /\ live \subseteq {"out", "metadata"}

LEMMA ErrorsAreListed ==
    /\ \A number : NumberErrors(number) \subseteq Errors
    /\ SizeErrors \subseteq Errors /\ WrongInputError \in Errors /\ CommandErrors \subseteq Errors
<1>1. \A number : NumberErrors(number) \subseteq Errors
  BY DEF NumberErrors, Errors
<1>2. SizeErrors \subseteq Errors
  BY DEF SizeErrors, Errors
<1>3. WrongInputError \in Errors
  BY DEF WrongInputError, Errors
<1>4. CommandErrors \subseteq Errors
  <2>1. {"bps_broken"} \subseteq Errors /\ {} \subseteq Errors
    BY DEF Errors
  <2> QED
    BY <1>1, <2>1 DEF CommandErrors
<1> QED
  BY <1>1, <1>2, <1>3, <1>4

LEMMA PatchTypesKeep ==
    ASSUME CrcIsNumber, CreateInv, PatchTypes, [Next]_vars PROVE PatchTypes'
<1> USE DEF PatchTypes
<1>0. NoPatch \in Patches /\ {"bps_ok", "bps_broken", "bps_not_this"} \subseteq Errors
  BY DEF NoPatch, Patches, Errors
<1>1. CASE Create \/ FreePatch
  BY <1>0, <1>1 DEF Create, bps_create_linear, FreePatch, applyVars
<1>2. CASE Creating
  <2>1. CASE Seal
    <3>1. Sealed(written, Crc(source), Crc(target)) \in Patches
      BY SealedIs DEF CreateInv, CreateShape, Memory
    <3> QED
      BY <1>2, <2>1, <3>1 DEF Seal, Creating, applyVars
  <2>2. CASE ~Seal
    BY <1>2, <2>2 DEF Creating, applyVars, CreateStep, NoMemory, AllocateBuffer, WriteHeader,
                      MatchSource, NothingChanged, WriteLiteral, NoRun, CopyRun
  <2> QED
    BY <2>1, <2>2
<1>3. CASE ApplyCreated
  BY <1>0, <1>3 DEF ApplyCreated, bps_apply, createVars
<1>4. CASE ApplyForeign
  BY <1>0, <1>4, ForeignAssumption DEF ApplyForeign, bps_apply, createVars
<1>5. CASE Applying
  BY <1>0, <1>5, ErrorsAreListed DEF Applying, createVars, ApplyStep, BadPatch, BadSize,
     WrongInput, OpenOutput, BadMetadata, ReadMetadata, DoSourceRead, DoTargetRead,
     DoSourceCopy, DoTargetCopy, BadCommand, Incomplete, WrongOutput, Return, Cleanup, Fail, args,
     MetadataAstray, SourceCopyAstray, NumberAstray, GoAstray
<1>6. CASE FreeOutput
  BY <1>0, <1>6 DEF FreeOutput, createVars
<1>7. CASE UNCHANGED vars
  BY <1>7 DEF vars, applyVars, createVars
<1> QED
  BY <1>1, <1>2, <1>3, <1>4, <1>5, <1>6, <1>7 DEF Next

\* Both calls keep the types of their variables, the offset of the loop and the
\* cursor of the later reader leave the target by a byte at most.
THEOREM TypesCorrect == ASSUME CrcIsNumber PROVE Spec => []TypeOK
<1>1. Init => PatchTypes
  <2>1. NoPatch \in Patches /\ "bps_ok" \in Errors
    BY DEF NoPatch, Patches, Errors
  <2> QED
    BY <2>1 DEF Init, ApplyInit, CreateInit, PatchTypes
<1>2. CreateInv /\ PatchTypes /\ [Next]_vars => PatchTypes'
  BY PatchTypesKeep
<1>3. AnswerFacts /\ PatchTypes => TypeOK
  <2> SUFFICES ASSUME AnswerFacts, PatchTypes PROVE TypeOK
    OBVIOUS
  <2>1. ApplyTypeOK
    BY DEF AnswerFacts, PatchTypes, CursorInv, ApplyTypeOK
  <2>2. /\ source \in Seq(Byte) /\ target \in Seq(Byte) /\ metadata \in Seq(Byte)
        /\ Len(target) \in Nat
    BY DEF AnswerFacts, CreateInv, CreateShape, Memory
  <2>3. at \in 0..(Len(target) + 1) /\ targetcopypos \in -1..Len(target)
    BY <2>2 DEF AnswerFacts, BodyInv, CreateInv, CreateShape
  <2> QED
    BY <2>1, <2>2, <2>3 DEF AnswerFacts, PatchTypes, CreateInv, CreateShape, BufferInv, TypeOK
<1>4. Spec => []AnswerFacts
  BY FactsAlways
<1> QED
  BY <1>1, <1>2, <1>3, <1>4, CreateAlways, PTL DEF Spec

-----------------------------------------------------------------------------
\* The verdict bps_identical.

\* A number's last byte is the first with a stop bit.
LEMMA NumberStops ==
    ASSUME NEW b \in Seq(Byte), NEW p \in Nat, p >= 1, NEW n \in Nat, HasNumber(b, p, n)
    PROVE  /\ After(p, n) - 1 \in p..Len(b) /\ Stops(b[After(p, n) - 1])
           /\ p <= Len(b) /\ Len(b) \in Nat
<1> DEFINE w == writenum[n]
<1>1. IsNumber(w) /\ After(p, n) = p + Len(w)
  BY WritenumIs DEF After
<1>2. p + Len(w) - 1 <= Len(b) /\ \A i \in 1..Len(w) : b[p + i - 1] = w[i]
  BY DEF HasNumber
<1> HIDE DEF w
<1>3. Len(w) \in Nat /\ Len(w) >= 1 /\ Stops(w[Len(w)])
  BY <1>1 DEF IsNumber
<1>4. b[p + Len(w) - 1] = w[Len(w)]
  BY <1>2, <1>3
<1> QED
  BY <1>1, <1>2, <1>3, <1>4

\* The target is not empty and the source begins with it.
Begun ==
    /\ Len(target) >= 1 /\ Len(target) <= Len(source)
    /\ \A i \in 1..Len(target) : source[i] = target[i]

\* A body of one number is such a body.
LEMMA OneNumberIsIdentical ==
    ASSUME CreateShape, NEW n \in Nat
    PROVE  IsIdentical(Header \o writenum[n])
<1> DEFINE h == Header
           w == writenum[n]
           b == h \o w
<1>1. IsNumber(w) /\ h \in Seq(Byte)
  BY WritenumIs, HeaderIs
<1> HIDE DEF w, h
<1>2. /\ w \in Seq(Byte) /\ Len(w) \in Nat /\ Len(w) >= 1 /\ Stops(w[Len(w)])
      /\ \A i \in 1..(Len(w) - 1) : ~Stops(w[i])
  BY <1>1 DEF IsNumber
<1>3. Len(b) = Len(h) + Len(w) /\ Len(h) \in Nat /\ \A i \in 1..Len(w) : b[Len(h) + i] = w[i]
  BY <1>1, <1>2, Appended
<1> HIDE DEF b
<1>4. Len(h) + 1 <= Len(b) /\ Stops(b[Len(b)])
  BY <1>2, <1>3
<1>5. ASSUME NEW i \in (Len(h) + 1)..(Len(b) - 1) PROVE ~Stops(b[i])
  <2>1. i - Len(h) \in 1..(Len(w) - 1) /\ i - Len(h) \in 1..Len(w) /\ Len(h) + (i - Len(h)) = i
    BY <1>2, <1>3
  <2>2. b[i] = w[i - Len(h)]
    BY <1>3, <2>1
  <2> QED
    BY <1>2, <2>1, <2>2
<1>6. IsIdentical(b)
  BY <1>4, <1>5 DEF IsIdentical, h
<1> QED
  BY <1>6 DEF b, h, w

\* A body with the whole target in one command.
OneRead == Header \o writenum[NumberFor(Len(target), SourceRead)]

VerdictInv ==
    /\ Begun /\ Writing =>
           \/ cpc = "loop" /\ at = 0 /\ written = Header
           \/ cpc # "run" /\ at = Len(target) /\ written = OneRead
    /\ HasPatch =>
           /\ Begun => written = OneRead
           /\ verdict = "bps_identical" <=> IsIdentical(written)

\* The first turn of the loop takes a target with which the source begins.
LEMMA BegunUnchanged ==
    ASSUME CreateShape, Begun, at = 0
    PROVE  Unchanged = Len(target) /\ WorthReading(Unchanged) /\ Len(target) \in Nat
<1>1. Offsets
  BY ShapeGivesOffsets DEF Begun, CreateShape, Memory
<1>2. /\ Len(target) \in Nat /\ Len(source) \in Nat /\ SourceEnd = Len(target)
  BY <1>1, SourceEndIs DEF Begun
<1> DEFINE n == Unchanged
<1>3. n \in Nat /\ n <= Len(target) /\ (n >= Len(target) \/ S(n) # T(n))
  <2>1. /\ n \in Nat /\ 0 + n <= Len(target)
        /\ 0 + n >= Len(target) \/ S(0 + n) # T(0 + n)
    <3> HIDE DEF n
    <3>1. /\ n \in Nat /\ at + n <= Len(target)
          /\ at + n >= SourceEnd \/ S(at + n) # T(at + n)
      BY <1>1, UnchangedIs DEF n
    <3> QED
      BY <1>2, <3>1
  <2> HIDE DEF n
  <2>2. n \in Nat => 0 + n = n
    OBVIOUS
  <2> QED
    BY <2>1, <2>2
<1>4. n < Len(target) => S(n) = T(n)
  <2> SUFFICES ASSUME n < Len(target) PROVE S(n) = T(n)
    OBVIOUS
  <2> HIDE DEF n
  <2>1. n \in 0..(Len(target) - 1) /\ n \in 0..(Len(source) - 1) /\ n + 1 \in 1..Len(target) /\ n \in Int
    BY <1>2, <1>3 DEF Begun
  <2>2. S(n) = source[n + 1] /\ T(n) = target[n + 1]
    BY <2>1, FileByte
  <2> QED
    BY <2>1, <2>2 DEF Begun
<1>5. n = Len(target)
  <2> HIDE DEF n
  <2> QED
    BY <1>2, <1>3, <1>4
<1>6. WorthReading(Len(target))
  BY <1>2 DEF WorthReading
<1> QED
  BY <1>2, <1>5, <1>6

LEMMA SameVerdict ==
    ASSUME UNCHANGED files
    PROVE  /\ Begun' <=> Begun
           /\ OneRead' = OneRead /\ Header' = Header
           /\ IsIdentical(written)' <=> IsIdentical(written')
BY DEF files, Begun, OneRead, Header, NumberFor, IsIdentical

LEMMA VerdictKeeps ==
    ASSUME CreateInv, VerdictInv, CreateStep PROVE VerdictInv'
<1>0. CreateShape /\ BufferInv /\ written \in Seq(Byte) /\ Header \in Seq(Byte) /\ Len(target) \in Nat
  BY HeaderIs DEF CreateInv, CreateShape
<1>1. UNCHANGED files
  BY DEF CreateStep, NoMemory, AllocateBuffer, WriteHeader, MatchSource, NothingChanged,
         WriteLiteral, NoRun, CopyRun, Seal
<1>2. /\ (Begun' <=> Begun) /\ OneRead' = OneRead /\ Header' = Header /\ target' = target
      /\ IsIdentical(written)' <=> IsIdentical(written')
  BY <1>1, SameVerdict DEF files
<1>3. CASE NoMemory \/ AllocateBuffer
  BY <1>0, <1>3 DEF NoMemory, AllocateBuffer, BufferInv, VerdictInv, Writing, HasPatch
<1>4. CASE WriteHeader
  <2>1. \/ cpc' = "loop" /\ written' = Header /\ at' = 0
        \/ cpc' = "done" /\ ~held'
    BY <1>0, <1>4, WriteKeepsRoom DEF WriteHeader, CreateShape
  <2> QED
    BY <1>2, <2>1 DEF VerdictInv, Writing, HasPatch
<1>5. CASE MatchSource
  <2>1. cpc = "loop" /\ Writing /\ at < Len(target) /\ at \in Nat
    BY <1>0, <1>5 DEF MatchSource, Writing, CreateShape
  <2>2. ~HasPatch'
    <3>1. CASE WorthReading(Unchanged)
      <4> DEFINE b == written \o writenum[(Unchanged - 1) * 4 + SourceRead]
      <4>1. WriteOrFail(b, "changed")
        BY <1>5, <3>1 DEF MatchSource
      <4> HIDE DEF b
      <4>2. cpc' = "changed" \/ (cpc' = "done" /\ ~held')
        BY <4>1 DEF WriteOrFail
      <4> QED
        BY <4>2 DEF HasPatch
    <3>2. CASE ~WorthReading(Unchanged)
      BY <1>5, <3>2 DEF MatchSource, HasPatch
    <3> QED
      BY <3>1, <3>2
  <2>3. ASSUME Begun, Writing'
        PROVE  cpc' = "changed" /\ at' = Len(target) /\ written' = OneRead
    <3>1. at = 0 /\ written = Header
      BY <1>0, <2>1, <2>3 DEF VerdictInv
    <3>2. Unchanged = Len(target) /\ WorthReading(Unchanged)
      BY <1>0, <2>3, <3>1, BegunUnchanged
    <3>3. written \o writenum[(Unchanged - 1) * 4 + SourceRead] = OneRead
      BY <3>1, <3>2 DEF OneRead, NumberFor
    <3>4. at' = at + Unchanged /\ WriteOrFail(OneRead, "changed")
      BY <1>5, <3>2, <3>3 DEF MatchSource
    <3>5. at' = Len(target)
      BY <1>0, <3>1, <3>2, <3>4
    <3> QED
      BY <2>3, <3>4, <3>5 DEF WriteOrFail, Writing
  <2> QED
    BY <1>2, <2>2, <2>3 DEF VerdictInv
<1>6. CASE NothingChanged
  BY <1>2, <1>6 DEF NothingChanged, VerdictInv, Writing, HasPatch
<1>7. CASE WriteLiteral
  <2>1. cpc = "changed" /\ Writing /\ at <= Len(target) /\ at \in Nat /\ Changed > 0
    BY <1>0, <1>7 DEF WriteLiteral, Writing, CreateShape
  <2>2. ~Begun
    <3> SUFFICES ASSUME Begun PROVE FALSE
      OBVIOUS
    <3>1. at = Len(target)
      BY <2>1 DEF VerdictInv
    <3>2. Changed \in Nat /\ at + Changed <= Len(target)
      BY <1>0, <2>1, ShapeGivesOffsets, ChangedIs
    <3> QED
      BY <1>0, <2>1, <3>1, <3>2
  <2>3. ~HasPatch'
    BY <1>7 DEF WriteLiteral, WriteOrFail, HasPatch
  <2> QED
    BY <1>2, <2>2, <2>3 DEF VerdictInv
<1>8. CASE NoRun \/ CopyRun
  <2>1. ~Begun
    BY <1>8 DEF NoRun, CopyRun, VerdictInv, Writing
  <2>2. ~HasPatch'
    BY <1>8 DEF NoRun, CopyRun, WriteOrFail, HasPatch
  <2> QED
    BY <1>2, <2>1, <2>2 DEF VerdictInv
<1>9. CASE Seal
  <2>1. cpc = "loop" /\ Writing /\ cpc' = "done" /\ at >= Len(target) /\ written' = written
    BY <1>9 DEF Seal, Writing
  <2>2. Begun => written = OneRead
    <3>1. Begun => ~(at = 0)
      BY <1>0, <2>1 DEF Begun
    <3> QED
      BY <2>1, <3>1 DEF VerdictInv
  <2>3. held' => verdict' = IF IsIdentical(written) THEN "bps_identical" ELSE "bps_ok"
    BY <1>9 DEF Seal
  <2> QED
    BY <1>2, <2>1, <2>2, <2>3 DEF VerdictInv, Writing, HasPatch
<1> QED
  BY <1>3, <1>4, <1>5, <1>6, <1>7, <1>8, <1>9 DEF CreateStep

LEMMA VerdictNext == CreateInv /\ VerdictInv /\ [Next]_vars => VerdictInv'
<1> SUFFICES ASSUME CreateInv, VerdictInv, [Next]_vars PROVE VerdictInv'
  OBVIOUS
<1>1. CASE Create
  BY <1>1 DEF Create, bps_create_linear, VerdictInv, Writing, HasPatch, CreateInv, BufferInv
<1>2. CASE Creating
  BY <1>2, VerdictKeeps DEF Creating
<1>3. CASE FreePatch
  BY <1>3 DEF FreePatch, VerdictInv, Writing, HasPatch
<1>4. CASE UNCHANGED createVars
  <2>1. UNCHANGED <<files, cpc, at, written, held, verdict>>
    BY <1>4 DEF createVars
  <2>2. /\ (Begun' <=> Begun) /\ OneRead' = OneRead /\ Header' = Header /\ target' = target
        /\ IsIdentical(written)' <=> IsIdentical(written)
    BY <2>1, SameVerdict DEF files
  <2> QED
    BY <2>1, <2>2 DEF VerdictInv, Writing, HasPatch
<1> QED
  BY <1>1, <1>2, <1>3, <1>4 DEF Next, ApplyCreated, ApplyForeign, Applying, FreeOutput, vars

\* What is written behind the header: nothing, one read of what the files share,
\* or a number that ends before the last byte.

StopsBefore(b) == \E i \in (Len(Header) + 1)..(Len(b) - 1) : Stops(b[i])

Agree(n) ==
    /\ n \in Nat /\ n >= 1 /\ n <= Len(target) /\ n <= Len(source)
    /\ \A i \in 1..n : source[i] = target[i]

AloneInv ==
    Writing \/ HasPatch =>
        \/ written = Header /\ (Writing => at = 0)
        \/ /\ Agree(at) /\ (HasPatch => at >= Len(target))
           /\ written = Header \o writenum[NumberFor(at, SourceRead)]
        \/ StopsBefore(written)

LEMMA StopsLater ==
    ASSUME CreateShape, NEW b \in Seq(Byte), StopsBefore(b), NEW c \in Seq(Byte)
    PROVE  StopsBefore(b \o c)
<1>1. Len(b) \in Nat /\ Len(c) \in Nat /\ Len(Header) \in Nat
  BY HeaderIs
<1>2. Len(b \o c) = Len(b) + Len(c) /\ \A i \in 1..Len(b) : (b \o c)[i] = b[i]
  BY Appended
<1>3. PICK i \in (Len(Header) + 1)..(Len(b) - 1) : Stops(b[i])
  BY DEF StopsBefore
<1>4. /\ i \in 1..Len(b) /\ i \in (Len(Header) + 1)..(Len(b \o c) - 1)
  BY <1>1, <1>2, <1>3
<1> QED
  BY <1>2, <1>3, <1>4 DEF StopsBefore

LEMMA NumberStopsBefore ==
    ASSUME CreateShape, NEW b \in Seq(Byte), Len(Header) <= Len(b), NEW n \in Nat,
           NEW c \in Seq(Byte), Len(c) >= 1
    PROVE  StopsBefore(b \o (writenum[n] \o c))
<1> DEFINE w == writenum[n]
<1>1. IsNumber(w)
  BY WritenumIs
<1> HIDE DEF w
<1>2. w \in Seq(Byte) /\ Len(w) \in Nat /\ Len(w) >= 1 /\ Stops(w[Len(w)])
  BY <1>1 DEF IsNumber
<1>3. Len(b) \in Nat /\ Len(c) \in Nat /\ Len(Header) \in Nat
  BY HeaderIs
<1>4. w \o c \in Seq(Byte) /\ Len(w \o c) = Len(w) + Len(c) /\ (w \o c)[Len(w)] = w[Len(w)]
  BY <1>2, <1>3, Appended
<1> DEFINE v == w \o c
<1>5. Len(b \o v) = Len(b) + Len(v) /\ \A i \in 1..Len(v) : (b \o v)[Len(b) + i] = v[i]
  BY <1>4, Appended
<1> HIDE DEF v
<1>6. Len(v) = Len(w) + Len(c) /\ v[Len(w)] = w[Len(w)]
  BY <1>4 DEF v
<1>7. Len(w) \in 1..Len(v) /\ Len(b) + Len(w) \in (Len(Header) + 1)..(Len(b \o v) - 1)
  BY <1>2, <1>3, <1>5, <1>6
<1>8. Stops((b \o v)[Len(b) + Len(w)])
  BY <1>2, <1>5, <1>6, <1>7
<1> QED
  BY <1>7, <1>8 DEF StopsBefore, v, w

\* What a turn of the loop writes.
LEMMA LoopWrites ==
    ASSUME CreateInv, MatchSource \/ NothingChanged \/ WriteLiteral \/ NoRun \/ CopyRun
    PROVE  \/ Writing' /\ at' = at /\ written' = written
           \/ cpc' = "done" /\ ~held'
           \/ \E n \in Nat, c \in Seq(Byte) :
                  Writing' /\ Len(c) >= 1 /\ written' = written \o (writenum[n] \o c)
           \/ /\ at \in Nat /\ at < Len(target) /\ Unchanged \in Nat \ {0}
              /\ Writing' /\ at' = at + Unchanged
              /\ written' = written \o writenum[NumberFor(Unchanged, SourceRead)]
<1>0. /\ CreateShape /\ written \in Seq(Byte) /\ at \in Nat /\ Len(target) \in Nat
  BY HeaderIs DEF CreateInv, CreateShape
<1>1. CASE NothingChanged \/ NoRun
  BY <1>1 DEF NothingChanged, NoRun, Writing
<1>2. CASE MatchSource /\ ~WorthReading(Unchanged)
  BY <1>2 DEF MatchSource, Writing
<1>3. CASE MatchSource /\ WorthReading(Unchanged)
  <2>1. at < Len(target) /\ Offsets
    BY <1>0, <1>3, ShapeGivesOffsets DEF MatchSource
  <2>2. Unchanged \in Nat /\ Unchanged >= 1
    BY <1>0, <1>3, <2>1, UnchangedIs DEF WorthReading
  <2> DEFINE body == written \o writenum[NumberFor(Unchanged, SourceRead)]
  <2>3. at' = at + Unchanged /\ WriteOrFail(body, "changed")
    BY <1>3 DEF MatchSource, NumberFor
  <2>4. Unchanged \in Nat \ {0}
    BY <2>2
  <2> HIDE DEF body
  <2>5. (cpc' = "done" /\ ~held') \/ (Writing' /\ written' = body)
    BY <2>3 DEF WriteOrFail, Writing
  <2> QED
    BY Zenon, <1>0, <2>1, <2>3, <2>4, <2>5 DEF body
<1>4. CASE WriteLiteral
  <2>1. cpc = "changed" /\ Offsets /\ Changed > 0
    BY <1>0, <1>4, ShapeGivesOffsets DEF WriteLiteral, CreateShape
  <2> DEFINE n == Literal(Changed)
  <2>2. n \in Nat /\ at + n <= Len(target)
    <3>1. Changed \in Nat /\ at + Changed <= Len(target)
      BY <2>1, ChangedIs
    <3>2. n \in Nat /\ n <= Changed
      BY <1>0, <2>1, <3>1, LiteralIs
    <3> HIDE DEF n
    <3> QED
      BY <1>0, <3>1, <3>2
  <2>3. /\ WriteOrFail(IF n = 0 THEN written
                       ELSE written \o writenum[(n - 1) * 4 + TargetRead]
                                \o [i \in 1..n |-> T(at + i - 1)], "run")
        /\ at' = at + n
    BY <1>4 DEF WriteLiteral
  <2> HIDE DEF n
  <2>4. CASE n = 0
    <3>1. WriteOrFail(written, "run") /\ at' = at
      BY <1>0, <2>3, <2>4
    <3>2. (cpc' = "done" /\ ~held') \/ (Writing' /\ written' = written)
      BY <3>1 DEF WriteOrFail, Writing
    <3> QED
      BY <3>1, <3>2
  <2>5. CASE n # 0
    <3> DEFINE lit == [i \in 1..n |-> T(at + i - 1)]
               m == NumberFor(n, TargetRead)
               w == writenum[m]
    <3>1. lit \in Seq(Byte) /\ Len(lit) = n
      <4>1. lit \in Seq(Byte)
        BY <1>0, <2>2, LiteralBytes
      <4> QED
        BY <2>2, <4>1
    <3>2. m \in Nat
      <4>1. n \in Nat \ {0}
        BY <2>2, <2>5
      <4> QED
        BY <4>1, NumberForIs
    <3>3. w \in Seq(Byte)
      <4> HIDE DEF m
      <4> QED
        BY <3>2, WrittenWord
    <3>4. WriteOrFail(written \o w \o lit, "run")
      BY <2>3, <2>5 DEF NumberFor
    <3>5. Len(lit) >= 1
      BY <2>2, <2>5, <3>1
    <3> HIDE DEF lit, w
    <3>6. (cpc' = "done" /\ ~held') \/ (Writing' /\ written' = written \o w \o lit)
      BY <3>4 DEF WriteOrFail, Writing
    <3>7. written \o w \o lit = written \o (w \o lit)
      BY <1>0, <3>1, <3>3, Regroup
    <3>8. written' = written \o (w \o lit) => written' = written \o (writenum[m] \o lit)
      BY DEF w
    <3> HIDE DEF m
    <3> QED
      BY Zenon, <3>1, <3>2, <3>5, <3>6, <3>7, <3>8
  <2> QED
    BY <2>4, <2>5
<1>5. CASE CopyRun
  <2> DEFINE n == RunLength(Period)
             m == Wrap((n - 1) * 4 + TargetCopy)
             k == Wrap((at - targetcopypos - Period) * 2)
             v == writenum[k]
             w == writenum[m]
  <2>1. m \in Nat /\ k \in Nat
    <3>1. \A i \in Int : Wrap(i) \in Nat
      <4>1. SizeMax + 1 \in Nat /\ SizeMax + 1 >= 1
        BY DigitsAre
      <4> QED
        BY <4>1 DEF Wrap
    <3>2. n \in Int
      <4>1. Period \in {1, 2} /\ Offsets
        BY <1>0, <1>5, PeriodIs, ShapeGivesOffsets DEF CopyRun, CreateShape
      <4> QED
        BY <4>1, RunLengthIs
    <3>3. Period \in Int /\ targetcopypos \in Int
      BY <1>0, PeriodIs DEF CreateShape
    <3> HIDE DEF n
    <3>4. (n - 1) * 4 + TargetCopy \in Int /\ (at - targetcopypos - Period) * 2 \in Int
      BY <1>0, <3>2, <3>3 DEF TargetCopy
    <3> QED
      BY <3>1, <3>4
  <2>2. WriteOrFail(written \o w \o v, "loop")
    BY <1>5 DEF CopyRun
  <2> HIDE DEF k, m
  <2>3. v \in Seq(Byte) /\ Len(v) >= 1 /\ w \in Seq(Byte)
    BY <2>1, WrittenWord
  <2> HIDE DEF v, w
  <2>4. (cpc' = "done" /\ ~held') \/ (Writing' /\ written' = written \o w \o v)
    BY <2>2 DEF WriteOrFail, Writing
  <2>5. written \o w \o v = written \o (w \o v)
    BY <1>0, <2>3, Regroup
  <2>6. written' = written \o (w \o v) => written' = written \o (writenum[m] \o v)
    BY DEF w
  <2> QED
    BY Zenon, <2>1, <2>3, <2>4, <2>5, <2>6
<1> QED
  BY <1>1, <1>2, <1>3, <1>4, <1>5

LEMMA SameAlone ==
    ASSUME UNCHANGED files
    PROVE  /\ Header' = Header
           /\ StopsBefore(written)' <=> StopsBefore(written')
           /\ Agree(at)' <=> Agree(at')
BY DEF files, Header, StopsBefore, Agree

\* The bytes of the first read are those of both files.
LEMMA FirstRead ==
    ASSUME CreateShape, at = 0, 0 < Len(target), Unchanged \in Nat \ {0}
    PROVE  Agree(Unchanged)
<1>1. Offsets
  BY ShapeGivesOffsets DEF CreateShape, Memory
<1>2. /\ Len(target) \in Nat /\ Len(source) \in Nat
      /\ SourceEnd \in Nat /\ SourceEnd <= Len(source) /\ SourceEnd <= Len(target)
  BY <1>1, SourceEndIs
<1>3. PICK n \in Nat : n = Unchanged /\ n >= 1
  OBVIOUS
<1>4. \A j \in 0..(n - 1) : 0 + j < SourceEnd /\ S(0 + j) = T(0 + j)
  BY <1>1, <1>3, UnchangedIs
<1>5. \A j \in 0..(n - 1) : j < SourceEnd /\ S(j) = T(j)
  <2>1. \A j \in 0..(n - 1) : 0 + j = j
    OBVIOUS
  <2> QED
    BY <1>4, <2>1
<1>6. n <= SourceEnd
  BY <1>2, <1>3, <1>5
<1>7. ASSUME NEW i \in 1..n PROVE source[i] = target[i]
  <2>1. PICK j \in 0..(n - 1) : i = j + 1
    <3>1. i - 1 \in 0..(n - 1) /\ i = i - 1 + 1
      BY <1>3
    <3> QED
      BY <3>1
  <2>2. j \in Int /\ j \in 0..(Len(target) - 1) /\ j \in 0..(Len(source) - 1)
    BY <1>2, <1>3, <1>6
  <2>3. T(j) = target[j + 1] /\ S(j) = source[j + 1]
    BY <2>2, FileByte
  <2> QED
    BY <1>5, <2>1, <2>3
<1> QED
  BY <1>2, <1>3, <1>6, <1>7 DEF Agree

LEMMA AloneKeeps ==
    ASSUME CreateInv, BodyInv, AloneInv, CreateStep PROVE AloneInv'
<1>0. /\ CreateShape /\ BufferInv /\ written \in Seq(Byte) /\ Header \in Seq(Byte)
      /\ Len(target) \in Nat /\ Len(Header) \in Nat
  BY HeaderIs DEF CreateInv, CreateShape
<1>1. UNCHANGED files
  BY DEF CreateStep, NoMemory, AllocateBuffer, WriteHeader, MatchSource, NothingChanged,
         WriteLiteral, NoRun, CopyRun, Seal
<1>2. /\ Header' = Header /\ target' = target
      /\ (StopsBefore(written)' <=> StopsBefore(written')) /\ (Agree(at)' <=> Agree(at'))
  BY <1>1, SameAlone DEF files
<1>3. CASE NoMemory \/ AllocateBuffer
  BY <1>0, <1>3 DEF NoMemory, AllocateBuffer, BufferInv, AloneInv, Writing, HasPatch
<1>4. CASE WriteHeader
  <2>1. \/ cpc' = "loop" /\ written' = Header /\ at' = 0
        \/ cpc' = "done" /\ ~held'
    BY <1>0, <1>4, WriteKeepsRoom DEF WriteHeader, CreateShape
  <2> QED
    BY <1>2, <2>1 DEF AloneInv, Writing, HasPatch
<1>5. CASE MatchSource \/ NothingChanged \/ WriteLiteral \/ NoRun \/ CopyRun
  <2>1. Writing /\ Begins(written)
    BY <1>5 DEF MatchSource, NothingChanged, WriteLiteral, NoRun, CopyRun, Writing, BodyInv
  <2>2. Len(Header) <= Len(written)
    BY <1>0, <2>1 DEF Begins, Holds
  <2>3. CASE Writing' /\ at' = at /\ written' = written
    <3>1. ~HasPatch'
      BY <2>3 DEF Writing, HasPatch
    <3>2. \/ written' = Header /\ at' = 0
          \/ Agree(at') /\ written' = Header \o writenum[NumberFor(at', SourceRead)]
          \/ StopsBefore(written')
      BY <2>1, <2>3 DEF AloneInv
    <3>3. NumberFor(at, SourceRead)' = NumberFor(at', SourceRead)
      BY DEF NumberFor, SourceRead
    <3> QED
      BY <1>2, <3>1, <3>2, <3>3 DEF AloneInv
  <2>4. CASE cpc' = "done" /\ ~held'
    BY <2>4 DEF AloneInv, Writing, HasPatch
  <2>5. ASSUME NEW n \in Nat, NEW c \in Seq(Byte), Len(c) >= 1,
               written' = written \o (writenum[n] \o c)
        PROVE  AloneInv'
    <3>1. StopsBefore(written')
      BY <1>0, <2>2, <2>5, NumberStopsBefore
    <3> QED
      BY <1>2, <3>1 DEF AloneInv
  <2>6. CASE /\ at \in Nat /\ at < Len(target) /\ Unchanged \in Nat \ {0}
             /\ Writing' /\ at' = at + Unchanged
             /\ written' = written \o writenum[NumberFor(Unchanged, SourceRead)]
    <3> DEFINE m == NumberFor(Unchanged, SourceRead)
               w == writenum[m]
    <3>1. m \in Nat /\ w \in Seq(Byte) /\ Len(w) >= 1
      <4>1. m \in Nat
        BY <2>6, NumberForIs
      <4> HIDE DEF m
      <4> QED
        BY <4>1, WrittenWord
    <3>2. written' = written \o w /\ ~HasPatch'
      BY <2>6 DEF Writing, HasPatch
    <3>3. CASE written = Header /\ at = 0
      <4>1. Agree(Unchanged)
        BY <1>0, <2>6, <3>3, FirstRead
      <4>2. at' = Unchanged
        BY <2>6, <3>3
      <4>3. written' = Header \o writenum[NumberFor(at', SourceRead)]
        BY <3>2, <3>3, <4>2
      <4>4. NumberFor(at, SourceRead)' = NumberFor(at', SourceRead)
        BY DEF NumberFor, SourceRead
      <4> QED
        BY <1>2, <3>2, <4>1, <4>2, <4>3, <4>4 DEF AloneInv
    <3>4. CASE Agree(at) /\ written = Header \o writenum[NumberFor(at, SourceRead)]
      <4> DEFINE k == NumberFor(at, SourceRead)
                 v == writenum[k]
      <4>1. k \in Nat /\ v \in Seq(Byte)
        <5>1. k \in Nat
          <6>1. at \in Nat \ {0}
            BY <3>4 DEF Agree
          <6> QED
            BY <6>1, NumberForIs
        <5> HIDE DEF k
        <5> QED
          BY <5>1, WrittenWord
      <4> HIDE DEF k, w
      <4>2. StopsBefore(Header \o (v \o w))
        BY <1>0, <3>1, <4>1, NumberStopsBefore
      <4>3. written' = (Header \o v) \o w
        BY <3>2, <3>4 DEF k
      <4> HIDE DEF v
      <4>4. written' = Header \o (v \o w)
        BY <1>0, <3>1, <4>1, <4>3, Regroup
      <4>5. StopsBefore(written')
        BY <4>2, <4>4
      <4> QED
        BY <1>2, <4>5 DEF AloneInv
    <3>5. CASE StopsBefore(written)
      <4> HIDE DEF w
      <4>1. StopsBefore(written')
        BY <1>0, <3>1, <3>2, <3>5, StopsLater
      <4> QED
        BY <1>2, <4>1 DEF AloneInv
    <3> QED
      BY <2>1, <3>3, <3>4, <3>5 DEF AloneInv
  <2> QED
    BY <1>0, <1>5, <2>3, <2>4, <2>5, <2>6, LoopWrites
<1>6. CASE Seal
  <2>1. /\ cpc = "loop" /\ Writing /\ ~Writing' /\ at >= Len(target)
        /\ written' = written /\ at' = at
    BY <1>6 DEF Seal, Writing
  <2>2. NumberFor(at, SourceRead)' = NumberFor(at', SourceRead)
    BY DEF NumberFor, SourceRead
  <2> QED
    BY <1>2, <2>1, <2>2 DEF AloneInv
<1> QED
  BY <1>3, <1>4, <1>5, <1>6 DEF CreateStep

LEMMA AloneNext == CreateInv /\ BodyInv /\ AloneInv /\ [Next]_vars => AloneInv'
<1> SUFFICES ASSUME CreateInv, BodyInv, AloneInv, [Next]_vars PROVE AloneInv'
  OBVIOUS
<1>1. CASE Create
  BY <1>1 DEF Create, bps_create_linear, AloneInv, Writing, HasPatch, CreateInv, BufferInv
<1>2. CASE Creating
  BY <1>2, AloneKeeps DEF Creating
<1>3. CASE FreePatch
  BY <1>3 DEF FreePatch, AloneInv, Writing, HasPatch
<1>4. CASE UNCHANGED createVars
  BY <1>4 DEF createVars, files, AloneInv, Agree, StopsBefore, Header, NumberFor, SourceRead,
            Writing, HasPatch
<1> QED
  BY <1>1, <1>2, <1>3, <1>4 DEF Next, ApplyCreated, ApplyForeign, Applying, FreeOutput, vars

\* A patch that is called identical is one read of what the files share.
LEMMA IdenticalAlone ==
    ASSUME CreateInv, BodyInv, AloneInv, HasPatch, IsIdentical(written)
    PROVE  Agree(Len(target))
<1>1. CreateShape /\ Len(target) \in Nat /\ Len(written) \in Nat /\ Len(Header) \in Nat
  BY HeaderIs DEF CreateInv, CreateShape
<1>2. /\ Len(Header) + 1 <= Len(written)
      /\ \A i \in (Len(Header) + 1)..(Len(written) - 1) : ~Stops(written[i])
  BY DEF IsIdentical
<1>3. written # Header /\ ~StopsBefore(written)
  BY <1>1, <1>2 DEF StopsBefore
<1>4. Agree(at) /\ at >= Len(target)
  BY <1>3 DEF AloneInv
<1>5. at = Len(target)
  BY <1>1, <1>4 DEF Agree
<1> QED
  BY <1>4, <1>5

\* For every pair of files, whatever lies around them: two equal files that are
\* not empty are said to be identical, and two that are said to be so agree in
\* every byte of the target (libbps.cpp, the loop at the end of the call).
THEOREM IdenticalIsFound == Spec => []IdenticalAgrees
<1>1. Init => VerdictInv /\ AloneInv
  BY DEF Init, CreateInit, VerdictInv, AloneInv, Writing, HasPatch
<1>2. CreateInv /\ BodyInv /\ VerdictInv /\ AloneInv => IdenticalAgrees
  <2> SUFFICES ASSUME CreateInv, BodyInv, VerdictInv, AloneInv, HasPatch
               PROVE  /\ source = target /\ target # <<>> => verdict = "bps_identical"
                      /\ verdict = "bps_identical" =>
                             /\ Len(target) <= Len(source)
                             /\ \A i \in 1..Len(target) : source[i] = target[i]
    BY DEF IdenticalAgrees
  <2>1. CreateShape /\ target \in Seq(Byte) /\ Len(target) \in Nat
    BY HeaderIs DEF CreateInv, CreateShape, Memory
  <2>2. ASSUME source = target, target # <<>> PROVE verdict = "bps_identical"
    <3>1. Len(target) >= 1
      BY <2>1, <2>2
    <3>2. Begun
      BY <2>1, <2>2, <3>1 DEF Begun
    <3>3. NumberFor(Len(target), SourceRead) \in Nat
      BY <2>1, <3>1, NumberForIs
    <3>4. IsIdentical(OneRead)
      BY <2>1, <3>3, OneNumberIsIdentical DEF OneRead
    <3> QED
      BY <3>2, <3>4 DEF VerdictInv
  <2>3. verdict = "bps_identical" => Agree(Len(target))
    BY IdenticalAlone DEF VerdictInv
  <2> QED
    BY <2>2, <2>3 DEF Agree
<1> QED
  BY <1>1, <1>2, VerdictNext, AloneNext, CreateAlways, BodyAlways, PTL DEF Spec

-----------------------------------------------------------------------------
\* The two readers of a patch that change nothing: their loops are recursions
\* over the places of the patch, from its end.

\* What a command is, and that it ends behind its place.
LEMMA CommandAtIs ==
    ASSUME NEW p, p.body \in Seq(Byte), NEW a \in Nat \ {0}
    PROVE  /\ CommandAt(p, a).action \in 0..3
           /\ CommandAt(p, a).length \in Nat /\ CommandAt(p, a).length >= 1
           /\ CommandAt(p, a).at \in Nat \ {0}
           /\ CommandAt(p, a).distance.value \in Nat
           /\ CommandEnd(CommandAt(p, a)) \in Nat \ {0}
           /\ CommandEnd(CommandAt(p, a)) > a \/ a > Len(p.body)
<1> DEFINE n == decodenum(p.body, a)
           d == decodenum(p.body, n.at)
           c == CommandAt(p, a)
<1>0. Len(p.body) \in Nat
  OBVIOUS
<1>1. n.value \in Nat /\ n.at \in Nat \ {0} /\ (n.at > a \/ n.at > Len(p.body))
  BY NumberIs
<1>2. d.value \in Nat /\ d.at \in Nat \ {0} /\ (d.at > n.at \/ d.at > Len(p.body))
  BY <1>1, NumberIs
<1>3. n.value % 4 \in 0..3 /\ n.value \div 4 \in Nat
  <2> HIDE DEF n
  <2>1. \A v \in Nat : v % 4 \in 0..3 /\ v \div 4 \in Nat
    OBVIOUS
  <2> QED
    BY <1>1, <2>1
<1>4. /\ c.action = n.value % 4 /\ c.length = n.value \div 4 + 1
      /\ c.at = n.at /\ c.distance = d
  BY DEF CommandAt
<1> HIDE DEF n, d, c
<1>5. /\ c.action \in 0..3 /\ c.length \in Nat /\ c.length >= 1
      /\ c.at \in Nat \ {0} /\ c.distance.value \in Nat
  <2>1. PICK q \in Nat : q = n.value \div 4
    BY <1>3
  <2>2. c.length = q + 1
    BY <1>4, <2>1
  <2> QED
    BY <1>1, <1>2, <1>3, <1>4, <2>2
<1>6. CommandEnd(c) \in {c.at, c.at + c.length, d.at}
  BY <1>4, Zenon DEF CommandEnd
<1>7. CommandEnd(c) \in Nat \ {0} /\ (CommandEnd(c) > a \/ a > Len(p.body))
  <2>1. PICK e, l : e = CommandEnd(c) /\ l = c.length
    OBVIOUS
  <2>2. e \in {n.at, n.at + l, d.at} /\ l \in Nat
    BY <1>4, <1>5, <1>6, <2>1
  <2>3. e \in Nat \ {0} /\ (e > a \/ a > Len(p.body))
    BY <1>0, <1>1, <1>2, <2>2
  <2> QED
    BY Zenon, <2>1, <2>3
<1> QED
  BY <1>5, <1>7, Zenon DEF c

-----------------------------------------------------------------------------
\* The walk of the change fraction.

WalkStep(p, n, w, f) ==
    IF w.at > Len(p.body) \/ w.outpos >= n THEN w ELSE f[Walked(w, CommandAt(p, w.at))]

Walk(p, n) == CHOOSE f : f = [w \in Walks |-> WalkStep(p, n, w, f)]

LEMMA ChangeWalkIs ==
    ASSUME NEW p, NEW from, NEW n
    PROVE  ChangeWalk(p, from, n) = Walk(p, n)[[at |-> from, outpos |-> 0, amount |-> 0]]
BY Zenon DEF ChangeWalk, Walk, WalkStep

LEMMA WalkedIs ==
    ASSUME NEW p, p.body \in Seq(Byte), NEW w \in Walks, w.at <= Len(p.body)
    PROVE  /\ Walked(w, CommandAt(p, w.at)) \in Walks
           /\ Walked(w, CommandAt(p, w.at)).at > w.at
<1> DEFINE c == CommandAt(p, w.at)
           e == CommandEnd(c)
<1>1. w.at \in Nat \ {0} /\ w.outpos \in Nat /\ w.amount \in Nat
  BY DEF Walks
<1>2. c.length \in Nat /\ e \in Nat \ {0} /\ e > w.at
  <2>1. Len(p.body) \in Nat
    OBVIOUS
  <2> QED
    BY <1>1, <2>1, CommandAtIs
<1> HIDE DEF c
<1>3. Walked(w, c) \in Walks /\ Walked(w, c).at = e
  BY <1>1, <1>2 DEF Walked, Walks, Counted
<1> HIDE DEF e
<1> QED
  BY <1>2, <1>3 DEF c

\* The walk ends, wherever it starts, and gives a score.
LEMMA WalkEnds ==
    ASSUME NEW p, p.body \in Seq(Byte), NEW from \in Nat \ {0}, NEW n
    PROVE  ChangeWalk(p, from, n) \in Walks
<1> DEFINE Rule == [w \in Walks |-> [f \in [Walks -> Walks] |-> WalkStep(p, n, w, f)]]
           L == Len(p.body)
<1>0. L \in Nat /\ \A w \in Walks : w.at \in Nat
  BY DEF Walks
<1>1. ASSUME NEW w \in Walks, NEW f \in [Walks -> Walks] PROVE WalkStep(p, n, w, f) \in Walks
  <2>1. CASE w.at > L \/ w.outpos >= n
    BY <2>1 DEF WalkStep
  <2>2. CASE ~(w.at > L \/ w.outpos >= n)
    <3>1. Walked(w, CommandAt(p, w.at)) \in Walks
      BY <1>0, <2>2, WalkedIs
    <3> QED
      BY <2>2, <3>1 DEF WalkStep
  <2> QED
    BY <2>1, <2>2
<1>2. ASSUME NEW w \in Walks, NEW f, NEW g,
             \A y \in Walks : w.at <= L /\ y.at > w.at => f[y] = g[y]
      PROVE  WalkStep(p, n, w, f) = WalkStep(p, n, w, g)
  <2>1. CASE w.at > L \/ w.outpos >= n
    BY <2>1 DEF WalkStep
  <2>2. CASE ~(w.at > L \/ w.outpos >= n)
    <3> DEFINE y == Walked(w, CommandAt(p, w.at))
    <3>1. w.at <= L
      BY <1>0, <2>2
    <3>2. y \in Walks /\ y.at > w.at
      BY <3>1, WalkedIs
    <3>3. f[y] = g[y]
      BY <1>2, <3>1, <3>2
    <3> QED
      BY <2>2, <3>3 DEF WalkStep
  <2> QED
    BY <2>1, <2>2
<1>3. [at |-> from, outpos |-> 0, amount |-> 0] \in Walks
  BY DEF Walks
<1> HIDE DEF L
<1>4. PICK f \in [Walks -> Walks] : \A w \in Walks : f[w] = WalkStep(p, n, w, f)
  <2>1. Rule \in [Walks -> [[Walks -> Walks] -> Walks]]
    BY <1>1
  <2>2. \A w \in Walks : \A f \in [Walks -> Walks] : Rule[w][f] = WalkStep(p, n, w, f)
    OBVIOUS
  <2> HIDE DEF Rule
  <2>3. \A w \in Walks : \A f, g \in [Walks -> Walks] :
            (\A y \in Walks : w.at <= L /\ y.at > w.at => f[y] = g[y]) => Rule[w][f] = Rule[w][g]
    BY <1>2, <2>2
  <2>4. Walks # {}
    BY <1>3
  <2>5. \E f \in [Walks -> Walks] : \A w \in Walks : f[w] = Rule[w][f]
    <3>1. LooksLater(Walks, Walks, L, Rule)
      BY Zenon, <1>0, <2>1, <2>3 DEF LooksLater
    <3> QED
      BY <1>0, <2>4, <3>1, LaterDefines
  <2> QED
    BY <2>2, <2>5
<1> DEFINE t == Walk(p, n)
<1>5. t = [w \in Walks |-> WalkStep(p, n, w, t)]
  <2>1. f = [w \in Walks |-> WalkStep(p, n, w, f)]
    BY <1>4
  <2> QED
    BY <2>1 DEF Walk
<1> HIDE DEF t
<1>6. \A w \in Walks : t[w] = WalkStep(p, n, w, t)
  BY <1>5
<1>7. Walks \subseteq {w \in Walks : f[w] = t[w]}
  <2> DEFINE Same == {w \in Walks : f[w] = t[w]}
  <2>1. ASSUME NEW w \in Walks, \A y \in Walks : w.at <= L /\ y.at > w.at => y \in Same
        PROVE  w \in Same
    <3>1. \A y \in Walks : w.at <= L /\ y.at > w.at => f[y] = t[y]
      BY <2>1
    <3>2. WalkStep(p, n, w, f) = WalkStep(p, n, w, t)
      BY <1>2, <3>1
    <3> QED
      BY <1>4, <1>6, <3>2
  <2> HIDE DEF Same
  <2>2. Walks \subseteq Same
    BY <1>0, <2>1, LaterFirst
  <2> QED
    BY <2>2 DEF Same
<1>8. t[[at |-> from, outpos |-> 0, amount |-> 0]] \in Walks
  BY <1>3, <1>4, <1>7
<1> QED
  BY <1>8, ChangeWalkIs DEF t

\* The bytes that a body holds are the part of it at that place.
LEMMA HeldPart ==
    ASSUME NEW b \in Seq(Byte), NEW a \in Nat, a >= 1, NEW w \in Seq(Byte), Holds(b, a, w)
    PROVE  SubSeq(b, a, a + Len(w) - 1) = w
<1>1. Len(b) \in Nat /\ Len(w) \in Nat /\ a + Len(w) - 1 <= Len(b)
  BY DEF Holds
<1>2. \A i \in 1..Len(w) : b[a + i - 1] = w[i]
  BY DEF Holds
<1>3. SubSeq(b, a, a + Len(w) - 1) = [i \in 1..Len(w) |-> b[a + i - 1]]
  <2>1. PICK e \in Int : e = a + Len(w) - 1
    BY <1>1
  <2>2. e - a + 1 = Len(w)
    BY <1>1, <2>1
  <2>3. SubSeq(b, a, e) = [i \in 1..(e - a + 1) |-> b[a + i - 1]]
    BY <2>1
  <2> QED
    BY <2>1, <2>2, <2>3
<1>4. w = [i \in 1..Len(w) |-> w[i]]
  OBVIOUS
<1> QED
  BY <1>2, <1>3, <1>4

\* What bps_get_info gives for a whole header, reads that succeed or fail, and
\* a walk that ends with a score.
HasHeader(p) ==
    /\ p = Sealed(p.body, p.crcIn, p.crcOut)
    /\ p.magic = TRUE /\ p.body \in Seq(Byte) /\ ~TooShort(p)
    /\ SizeIn(p).status = "ok" /\ SizeOut(p).status = "ok" /\ SizeMeta(p).status = "ok"
    /\ SizeIn(p).value \in Nat /\ SizeMeta(p).at \in Nat /\ SizeMeta(p).at >= 1

\* What the third read leaves in its buffer.
ReadBack(p, readable, junk) ==
    IF "patch" \in readable THEN p ELSE [p EXCEPT !.body = Filled(Len(p.body), junk)]

LEMMA ReadBackIs ==
    ASSUME NEW p, HasHeader(p), NEW readable, NEW junk \in Seq(Byte)
    PROVE  ReadBack(p, readable, junk).body \in Seq(Byte)
<1>1. Filled(Len(p.body), junk) \in Seq(Byte)
  <2>1. Len(p.body) \in Nat /\ Len(junk) \in Nat
    BY DEF HasHeader
  <2>2. 0 \in Byte
    BY DigitsAre DEF Byte
  <2>3. \A i \in 1..Len(p.body) : (IF i <= Len(junk) THEN junk[i] ELSE 0) \in Byte
    <3> SUFFICES ASSUME NEW i \in 1..Len(p.body), i <= Len(junk) PROVE junk[i] \in Byte
      BY <2>2
    <3>1. i \in 1..Len(junk)
      BY <2>1
    <3> QED
      BY <3>1
  <2> QED
    BY <2>1, <2>3 DEF Filled
<1>2. [p EXCEPT !.body = Filled(Len(p.body), junk)].body = Filled(Len(p.body), junk)
  <2>1. PICK b, i, o : p = Sealed(b, i, o)
    BY DEF HasHeader
  <2>2. PICK x : x = Filled(Len(p.body), junk)
    OBVIOUS
  <2>3. [p EXCEPT !.body = x].body = x
    BY <2>1 DEF Sealed
  <2> QED
    BY Zenon, <2>2, <2>3
<1> QED
  BY Zenon, <1>1, <1>2 DEF ReadBack, HasHeader

LEMMA InfoIs ==
    ASSUME NEW p, HasHeader(p), NEW changefrac \in BOOLEAN,
           NEW readable \in SUBSET {"top", "checksums", "patch"}, NEW junk \in Seq(Byte)
    PROVE  LET info == bps_get_info(p, changefrac, readable, junk)
           IN  /\ ~changefrac =>
                      (info.error = "bps_ok" <=> {"top", "checksums"} \subseteq readable)
               /\ info.error = "bps_ok" =>
                   /\ info.size_in = SizeIn(p).value /\ info.size_out = SizeOut(p).value
                   /\ info.meta_start = SizeMeta(p).at /\ info.meta_size = SizeMeta(p).value
                   /\ info.crc_in = p.crcIn /\ info.crc_out = p.crcOut
                   /\ info.change_num <= info.change_denom
<1> DEFINE patchbin == ReadBack(p, readable, junk)
           again == decodenum(patchbin.body, SizeMeta(p).at)
           v == SizeIn(p).value
           end == ChangeWalk(patchbin, again.at + again.value, v)
           counts == changefrac /\ v > 0
           amount == IF end.amount < v THEN end.amount ELSE v
           large == counts /\ again.status = "big"
           bad == counts /\ (end.at > Len(p.body) + 1 \/ end.outpos > SizeOut(p).value)
           good == [error |-> "bps_ok",
                    size_in |-> v, size_out |-> SizeOut(p).value,
                    meta_start |-> SizeMeta(p).at, meta_size |-> SizeMeta(p).value,
                    crc_in |-> p.crcIn, crc_out |-> p.crcOut, crc_patch |-> p.crcPatch,
                    change_num |-> IF counts THEN amount ELSE 1,
                    change_denom |-> IF counts THEN v ELSE 1]
           info == bps_get_info(p, changefrac, readable, junk)
<1>0. patchbin.body \in Seq(Byte)
  BY ReadBackIs
<1> USE DEF HasHeader
<1>1. end.amount \in Nat
  <2> HIDE DEF patchbin
  <2>1. again.at \in Nat \ {0} /\ again.value \in Nat
    BY <1>0, NumberIs
  <2>2. again.at + again.value \in Nat \ {0}
    <3> HIDE DEF again
    <3> QED
      BY <2>1
  <2>3. end \in Walks
    <3> HIDE DEF again
    <3> QED
      BY <1>0, <2>2, WalkEnds
  <2> HIDE DEF end
  <2> QED
    BY <2>3 DEF Walks
<1>2. info = IF "top" \notin readable THEN [error |-> "bps_io"]
             ELSE IF "checksums" \notin readable THEN [error |-> "bps_io"]
             ELSE IF large THEN [error |-> "bps_too_big"]
             ELSE IF bad THEN [error |-> "bps_broken"]
             ELSE good
  <2>1. ~(\E n \in {SizeIn(p), SizeOut(p), SizeMeta(p)} : n.status # "ok")
    OBVIOUS
  <2> QED
    BY Zenon, <2>1 DEF bps_get_info, ReadBack
<1>3. good.change_num <= good.change_denom
  <2> HIDE DEF end
  <2>1. amount <= v /\ 1 <= 1
    BY <1>1
  <2> HIDE DEF amount, v
  <2> QED
    BY <2>1
<1> DEFINE refused == {[error |-> "bps_io"], [error |-> "bps_too_big"], [error |-> "bps_broken"]}
<1>4. \A r \in refused : r.error # "bps_ok"
  OBVIOUS
<1>5. /\ good.error = "bps_ok" /\ good.size_in = v /\ good.size_out = SizeOut(p).value
      /\ good.meta_start = SizeMeta(p).at /\ good.meta_size = SizeMeta(p).value
      /\ good.crc_in = p.crcIn /\ good.crc_out = p.crcOut
  OBVIOUS
<1>6. ~changefrac => ~large /\ ~bad
  OBVIOUS
<1>7. info \in refused \/ (info = good /\ "top" \in readable /\ "checksums" \in readable)
  <2> HIDE DEF good, info, large, bad
  <2> QED
    BY <1>2
<1>8. ~changefrac /\ "top" \in readable /\ "checksums" \in readable => info = good
  <2> HIDE DEF good, info, large, bad
  <2> QED
    BY <1>2, <1>6
<1> HIDE DEF good, info, refused
<1>9. {"top", "checksums"} \subseteq readable <=> ("top" \in readable /\ "checksums" \in readable)
  OBVIOUS
<1>10. ~changefrac => (info.error = "bps_ok" <=> {"top", "checksums"} \subseteq readable)
  BY Zenon, <1>4, <1>5, <1>7, <1>8, <1>9
<1>11. info.error = "bps_ok" => info = good
  BY Zenon, <1>4, <1>7
<1> QED
  BY Zenon, <1>3, <1>5, <1>10, <1>11 DEF info

LEMMA OwnInfo == ASSUME CreateInv, BodyInv PROVE InfoAgrees
<1> SUFFICES ASSUME HasPatch, NEW changefrac \in BOOLEAN,
                    NEW readable \in SUBSET {"top", "checksums", "patch"}, NEW junk \in Junk
             PROVE  LET info == bps_get_info(created, changefrac, readable, junk)
                    IN  /\ ~changefrac =>
                               (info.error = "bps_ok" <=> {"top", "checksums"} \subseteq readable)
                        /\ info.error = "bps_ok" =>
                            /\ info.size_in = Len(source) /\ info.size_out = Len(target)
                            /\ info.meta_size = Len(metadata)
                            /\ SubSeq(created.body, info.meta_start,
                                      info.meta_start + info.meta_size - 1) = metadata
                            /\ info.crc_in = Crc(source) /\ info.crc_out = Crc(target)
                            /\ info.change_num <= info.change_denom
  BY DEF InfoAgrees
<1> DEFINE info == bps_get_info(created, changefrac, readable, junk)
<1>1. /\ CreateShape /\ written \in Seq(Byte) /\ Begins(written)
      /\ created = Sealed(written, Crc(source), Crc(target))
  BY DEF BodyInv, CreateInv, CreateShape
<1>2. /\ created.body = written /\ created.magic = TRUE
      /\ created.crcIn = Crc(source) /\ created.crcOut = Crc(target)
  BY <1>1 DEF Sealed
<1>3. /\ SizeIn(created).status = "ok" /\ SizeIn(created).value = Len(source)
      /\ SizeOut(created).status = "ok" /\ SizeOut(created).value = Len(target)
      /\ SizeMeta(created).status = "ok" /\ SizeMeta(created).value = Len(metadata)
      /\ SizeMeta(created).at \in Nat /\ SizeMeta(created).at >= 4
      /\ Holds(created.body, SizeMeta(created).at, metadata)
      /\ Len(created.body) >= 3
  BY <1>1, <1>2, HeaderReads
<1>4. Len(source) \in Nat /\ metadata \in Seq(Byte) /\ ~TooShort(created)
  BY <1>1, <1>2, <1>3 DEF CreateShape, Memory, TooShort
<1>5. SubSeq(created.body, SizeMeta(created).at, SizeMeta(created).at + Len(metadata) - 1) = metadata
  <2>1. PICK b \in Seq(Byte), a \in Nat :
            b = created.body /\ a = SizeMeta(created).at /\ a >= 1 /\ Holds(b, a, metadata)
    BY <1>1, <1>2, <1>3
  <2>2. SubSeq(b, a, a + Len(metadata) - 1) = metadata
    BY <1>4, <2>1, HeldPart
  <2> QED
    BY <2>1, <2>2
<1>6. /\ ~changefrac => (info.error = "bps_ok" <=> {"top", "checksums"} \subseteq readable)
      /\ info.error = "bps_ok" =>
          /\ info.size_in = SizeIn(created).value /\ info.size_out = SizeOut(created).value
          /\ info.meta_start = SizeMeta(created).at /\ info.meta_size = SizeMeta(created).value
          /\ info.crc_in = created.crcIn /\ info.crc_out = created.crcOut
          /\ info.change_num <= info.change_denom
  <2>1. HasHeader(created)
    BY <1>1, <1>2, <1>3, <1>4 DEF HasHeader
  <2>2. junk \in Seq(Byte)
    BY JunkAssumption
  <2> QED
    BY <2>1, <2>2, InfoIs DEF info
<1> HIDE DEF info
<1>7. /\ ~changefrac => (info.error = "bps_ok" <=> {"top", "checksums"} \subseteq readable)
      /\ info.error = "bps_ok" =>
          /\ info.size_in = Len(source) /\ info.size_out = Len(target)
          /\ info.meta_size = Len(metadata)
          /\ SubSeq(created.body, info.meta_start, info.meta_start + info.meta_size - 1) = metadata
          /\ info.crc_in = Crc(source) /\ info.crc_out = Crc(target)
          /\ info.change_num <= info.change_denom
  BY Zenon, <1>2, <1>3, <1>5, <1>6
<1> QED
  BY Zenon, <1>7 DEF info

\* What bps_get_info tells of a patch that bps_create_linear made is what the
\* patch was made from, whichever of its reads fail (libbps.cpp:429-519).
THEOREM InfoTellsOrigin == Spec => []InfoAgrees
<1>1. CreateInv /\ BodyInv => InfoAgrees
  BY OwnInfo
<1> QED
  BY <1>1, CreateAlways, BodyAlways, PTL

-----------------------------------------------------------------------------
\* The listing of bps_disassemble.

Lines == [action : 0..3, length : Nat, from : Int, to : Nat]
Listings == [lines : Seq(Lines), end : Cursors]

ReadStep(p, c, f) ==
    IF c.at > Len(p.body) THEN [lines |-> <<>>, end |-> c]
    ELSE [lines |-> <<LineAt(c, CommandAt(p, c.at))>> \o f[Advanced(c, CommandAt(p, c.at))].lines,
          end |-> f[Advanced(c, CommandAt(p, c.at))].end]

Reader(p) == CHOOSE f : f = [c \in Cursors |-> ReadStep(p, c, f)]

LEMMA DisassembleIs ==
    ASSUME NEW p, p.magic = TRUE
    PROVE  bps_disassemble(p) = Reader(p)[FirstCursors(p)]
BY Zenon DEF bps_disassemble, Reader, ReadStep

LEMMA MovedByIs ==
    ASSUME NEW c \in Int, NEW n \in Nat
    PROVE  MovedBy(c, n) \in Int
<1>1. n \div 2 \in Nat
  BY Quotient
<1> QED
  BY <1>1 DEF MovedBy

\* The places a command moves the cursors to.
LEMMA AdvancedIs ==
    ASSUME NEW p, p.body \in Seq(Byte), NEW c \in Cursors, c.at <= Len(p.body)
    PROVE  /\ LineAt(c, CommandAt(p, c.at)) \in Lines
           /\ Advanced(c, CommandAt(p, c.at)) \in Cursors
           /\ Advanced(c, CommandAt(p, c.at)).at > c.at
<1> DEFINE k == CommandAt(p, c.at)
           e == CommandEnd(k)
           x == CopiedFrom(c, k)
<1>1. /\ c.at \in Nat \ {0} /\ c.inreadat \in Int /\ c.outreadat \in Int /\ c.outat \in Nat
  BY DEF Cursors
<1>2. /\ k.action \in 0..3 /\ k.length \in Nat /\ k.at \in Nat /\ k.distance.value \in Nat
      /\ e \in Nat \ {0} /\ e > c.at
  <2>1. Len(p.body) \in Nat
    OBVIOUS
  <2> QED
    BY <1>1, <2>1, CommandAtIs
<1> HIDE DEF k, e
<1>3. x \in Int
  <2>1. k.action \in {SourceRead, TargetRead, SourceCopy, TargetCopy}
    BY <1>2 DEF SourceRead, TargetRead, SourceCopy, TargetCopy
  <2>2. MovedBy(c.inreadat, k.distance.value) \in Int /\ MovedBy(c.outreadat, k.distance.value) \in Int
    BY <1>1, <1>2, MovedByIs
  <2> QED
    BY <1>1, <1>2, <2>1, <2>2 DEF CopiedFrom, SourceRead, TargetRead, SourceCopy, TargetCopy
<1> HIDE DEF x
<1>4. LineAt(c, k) \in Lines
  BY <1>1, <1>2, <1>3 DEF LineAt, Lines, x
<1>5. Advanced(c, k) \in Cursors /\ Advanced(c, k).at = e
  BY <1>1, <1>2, <1>3 DEF Advanced, Cursors, x, e
<1> QED
  BY <1>2, <1>4, <1>5 DEF k

\* The listing ends, for every patch, and goes on as its loop does.
LEMMA ReaderReads ==
    ASSUME NEW p, p.body \in Seq(Byte), NEW c \in Cursors
    PROVE  Reader(p)[c] = ReadStep(p, c, Reader(p)) /\ Reader(p)[c] \in Listings
<1> DEFINE Rule == [w \in Cursors |-> [f \in [Cursors -> Listings] |-> ReadStep(p, w, f)]]
           L == Len(p.body)
<1>0. L \in Nat /\ \A w \in Cursors : w.at \in Nat
  BY DEF Cursors
<1>1. ASSUME NEW w \in Cursors, NEW f \in [Cursors -> Listings] PROVE ReadStep(p, w, f) \in Listings
  <2>1. CASE w.at > L
    BY <2>1 DEF ReadStep, Listings
  <2>2. CASE ~(w.at > L)
    <3> DEFINE line == LineAt(w, CommandAt(p, w.at))
               y == Advanced(w, CommandAt(p, w.at))
    <3>1. line \in Lines /\ y \in Cursors
      BY <1>0, <2>2, AdvancedIs
    <3>2. f[y] \in Listings
      BY <3>1
    <3>3. f[y].lines \in Seq(Lines) /\ f[y].end \in Cursors
      BY <3>2 DEF Listings
    <3>4. ReadStep(p, w, f) = [lines |-> <<line>> \o f[y].lines, end |-> f[y].end]
      BY <2>2 DEF ReadStep
    <3> HIDE DEF line, y
    <3>5. <<line>> \o f[y].lines \in Seq(Lines)
      BY <3>1, <3>3
    <3> QED
      BY <3>3, <3>4, <3>5 DEF Listings
  <2> QED
    BY <2>1, <2>2
<1>2. ASSUME NEW w \in Cursors, NEW f, NEW g,
             \A y \in Cursors : w.at <= L /\ y.at > w.at => f[y] = g[y]
      PROVE  ReadStep(p, w, f) = ReadStep(p, w, g)
  <2>1. CASE w.at > L
    BY <2>1 DEF ReadStep
  <2>2. CASE ~(w.at > L)
    <3> DEFINE y == Advanced(w, CommandAt(p, w.at))
    <3>1. w.at <= L
      BY <1>0, <2>2
    <3>2. y \in Cursors /\ y.at > w.at
      BY <3>1, AdvancedIs
    <3>3. f[y] = g[y]
      BY <1>2, <3>1, <3>2
    <3> QED
      BY <2>2, <3>3 DEF ReadStep
  <2> QED
    BY <2>1, <2>2
<1> HIDE DEF L
<1>3. PICK f \in [Cursors -> Listings] : \A w \in Cursors : f[w] = ReadStep(p, w, f)
  <2>1. Rule \in [Cursors -> [[Cursors -> Listings] -> Listings]]
    BY <1>1
  <2>2. \A w \in Cursors : \A f \in [Cursors -> Listings] : Rule[w][f] = ReadStep(p, w, f)
    OBVIOUS
  <2> HIDE DEF Rule
  <2>3. \A w \in Cursors : \A f, g \in [Cursors -> Listings] :
            (\A y \in Cursors : w.at <= L /\ y.at > w.at => f[y] = g[y]) => Rule[w][f] = Rule[w][g]
    BY <1>2, <2>2
  <2>4. Listings # {}
    <3>1. [lines |-> <<>>, end |-> c] \in Listings
      BY DEF Listings
    <3> QED
      BY <3>1
  <2>5. \E f \in [Cursors -> Listings] : \A w \in Cursors : f[w] = Rule[w][f]
    <3>1. LooksLater(Cursors, Listings, L, Rule)
      BY Zenon, <1>0, <2>1, <2>3 DEF LooksLater
    <3> QED
      BY <1>0, <2>4, <3>1, LaterDefines
  <2> QED
    BY <2>2, <2>5
<1> DEFINE t == Reader(p)
<1>4. t = [w \in Cursors |-> ReadStep(p, w, t)]
  <2>1. f = [w \in Cursors |-> ReadStep(p, w, f)]
    BY <1>3
  <2> QED
    BY <2>1 DEF Reader
<1> HIDE DEF t
<1>5. \A w \in Cursors : t[w] = ReadStep(p, w, t)
  BY <1>4
<1>6. Cursors \subseteq {w \in Cursors : f[w] = t[w]}
  <2> DEFINE Same == {w \in Cursors : f[w] = t[w]}
  <2>1. ASSUME NEW w \in Cursors, \A y \in Cursors : w.at <= L /\ y.at > w.at => y \in Same
        PROVE  w \in Same
    <3>1. \A y \in Cursors : w.at <= L /\ y.at > w.at => f[y] = t[y]
      BY <2>1
    <3>2. ReadStep(p, w, f) = ReadStep(p, w, t)
      BY <1>2, <3>1
    <3> QED
      BY <1>3, <1>5, <3>2
  <2> HIDE DEF Same
  <2>2. Cursors \subseteq Same
    BY <1>0, <2>1, LaterFirst
  <2> QED
    BY <2>2 DEF Same
<1>7. t[c] = ReadStep(p, c, t) /\ t[c] \in Listings
  BY <1>3, <1>5, <1>6
<1> QED
  BY <1>7 DEF t

-----------------------------------------------------------------------------
\* What bps_apply has done so far is what the listing begins with.

\* Where bps_apply is, as the listing counts.
Here == [at |-> patchat, inreadat |-> inreadat, outreadat |-> outreadat, outat |-> Len(out)]

\* A line of the listing reads an input of n bytes, or what is written.
ReadsThere(line, n) ==
    /\ line.action \in {SourceRead, SourceCopy} => line.from >= 0 /\ line.from + line.length <= n
    /\ line.action = TargetCopy => line.from \in 0..(line.to - 1)

\* The lines lead to the offset pos of the output, one behind the other.
LeadTo(lines, n, pos) ==
    /\ \A i \in 1..Len(lines) :
           /\ i > 1 => lines[i].to = lines[i - 1].to + lines[i - 1].length
           /\ ReadsThere(lines[i], n)
    /\ Len(lines) > 0 => pos = lines[Len(lines)].to + lines[Len(lines)].length

\* The lines are those of what is done, and the rest is read from here.
Printed(lines) ==
    /\ lines \in Seq(Lines) /\ LeadTo(lines, Len(in), Len(out))
    /\ bps_disassemble(patch) =
           [lines |-> lines \o Reader(patch)[Here].lines, end |-> Reader(patch)[Here].end]

Traced == \E lines : Printed(lines)

TraceInv ==
    /\ apc = "commands" => Traced
    /\ DisassemblyAgrees

LEMMA HereIs ==
    ASSUME CursorInv
    PROVE  Here \in Cursors
BY DEF CursorInv, Here, Cursors

\* One line more.
LEMMA LeadsOn ==
    ASSUME NEW lines \in Seq(Lines), NEW n \in Nat, NEW pos \in Nat, LeadTo(lines, n, pos),
           NEW line \in Lines, line.to = pos, ReadsThere(line, n)
    PROVE  /\ lines \o <<line>> \in Seq(Lines)
           /\ LeadTo(lines \o <<line>>, n, pos + line.length)
<1> DEFINE more == lines \o <<line>>
           m == Len(lines)
<1>1. /\ m \in Nat /\ more \in Seq(Lines) /\ Len(more) = m + 1 /\ more[m + 1] = line
      /\ \A i \in 1..m : more[i] = lines[i]
  OBVIOUS
<1> HIDE DEF more
<1>2. ASSUME NEW i \in 1..(m + 1)
      PROVE  /\ i > 1 => more[i].to = more[i - 1].to + more[i - 1].length
             /\ ReadsThere(more[i], n)
  <2>1. CASE i \in 1..m
    <3>1. more[i] = lines[i] /\ (i > 1 => more[i - 1] = lines[i - 1])
      BY <1>1, <2>1
    <3>2. i > 1 => lines[i].to = lines[i - 1].to + lines[i - 1].length
      BY <2>1 DEF LeadTo
    <3>3. ReadsThere(lines[i], n)
      BY <2>1 DEF LeadTo
    <3> QED
      BY <3>1, <3>2, <3>3
  <2>2. CASE i = m + 1
    <3>1. more[i] = line /\ (i > 1 => more[i - 1] = lines[m])
      BY <1>1, <2>2
    <3>2. i > 1 => pos = lines[m].to + lines[m].length
      BY <1>1, <2>2 DEF LeadTo
    <3> QED
      BY <3>1, <3>2
  <2> QED
    BY <1>1, <2>1, <2>2
<1>3. LeadTo(more, n, pos + line.length)
  BY <1>1, <1>2 DEF LeadTo
<1> QED
  BY <1>1, <1>3 DEF more

\* What bps_apply does and the line of the listing are one command.
LEMMA OneCommand ==
    ASSUME CursorInv
    PROVE  /\ CommandAt(patch, patchat).action = Command.value % 4
           /\ CommandAt(patch, patchat).length = Length
           /\ CommandAt(patch, patchat).at = Command.at
           /\ CommandAt(patch, patchat).distance = Distance
BY DEF CommandAt, Command, Length, Distance

\* A command that bps_apply executes is the next line of the listing.
LEMMA TraceOn ==
    ASSUME CursorInv, Traced, More, patch' = patch, in' = in,
           NEW k, k = CommandAt(patch, patchat),
           Here' = Advanced(Here, k), Len(out') = Len(out) + k.length,
           ReadsThere(LineAt(Here, k), Len(in))
    PROVE  Traced'
<1>1. PICK lines : Printed(lines)
  BY DEF Traced
<1> DEFINE r == Reader(patch)[Here]
           q == Reader(patch)[Advanced(Here, k)]
<1>2. /\ patch.body \in Seq(Byte) /\ Here \in Cursors /\ Here.at = patchat
      /\ Here.outat = Len(out) /\ Len(in) \in Nat /\ Len(out) \in Nat
      /\ patchat <= Len(patch.body)
  BY HereIs DEF CursorInv, Here, More
<1>3. PICK line \in Lines : line = LineAt(Here, k) /\ Advanced(Here, k) \in Cursors
  BY <1>2, AdvancedIs
<1>4. r = [lines |-> <<line>> \o q.lines, end |-> q.end] /\ q \in Listings
  <2>1. r = ReadStep(patch, Here, Reader(patch)) /\ q \in Listings
    BY <1>2, <1>3, ReaderReads
  <2>2. ~(Here.at > Len(patch.body))
    <3>1. Len(patch.body) \in Nat /\ patchat \in Nat
      BY DEF CursorInv
    <3> QED
      BY <1>2, <3>1
  <2>3. k = CommandAt(patch, Here.at)
    BY <1>2
  <2>4. ReadStep(patch, Here, Reader(patch)) =
            [lines |-> <<LineAt(Here, CommandAt(patch, Here.at))>>
                       \o Reader(patch)[Advanced(Here, CommandAt(patch, Here.at))].lines,
             end |-> Reader(patch)[Advanced(Here, CommandAt(patch, Here.at))].end]
    BY Zenon, <2>2 DEF ReadStep
  <2> QED
    BY Zenon, <1>3, <2>1, <2>3, <2>4
<1>5. line.to = Len(out) /\ line.length = k.length
  BY <1>2, <1>3 DEF LineAt
<1>6. lines \in Seq(Lines) /\ LeadTo(lines, Len(in), Len(out))
  BY <1>1 DEF Printed
<1>7. lines \o <<line>> \in Seq(Lines) /\ LeadTo(lines \o <<line>>, Len(in), Len(out'))
  <2>1. ReadsThere(line, Len(in))
    BY <1>3
  <2> QED
    BY <1>2, <1>3, <1>5, <1>6, <2>1, LeadsOn
<1>8. bps_disassemble(patch) = [lines |-> lines \o r.lines, end |-> r.end]
  BY <1>1 DEF Printed
<1> HIDE DEF r, q
<1>9. r.lines = <<line>> \o q.lines /\ r.end = q.end /\ q.lines \in Seq(Lines)
  BY <1>4 DEF Listings
<1>10. lines \o r.lines = (lines \o <<line>>) \o q.lines
  <2>0. <<line>> \in Seq(Lines)
    BY <1>3
  <2>1. PICK one \in Seq(Lines) : one = <<line>>
    BY Zenon, <2>0
  <2>2. lines \o (one \o q.lines) = (lines \o one) \o q.lines
    <3>1. PICK u \in Seq(Lines) : u = q.lines
      BY Zenon, <1>9
    <3>2. lines \in Seq(Lines) /\ one \in Seq(Lines)
      BY <1>6
    <3>3. lines \o (one \o u) = (lines \o one) \o u
      BY <3>2, Regrouped
    <3> QED
      BY Zenon, <3>1, <3>3
  <2> QED
    BY Zenon, <1>9, <2>1, <2>2
<1>11. bps_disassemble(patch) = [lines |-> (lines \o <<line>>) \o q.lines, end |-> q.end]
  BY <1>8, <1>9, <1>10
<1>12. PICK more : more = lines \o <<line>>
  OBVIOUS
<1>13. q = Reader(patch')[Here']
  BY Zenon DEF q
<1>14. Printed(more)'
  <2>1. more \in Seq(Lines) /\ LeadTo(more, Len(in'), Len(out'))
    BY <1>7, <1>12
  <2>2. bps_disassemble(patch') = [lines |-> more \o Reader(patch')[Here'].lines,
                                   end |-> Reader(patch')[Here'].end]
    BY Zenon, <1>11, <1>12, <1>13
  <2> QED
    BY Zenon, <2>1, <2>2 DEF Printed
<1> QED
  BY Zenon, <1>14 DEF Traced
LEMMA TraceKeepsCommand ==
    ASSUME CursorInv, TraceInv, DoSourceRead \/ DoTargetRead \/ DoSourceCopy \/ DoTargetCopy
    PROVE  TraceInv'
<1> DEFINE k == CommandAt(patch, patchat)
           v == Distance.value
<1>0. /\ apc = "commands" /\ apc' = "commands" /\ Traced /\ More
      /\ patch' = patch /\ in' = in
  BY DEF DoSourceRead, DoTargetRead, DoSourceCopy, DoTargetCopy, More, TraceInv, args
<1>1. /\ k.action = Command.value % 4 /\ k.length = Length /\ k.at = Command.at
      /\ k.distance = Distance
  BY OneCommand
<1>2. Len(out') = Len(out) + k.length
  BY <1>1, CommandAppends
<1>3. PICK h : h = Here
  OBVIOUS
<1>4. /\ h.at = patchat /\ h.inreadat = inreadat /\ h.outreadat = outreadat
      /\ h.outat = Len(out)
      /\ Here' = [at |-> patchat', inreadat |-> inreadat', outreadat |-> outreadat',
                  outat |-> Len(out')]
  BY <1>3 DEF Here
<1>5. Moved(inreadat) = MovedBy(h.inreadat, v) /\ Moved(outreadat) = MovedBy(h.outreadat, v)
  BY <1>4 DEF Moved
<1>6. Len(out) \in Nat /\ Len(in) \in Nat
  BY DEF CursorInv
<1> HIDE DEF k, v
<1>7. Here' = Advanced(h, k) /\ ReadsThere(LineAt(h, k), Len(in))
  <2> USE DEF SourceRead, TargetRead, SourceCopy, TargetCopy
  <2>1. CASE DoSourceRead
    <3>1. k.action = 0 /\ CommandEnd(k) = k.at /\ CopiedFrom(h, k) = h.outat
      BY <1>1, <2>1 DEF DoSourceRead, IsA, CommandEnd, CopiedFrom
    <3>2. Advanced(h, k) = [at |-> k.at, inreadat |-> inreadat, outreadat |-> outreadat,
                            outat |-> Len(out) + k.length]
      BY <1>4, <3>1 DEF Advanced
    <3>3. patchat' = k.at /\ inreadat' = inreadat /\ outreadat' = outreadat
      BY <1>1, <2>1 DEF DoSourceRead
    <3>4. LineAt(h, k).action = 0 /\ LineAt(h, k).from = Len(out) /\ LineAt(h, k).length = k.length
      BY <1>4, <3>1 DEF LineAt
    <3>5. Len(out) + k.length <= Len(in)
      BY <1>1, <2>1, CommandAppends
    <3> QED
      BY <1>2, <1>4, <1>6, <3>2, <3>3, <3>4, <3>5 DEF ReadsThere
  <2>2. CASE DoTargetRead
    <3>1. k.action = 1 /\ CommandEnd(k) = k.at + k.length
      BY <1>1, <2>2 DEF DoTargetRead, IsA, CommandEnd
    <3>2. Advanced(h, k) = [at |-> k.at + k.length, inreadat |-> inreadat, outreadat |-> outreadat,
                            outat |-> Len(out) + k.length]
      BY <1>4, <3>1 DEF Advanced
    <3>3. patchat' = k.at + k.length /\ inreadat' = inreadat /\ outreadat' = outreadat
      BY <1>1, <2>2 DEF DoTargetRead
    <3>4. LineAt(h, k).action = 1
      BY <3>1 DEF LineAt
    <3> QED
      BY <1>2, <1>4, <3>2, <3>3, <3>4 DEF ReadsThere
  <2>3. CASE DoSourceCopy
    <3> DEFINE m == Moved(inreadat)
    <3>1. k.action = 2 /\ CommandEnd(k) = Distance.at /\ CopiedFrom(h, k) = m
      BY <1>1, <1>5, <2>3 DEF DoSourceCopy, IsA, CommandEnd, CopiedFrom, v
    <3>2. Advanced(h, k) = [at |-> Distance.at, inreadat |-> m + k.length, outreadat |-> outreadat,
                            outat |-> Len(out) + k.length]
      BY <1>4, <3>1 DEF Advanced
    <3>3. patchat' = Distance.at /\ inreadat' = m + k.length /\ outreadat' = outreadat
      BY <1>1, <2>3 DEF DoSourceCopy
    <3>4. LineAt(h, k).action = 2 /\ LineAt(h, k).from = m /\ LineAt(h, k).length = k.length
      BY <3>1 DEF LineAt
    <3>5. m \in Nat /\ m + k.length <= Len(in)
      BY <1>1, <2>3, CommandAppends
    <3> HIDE DEF m
    <3> QED
      BY <1>2, <1>4, <1>6, <3>2, <3>3, <3>4, <3>5 DEF ReadsThere
  <2>4. CASE DoTargetCopy
    <3> DEFINE m == Moved(outreadat)
    <3>1. k.action = 3 /\ CommandEnd(k) = Distance.at /\ CopiedFrom(h, k) = m
      BY <1>1, <1>5, <2>4 DEF DoTargetCopy, IsA, CommandEnd, CopiedFrom, v
    <3>2. Advanced(h, k) = [at |-> Distance.at, inreadat |-> inreadat, outreadat |-> m + k.length,
                            outat |-> Len(out) + k.length]
      BY <1>4, <3>1 DEF Advanced
    <3>3. patchat' = Distance.at /\ inreadat' = inreadat /\ outreadat' = m + k.length
      BY <1>1, <2>4 DEF DoTargetCopy
    <3>4. LineAt(h, k).action = 3 /\ LineAt(h, k).from = m /\ LineAt(h, k).to = Len(out)
      BY <1>4, <3>1 DEF LineAt
    <3>5. m \in Nat /\ m < Len(out)
      BY <1>1, <2>4, CommandAppends
    <3> HIDE DEF m
    <3> QED
      BY <1>2, <1>4, <1>6, <3>2, <3>3, <3>4, <3>5 DEF ReadsThere
  <2> QED
    BY <2>1, <2>2, <2>3, <2>4
<1>8. Traced'
  BY <1>0, <1>2, <1>3, <1>7, TraceOn DEF k
<1> QED
  BY <1>0, <1>8 DEF TraceInv, DisassemblyAgrees

LEMMA TraceBegins ==
    ASSUME CursorInv, ApplyInv, ReadMetadata
    PROVE  Traced'
<1>1. /\ inreadat = 0 /\ outreadat = 0 /\ out = <<>> /\ patch.magic
      /\ patch.body \in Seq(Byte) /\ in \in Seq(Byte)
  BY DEF CursorInv, ApplyInv, InputSettled, Intact, ReadMetadata
<1>2. /\ patch' = patch /\ in' = in /\ inreadat' = 0 /\ outreadat' = 0 /\ out' = <<>>
      /\ patchat' = SizeMeta(patch).at + SizeMeta(patch).value
  BY <1>1 DEF ReadMetadata, MetadataEnd, args
<1>3. Here' = FirstCursors(patch)
  BY <1>2 DEF Here, FirstCursors
<1>4. FirstCursors(patch) \in Cursors
  BY <1>1, SizesAre DEF FirstCursors, Cursors
<1> DEFINE r == Reader(patch)[FirstCursors(patch)]
<1>5. bps_disassemble(patch) = r /\ r \in Listings
  BY <1>1, <1>4, DisassembleIs, ReaderReads
<1>6. r = [lines |-> r.lines, end |-> r.end] /\ r.lines \in Seq(Lines)
  BY <1>5 DEF Listings
<1>7. <<>> \o r.lines = r.lines /\ <<>> \in Seq(Lines)
  BY <1>6
<1>8. LeadTo(<<>>, Len(in'), Len(out'))
  BY DEF LeadTo
<1> HIDE DEF r
<1>9. bps_disassemble(patch) = [lines |-> <<>> \o r.lines, end |-> r.end]
  BY <1>5, <1>6, <1>7
<1>10. r = Reader(patch')[Here']
  BY <1>2, <1>3 DEF r
<1>11. Printed(<<>>)'
  BY <1>2, <1>7, <1>8, <1>9, <1>10 DEF Printed
<1> QED
  BY Zenon, <1>11 DEF Traced

LEMMA TraceEnds ==
    ASSUME CursorInv, ApplyInv, TraceInv, Return
    PROVE  DisassemblyAgrees'
<1>1. /\ patch' = patch /\ in' = in /\ inreadat' = inreadat /\ outreadat' = outreadat
      /\ apc = "commands" /\ ~More /\ Complete /\ Traced
      /\ outlen = SizeOut(patch).value
  BY DEF Return, args, cursors, TraceInv, ApplyInv, InputSettled
<1>2. PICK lines : Printed(lines)
  BY <1>1 DEF Traced
<1>3. /\ lines \in Seq(Lines) /\ LeadTo(lines, Len(in), Len(out))
      /\ bps_disassemble(patch) =
             [lines |-> lines \o Reader(patch)[Here].lines, end |-> Reader(patch)[Here].end]
  BY <1>2 DEF Printed
<1>4. Reader(patch)[Here] = [lines |-> <<>>, end |-> Here]
  <2>1. Reader(patch)[Here] = ReadStep(patch, Here, Reader(patch))
    BY HereIs, ReaderReads DEF CursorInv
  <2>2. Here.at > Len(patch.body)
    <3>1. patchat = Len(patch.body) + 1 /\ Len(patch.body) \in Nat /\ Here.at = patchat
      BY <1>1 DEF Complete, CursorInv, Here
    <3> QED
      BY <3>1
  <2> QED
    BY <2>1, <2>2 DEF ReadStep
<1>5. bps_disassemble(patch) = [lines |-> lines, end |-> Here]
  <2>1. lines \o <<>> = lines
    BY <1>3
  <2> QED
    BY <1>3, <1>4, <2>1
<1>6. ~Warned(patch, Here) /\ Here.inreadat = inreadat /\ Here.outreadat = outreadat
  BY <1>1 DEF Warned, Here, Complete
<1> DEFINE listing == bps_disassemble(patch')
<1>7. listing = [lines |-> lines, end |-> Here]
  BY <1>1, <1>5
<1> HIDE DEF listing
<1>8. listing.lines = lines /\ listing.end = Here
  BY <1>7
<1>9. /\ ~Warned(patch', listing.end)
      /\ listing.end.inreadat = inreadat' /\ listing.end.outreadat = outreadat'
  BY <1>1, <1>6, <1>8
<1>10. ASSUME NEW i \in 1..Len(listing.lines)
       PROVE  /\ i > 1 => listing.lines[i].to = listing.lines[i - 1].to + listing.lines[i - 1].length
              /\ listing.lines[i].action \in {SourceRead, SourceCopy} =>
                     listing.lines[i].from >= 0
                     /\ listing.lines[i].from + listing.lines[i].length <= Len(in')
              /\ listing.lines[i].action = TargetCopy =>
                     listing.lines[i].from \in 0..(listing.lines[i].to - 1)
  BY <1>1, <1>3, <1>8 DEF LeadTo, ReadsThere
<1> QED
  BY <1>9, <1>10 DEF DisassemblyAgrees, listing

LEMMA TraceNext ==
    ASSUME CursorInv, ApplyInv, TraceInv, [Next]_vars
    PROVE  TraceInv'
<1>1. CASE Applying
  <2>1. CASE DoSourceRead \/ DoTargetRead \/ DoSourceCopy \/ DoTargetCopy
    BY <2>1, TraceKeepsCommand
  <2>2. CASE ReadMetadata
    <3>1. apc' = "commands"
      BY <2>2 DEF ReadMetadata
    <3> QED
      BY <2>2, <3>1, TraceBegins DEF TraceInv, DisassemblyAgrees
  <2>3. CASE Return
    <3>1. apc' = "done"
      BY <2>3 DEF Return
    <3> QED
      BY <2>3, <3>1, TraceEnds DEF TraceInv
  <2>4. CASE OpenOutput
    BY <2>4 DEF OpenOutput, TraceInv, DisassemblyAgrees
  <2>5. CASE BadPatch \/ BadSize \/ WrongInput \/ BadMetadata \/ BadCommand \/ Incomplete
    BY <2>5 DEF BadPatch, BadSize, WrongInput, BadMetadata, BadCommand, Incomplete, Fail,
                TraceInv, DisassemblyAgrees
  <2>6. CASE WrongOutput \/ Cleanup
    BY <2>6 DEF WrongOutput, Cleanup, ApplyInv, TraceInv, DisassemblyAgrees
  <2>7. CASE Strays
    <3>1. apc' = "astray"
      BY <2>7, StraysGo DEF GoAstray
    <3> QED
      BY <3>1 DEF TraceInv, DisassemblyAgrees
  <2> QED
    BY <1>1, <2>1, <2>2, <2>3, <2>4, <2>5, <2>6, <2>7 DEF Applying, ApplyStep, Strays
<1>2. CASE ApplyCreated \/ ApplyForeign
  <2>1. ASSUME NEW p, NEW i, NEW w, NEW a, bps_apply(p, i, w, a)
        PROVE  TraceInv'
    BY <2>1 DEF bps_apply, TraceInv, DisassemblyAgrees
  <2>2. \E p, i, w, a : bps_apply(p, i, w, a)
    BY <1>2 DEF ApplyCreated, ApplyForeign
  <2> QED
    BY <2>1, <2>2
<1>3. CASE FreeOutput
  BY <1>3 DEF FreeOutput, TraceInv, DisassemblyAgrees
<1>4. CASE UNCHANGED applyVars
  <2>1. Traced => Traced'
    <3>1. ASSUME NEW lines, Printed(lines) PROVE Printed(lines)'
      BY <1>4, <3>1 DEF applyVars, Printed, Here
    <3> QED
      BY <3>1 DEF Traced
  <2>2. DisassemblyAgrees'
    BY <1>4 DEF applyVars, TraceInv, DisassemblyAgrees
  <2> QED
    BY <1>4, <2>1, <2>2 DEF applyVars, TraceInv
<1> QED
  BY <1>1, <1>2, <1>3, <1>4 DEF Next, Create, Creating, FreePatch, vars

\* For every patch: when bps_apply succeeds, bps_disassemble lists, without a
\* warning, exactly the commands that were executed, with cursors that never
\* leave the input or what is written (libbps.cpp:536-613).
THEOREM ListingAgrees == Spec => []DisassemblyAgrees
<1>1. Init => TraceInv
  BY DEF Init, ApplyInit, TraceInv, DisassemblyAgrees
<1>2. CursorInv /\ ApplyInv /\ TraceInv /\ [Next]_vars => TraceInv'
  BY TraceNext
<1>3. TraceInv => DisassemblyAgrees
  BY DEF TraceInv
<1>4. Spec => []ApplyInv
  BY ApplyBegins, ApplyNext, PTL DEF Spec
<1> QED
  BY <1>1, <1>2, <1>3, <1>4, CursorAlways, PTL DEF Spec
=============================================================================
