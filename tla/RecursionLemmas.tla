-------------------------- MODULE RecursionLemmas --------------------------
(***************************************************************************)
(* Induction for provers that take no predicate as a parameter.  A         *)
(* statement about every natural number is proved by looking at its least  *)
(* counterexample, and a recursive function is shown to exist by giving    *)
(* its right-hand side as a function of the argument and of the function   *)
(* itself.  The decoders, encoders and searches of the other modules are   *)
(* such recursive functions (f[x \in D] == ...), which TLA+ defines with   *)
(* CHOOSE: nothing is known of them until they are shown to exist.         *)
(***************************************************************************)
EXTENDS Integers, TLAPS, WellFoundedInduction

\* A set of numbers that is not empty has a least member.
LEMMA LeastNatural ==
    ASSUME NEW T, T \subseteq Nat, T # {}
    PROVE  \E m \in T : \A k \in T : m <= k
<1> DEFINE Less == OpToRel(<, Nat)
<1>1. \A x, y \in Nat : x < y => <<x, y>> \in Less
  BY DEF OpToRel
<1>2. IsWellFoundedOn(OpToRel(<, Nat), Nat)
  BY NatLessThanWellFounded
<1>3. IsWellFoundedOn(Less, Nat)
  BY <1>2
<1> HIDE DEF Less
<1>4. PICK x \in T : \A y \in T : <<y, x>> \notin Less
  BY <1>3, WFMin
<1>5. ASSUME NEW y \in T PROVE x <= y
  <2>1. x \in Nat /\ y \in Nat
    OBVIOUS
  <2>2. <<y, x>> \notin Less
    BY <1>4
  <2>3. ~(y < x)
    BY <1>1, <2>1, <2>2
  <2>4. QED
    BY <2>1, <2>3
<1>6. QED
  BY <1>5

\* Induction: what holds of 0, and of the successor of each number it holds of,
\* holds of every number.
LEMMA NaturalsIn ==
    ASSUME NEW S, 0 \in S, \A n \in Nat : n \in S => n + 1 \in S
    PROVE  Nat \subseteq S
<1> SUFFICES ASSUME Nat \ S # {} PROVE FALSE
  OBVIOUS
<1>1. PICK m \in Nat \ S : \A k \in Nat \ S : m <= k
  BY LeastNatural
<1>2. m # 0
  OBVIOUS
<1>3. m - 1 \in Nat /\ ~(m <= m - 1) /\ (m - 1) + 1 = m
  BY <1>2
<1>4. m - 1 \in S
  BY <1>1, <1>3
<1>5. QED
  BY <1>3, <1>4

-----------------------------------------------------------------------------
\* g follows the recursion Rule for the arguments of measure below n.
Follows(g, n, D, V, mu, Rule) ==
    /\ g \in [D -> V]
    /\ \A x \in D : mu[x] < n => g[x] = Rule[x][g]

\* The rule looks only at smaller arguments.
Descends(D, V, mu, Rule) ==
    /\ mu \in [D -> Nat]
    /\ Rule \in [D -> [[D -> V] -> V]]
    /\ \A x \in D : \A g, h \in [D -> V] :
          (\A y \in D : mu[y] < mu[x] => g[y] = h[y]) => Rule[x][g] = Rule[x][h]

\* What the two definitions say of one argument.
LEMMA FollowsAt ==
    ASSUME NEW D, NEW V, NEW mu, NEW Rule, Descends(D, V, mu, Rule),
           NEW g, NEW a, Follows(g, a, D, V, mu, Rule)
    PROVE  /\ g \in [D -> V]
           /\ \A x \in D : mu[x] < a => g[x] = Rule[x][g]
BY DEF Follows

LEMMA DescendsAt ==
    ASSUME NEW D, NEW V, NEW mu, NEW Rule, Descends(D, V, mu, Rule),
           NEW x \in D, NEW g \in [D -> V], NEW h \in [D -> V],
           \A y \in D : mu[y] < mu[x] => g[y] = h[y]
    PROVE  Rule[x][g] = Rule[x][h]
BY Zenon DEF Descends

LEMMA MeasureIsNatural ==
    ASSUME NEW D, NEW V, NEW mu, NEW Rule, Descends(D, V, mu, Rule)
    PROVE  /\ \A x \in D : mu[x] \in Nat
           /\ \A x \in D : \A g \in [D -> V] : Rule[x][g] \in V
<1>1. mu \in [D -> Nat] /\ Rule \in [D -> [[D -> V] -> V]]
  BY DEF Descends
<1>2. ASSUME NEW x \in D, NEW g \in [D -> V] PROVE Rule[x][g] \in V
  <2>1. Rule[x] \in [[D -> V] -> V]
    BY <1>1
  <2>2. QED
    BY <2>1
<1>3. QED
  BY <1>1, <1>2

\* Two functions that follow the rule agree where both do.
LEMMA FollowersAgree ==
    ASSUME NEW D, NEW V, NEW mu, NEW Rule, Descends(D, V, mu, Rule),
           NEW g, NEW h, NEW a \in Nat, NEW b \in Nat,
           Follows(g, a, D, V, mu, Rule), Follows(h, b, D, V, mu, Rule)
    PROVE  \A x \in D : mu[x] < a /\ mu[x] < b => g[x] = h[x]
<1> DEFINE Bad == {x \in D : mu[x] < a /\ mu[x] < b /\ g[x] # h[x]}
<1> DEFINE T == {mu[x] : x \in Bad}
<1> SUFFICES ASSUME Bad # {} PROVE FALSE
  OBVIOUS
<1>0. \A x \in D : mu[x] \in Nat
  BY MeasureIsNatural
<1>1. PICK m \in T : \A k \in T : m <= k
  <2>1. T \subseteq Nat /\ T # {}
    BY <1>0
  <2> HIDE DEF T
  <2>2. QED
    BY <2>1, LeastNatural
<1>2. PICK x \in Bad : mu[x] = m
  OBVIOUS
<1>3. ASSUME NEW y \in D, mu[y] < mu[x] PROVE g[y] = h[y]
  <2>1. mu[y] \in Nat /\ mu[x] \in Nat
    BY <1>0
  <2>2. mu[y] \notin T
    BY <1>1, <1>2, <1>3, <2>1
  <2>3. y \notin Bad
    BY <2>2
  <2>4. mu[y] < a /\ mu[y] < b
    BY <1>3, <2>1
  <2>5. QED
    BY <2>3, <2>4
<1>4. x \in D /\ mu[x] < a /\ mu[x] < b /\ g[x] # h[x]
  OBVIOUS
<1> HIDE DEF Bad, T
<1>5. g \in [D -> V] /\ g[x] = Rule[x][g]
  BY <1>4, FollowsAt
<1>6. h \in [D -> V] /\ h[x] = Rule[x][h]
  BY <1>4, FollowsAt
<1>7. Rule[x][g] = Rule[x][h]
  BY <1>3, <1>4, <1>5, <1>6, DescendsAt
<1>8. QED
  BY <1>4, <1>5, <1>6, <1>7

\* For every measure some function follows the rule so far.
LEMMA FollowerExists ==
    ASSUME NEW D, NEW V, V # {}, NEW mu, NEW Rule, Descends(D, V, mu, Rule)
    PROVE  \A n \in Nat : \E g : Follows(g, n, D, V, mu, Rule)
<1> DEFINE S == {n \in Nat : \E g : Follows(g, n, D, V, mu, Rule)}
<1>0. /\ \A x \in D : mu[x] \in Nat
      /\ \A x \in D : \A g \in [D -> V] : Rule[x][g] \in V
  BY MeasureIsNatural
<1>1. 0 \in S
  <2>1. PICK v : v \in V
    OBVIOUS
  <2>2. [x \in D |-> v] \in [D -> V]
    BY <2>1
  <2>3. \A x \in D : ~(mu[x] < 0)
    BY <1>0
  <2>4. Follows([x \in D |-> v], 0, D, V, mu, Rule)
    BY <2>2, <2>3 DEF Follows
  <2>5. QED
    BY <2>4
<1>2. ASSUME NEW n \in Nat, n \in S PROVE n + 1 \in S
  <2>1. PICK g : Follows(g, n, D, V, mu, Rule)
    BY <1>2
  <2>2. /\ g \in [D -> V]
        /\ \A x \in D : mu[x] < n => g[x] = Rule[x][g]
    BY <2>1, FollowsAt
  <2> DEFINE h == [x \in D |-> IF mu[x] < n THEN g[x] ELSE Rule[x][g]]
  <2>3. h \in [D -> V]
    BY <1>0, <2>2
  <2>4. \A x \in D : h[x] = Rule[x][g]
    BY <2>2
  <2>5. \A x \in D : mu[x] < n => h[x] = g[x]
    OBVIOUS
  <2> HIDE DEF h
  <2>6. ASSUME NEW x \in D, mu[x] < n + 1 PROVE h[x] = Rule[x][h]
    <3>1. ASSUME NEW y \in D, mu[y] < mu[x] PROVE g[y] = h[y]
      <4>1. mu[x] \in Nat /\ mu[y] \in Nat
        BY <1>0
      <4>2. mu[y] < n
        BY <2>6, <3>1, <4>1
      <4>3. QED
        BY <2>5, <4>2
    <3>2. Rule[x][g] = Rule[x][h]
      BY <2>2, <2>3, <3>1, DescendsAt
    <3>3. QED
      BY <2>4, <3>2
  <2>7. Follows(h, n + 1, D, V, mu, Rule)
    BY <2>3, <2>6 DEF Follows
  <2>8. n + 1 \in Nat
    OBVIOUS
  <2>9. QED
    BY <2>7, <2>8
<1> HIDE DEF S
<1>3. Nat \subseteq S
  BY <1>1, <1>2, NaturalsIn
<1>4. QED
  BY <1>3 DEF S

\* A recursion that descends defines a function.
LEMMA RecursionDefines ==
    ASSUME NEW D, NEW V, V # {}, NEW mu, NEW Rule, Descends(D, V, mu, Rule)
    PROVE  \E f \in [D -> V] : \A x \in D : f[x] = Rule[x][f]
<1> DEFINE G(n) == CHOOSE g : Follows(g, n, D, V, mu, Rule)
<1> DEFINE f == [x \in D |-> G(mu[x] + 1)[x]]
<1>0. \A x \in D : mu[x] \in Nat /\ mu[x] + 1 \in Nat /\ mu[x] < mu[x] + 1
  BY MeasureIsNatural
<1>1. ASSUME NEW n \in Nat PROVE Follows(G(n), n, D, V, mu, Rule)
  <2>1. \E g : Follows(g, n, D, V, mu, Rule)
    BY FollowerExists
  <2>2. QED
    BY <2>1
<1> HIDE DEF G
<1>2. f \in [D -> V]
  <2>1. ASSUME NEW x \in D PROVE G(mu[x] + 1) \in [D -> V]
    BY <1>0, <1>1, FollowsAt
  <2>2. QED
    BY <2>1
<1>3. \A x \in D : f[x] = G(mu[x] + 1)[x]
  OBVIOUS
<1> HIDE DEF f
<1>4. ASSUME NEW x \in D PROVE f[x] = Rule[x][f]
  <2> DEFINE g == G(mu[x] + 1)
  <2>0. mu[x] \in Nat /\ mu[x] + 1 \in Nat /\ mu[x] < mu[x] + 1
    BY <1>0
  <2>1. Follows(g, mu[x] + 1, D, V, mu, Rule)
    BY <1>1, <2>0
  <2>2. f[x] = g[x]
    BY <1>3
  <2>3. ASSUME NEW y \in D, mu[y] < mu[x] PROVE f[y] = g[y]
    <3>1. mu[y] \in Nat /\ mu[y] + 1 \in Nat /\ mu[y] < mu[y] + 1
      BY <1>0
    <3>2. mu[y] < mu[x] + 1
      BY <2>0, <2>3, <3>1
    <3>3. Follows(G(mu[y] + 1), mu[y] + 1, D, V, mu, Rule)
      BY <1>1, <3>1
    <3> HIDE DEF g
    <3>4. G(mu[y] + 1)[y] = g[y]
      BY <2>0, <2>1, <3>1, <3>2, <3>3, FollowersAgree
    <3>5. QED
      BY <1>3, <3>4
  <2> HIDE DEF g
  <2>4. g \in [D -> V] /\ g[x] = Rule[x][g]
    BY <2>0, <2>1, FollowsAt
  <2>5. Rule[x][f] = Rule[x][g]
    BY <1>2, <2>3, <2>4, DescendsAt
  <2>6. QED
    BY <2>2, <2>4, <2>5
<1>5. QED
  BY <1>2, <1>4

-----------------------------------------------------------------------------
\* Recursions over the places of a sequence that end behind it; x.at is the place.

\* Induction from the end L: what holds at a place if it holds at the later ones,
\* or if nothing is read there, holds everywhere.
LEMMA LaterFirst ==
    ASSUME NEW D, NEW L \in Nat, \A x \in D : x.at \in Nat, NEW S,
           \A x \in D : (\A y \in D : x.at <= L /\ y.at > x.at => y \in S) => x \in S
    PROVE  D \subseteq S
<1> DEFINE Left(x) == IF x.at > L THEN 0 ELSE L + 1 - x.at
           T == {Left(x) : x \in D \ S}
<1> SUFFICES ASSUME D \ S # {} PROVE FALSE
  OBVIOUS
<1>1. \A x \in D : Left(x) \in Nat
  OBVIOUS
<1>2. PICK m \in T : \A k \in T : m <= k
  <2>1. T \subseteq Nat /\ T # {}
    BY <1>1
  <2> HIDE DEF T
  <2> QED
    BY <2>1, LeastNatural
<1>3. PICK x \in D \ S : m = Left(x)
  OBVIOUS
<1>4. ASSUME NEW y \in D, x.at <= L, y.at > x.at PROVE y \in S
  <2>1. x.at \in Nat /\ y.at \in Nat
    OBVIOUS
  <2>2. Left(y) < Left(x)
    BY <1>4, <2>1
  <2>3. Left(y) \in Nat /\ Left(x) \in Nat
    BY <1>1
  <2>4. ~(m <= Left(y))
    BY <1>3, <2>2, <2>3
  <2>5. Left(y) \notin T
    BY <1>2, <2>4
  <2> HIDE DEF Left
  <2> QED
    BY <2>5
<1> HIDE DEF T, Left
<1> QED
  BY <1>3, <1>4

\* A recursion whose right-hand side looks only at later places defines a function.
LooksLater(D, V, L, Rule) ==
    /\ \A x \in D : x.at \in Nat
    /\ Rule \in [D -> [[D -> V] -> V]]
    /\ \A x \in D : \A f, g \in [D -> V] :
          (\A y \in D : x.at <= L /\ y.at > x.at => f[y] = g[y]) => Rule[x][f] = Rule[x][g]

LEMMA LaterDefines ==
    ASSUME NEW D, NEW V, V # {}, NEW L \in Nat, NEW Rule, LooksLater(D, V, L, Rule)
    PROVE  \E f \in [D -> V] : \A x \in D : f[x] = Rule[x][f]
<1> USE DEF LooksLater
<1> DEFINE mu == [x \in D |-> IF x.at > L THEN 0 ELSE L + 1 - x.at]
<1>1. mu \in [D -> Nat]
  OBVIOUS
<1>2. ASSUME NEW x \in D, NEW y \in D, x.at <= L, y.at > x.at PROVE mu[y] < mu[x]
  <2>1. x.at \in Nat /\ y.at \in Nat
    OBVIOUS
  <2> QED
    BY <1>2, <2>1
<1> HIDE DEF mu
<1>3. ASSUME NEW x \in D, NEW f \in [D -> V], NEW g \in [D -> V],
             \A y \in D : mu[y] < mu[x] => f[y] = g[y]
      PROVE  Rule[x][f] = Rule[x][g]
  <2>1. \A y \in D : x.at <= L /\ y.at > x.at => f[y] = g[y]
    BY <1>2, <1>3
  <2> QED
    BY Zenon, <2>1
<1>4. Descends(D, V, mu, Rule)
  BY Zenon, <1>1, <1>3 DEF Descends
<1> QED
  BY <1>4, RecursionDefines
=============================================================================
