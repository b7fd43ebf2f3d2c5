---------------------------- MODULE RetainProofs ----------------------------
(***************************************************************************)
(* Induction over the natural numbers in a form the provers can use, and   *)
(* what it shows of Keep, which keeps what it is told to, once and in      *)
(* order, and of the binary search, on elements in order or not.           *)
(***************************************************************************)
EXTENDS Retain, Bisect, TLAPS, WellFoundedInduction

-----------------------------------------------------------------------------
(* Sequences *)

\* A sequence holds an element of its set at every position.
LEMMA ElementOfSeq ==
  ASSUME NEW S, NEW seq \in Seq(S), NEW n \in 1 .. Len(seq)
  PROVE seq[n] \in S
OBVIOUS

\* The empty sequence is one over any set, and only it is empty.
LEMMA EmptySeq ==
  ASSUME NEW S
  PROVE /\ << >> \in Seq(S)
        /\ Len(<< >>) = 0
        /\ \A seq \in Seq(S) : seq # << >> => Len(seq) \in Nat \ {0}
OBVIOUS

\* A sequence is a function on the positions up to its length.
LEMMA LenProperties ==
  ASSUME NEW S, NEW seq \in Seq(S)
  PROVE /\ Len(seq) \in Nat
        /\ seq \in [1 .. Len(seq) -> S]
        /\ DOMAIN seq = 1 .. Len(seq)
OBVIOUS

\* Two sequences of one length with the same elements are the same.
LEMMA SeqEqual ==
  ASSUME NEW S, NEW s \in Seq(S), NEW t \in Seq(S), Len(s) = Len(t),
         \A i \in 1 .. Len(s) : s[i] = t[i]
  PROVE s = t
OBVIOUS

-----------------------------------------------------------------------------
(* Natural numbers *)

\* Induction over the natural numbers, for a set.
LEMMA SetInduction ==
  ASSUME NEW S, 0 \in S, \A n \in Nat : n \in S => n + 1 \in S
  PROVE \A n \in Nat : n \in S
<1>. DEFINE T == Nat \ S
            R == OpToRel(<, Nat)
<1>. SUFFICES ASSUME T # {} PROVE FALSE
  BY Zenon
<1>1. IsWellFoundedOn(R, Nat) /\ T \subseteq Nat
  BY NatLessThanWellFounded, Zenon
<1>2. R = {ss \in Nat \X Nat : ss[1] < ss[2]}
  BY Zenon DEF OpToRel
<1>. HIDE DEF R
<1>3. PICK m \in T : \A j \in T : ~(<<j, m>> \in R)
  BY <1>1, WFMin, Zenon
<1>4. m - 1 \in Nat /\ m - 1 < m
  BY <1>3
<1>5. m - 1 \in S
  <2>1. <<m - 1, m>> \in Nat \X Nat /\ (<<m - 1, m>> \in R <=> m - 1 < m)
    BY <1>2, <1>4, Zenon
  <2>. QED BY <1>3, <1>4, <2>1, Zenon
<1>. QED BY <1>3, <1>4, <1>5

\* A non-empty set of naturals has a least member.
LEMMA LeastNat ==
  ASSUME NEW S \in SUBSET Nat, NEW m \in S
  PROVE \E k \in S : \A j \in 0 .. k - 1 : j \notin S
<1>. SUFFICES ASSUME \A k \in S : \E j \in 0 .. k - 1 : j \in S PROVE FALSE
  BY Zenon
<1>. DEFINE U == {k \in Nat : \A j \in 0 .. k : j \notin S}
<1>1. 0 \in U
  OBVIOUS
<1>2. ASSUME NEW k \in Nat, k \in U PROVE k + 1 \in U
  <2>1. k + 1 \notin S
    BY <1>2
  <2>. QED BY <1>2, <2>1
<1>3. \A k \in Nat : k \in U
  <2>. HIDE DEF U
  <2>. QED BY <1>1, <1>2, SetInduction, Zenon
<1>4. m \in Nat /\ m \in U
  BY <1>3, Zenon
<1>. QED BY <1>4

-----------------------------------------------------------------------------
(* Iteration *)

\* The turns f of a loop that starts at b and goes from x to G[i][x] in its turn i.
Turns(S, b, G, n, f) ==
  f \in [0 .. n -> S] /\ f[0] = b /\ \A i \in 1 .. n : f[i] = G[i][f[i - 1]]

\* A loop goes through all its turns and stays in S.
LEMMA Iterated ==
  ASSUME NEW S, NEW b \in S, NEW G \in [Nat -> [S -> S]], NEW n \in Nat
  PROVE \E f : Turns(S, b, G, n, f)
<1>. DEFINE Runs(m, f) == f \in [0 .. m -> S] /\ f[0] = b /\ \A i \in 1 .. m : f[i] = G[i][f[i - 1]]
            T == {m \in Nat : \E f : Runs(m, f)}
<1>1. 0 \in T
  <2>. DEFINE f == [i \in 0 .. 0 |-> b]
  <2>1. Runs(0, f)
    OBVIOUS
  <2>. HIDE DEF Runs
  <2>. QED BY <2>1
<1>2. ASSUME NEW m \in Nat, m \in T PROVE m + 1 \in T
  <2>1. PICK f : Runs(m, f)
    <3>. HIDE DEF Runs
    <3>. QED BY <1>2, Zenon
  <2>. DEFINE x == G[m + 1][f[m]]
              g == [i \in 0 .. m + 1 |-> IF i = m + 1 THEN x ELSE f[i]]
  <2>2. x \in S
    BY <2>1
  <2>3. \A i \in 0 .. m + 1 : g[i] = IF i = m + 1 THEN x ELSE f[i]
    BY Zenon
  <2>4. g \in [0 .. m + 1 -> S]
    BY <2>1, <2>2
  <2>. HIDE DEF g
  <2>5. g[0] = b
    BY <2>1, <2>3
  <2>6. ASSUME NEW i \in 1 .. m + 1 PROVE g[i] = G[i][g[i - 1]]
    <3>1. g[i - 1] = f[i - 1]
      BY <2>3
    <3>2. CASE i = m + 1
      BY <2>3, <3>1, <3>2
    <3>3. CASE i # m + 1
      BY <2>1, <2>3, <3>1, <3>3
    <3>. QED BY <3>2, <3>3, Zenon
  <2>7. Runs(m + 1, g)
    BY <2>4, <2>5, <2>6, Zenon
  <2>. HIDE DEF Runs
  <2>. QED BY <2>7
<1>3. \A m \in Nat : m \in T
  <2>. HIDE DEF T
  <2>. QED BY <1>1, <1>2, SetInduction, Zenon
<1>4. PICK f : Runs(n, f)
  <2>. HIDE DEF Runs
  <2>. QED BY <1>3, Zenon
<1>. QED BY <1>4, Zenon DEF Turns

-----------------------------------------------------------------------------
(* Keep *)

\* A set of naturals that is not empty has a minimum.
LEMMA MinOfNats ==
  ASSUME NEW S \in SUBSET Nat, S # {}
  PROVE \E k \in S : \A j \in S : k <= j
<1>1. PICK m \in S : TRUE
  BY Zenon
<1>2. PICK k \in S : \A j \in 0 .. k - 1 : j \notin S
  BY <1>1, LeastNat, Zenon
<1>3. ASSUME NEW j \in S PROVE k <= j
  BY <1>2
<1>. QED BY <1>3, Zenon

\* f holds what is kept of the first i elements, for every i up to n.
Keeps(s, I, n, f) ==
  f = [i \in 0 .. n |-> IF i = 0 THEN <<>>
                        ELSE IF i \in I THEN Append(f[i - 1], s[i]) ELSE f[i - 1]]

\* Keep goes through the whole sequence.
LEMMA KeepRuns ==
  ASSUME NEW s, NEW I, NEW m \in Nat
  PROVE \E f : Keeps(s, I, m, f)
<1>. DEFINE Step(x, i) == IF i \in I THEN Append(x, s[i]) ELSE x
            S == {n \in Nat : \E f : Keeps(s, I, n, f)}
<1>0. ASSUME NEW n \in Nat, NEW f
      PROVE Keeps(s, I, n, f) <=> f = [i \in 0 .. n |-> IF i = 0 THEN <<>> ELSE Step(f[i - 1], i)]
  BY Zenon DEF Keeps
<1>. HIDE DEF Step
<1>1. 0 \in S
  <2>. DEFINE f == [i \in 0 .. 0 |-> <<>>]
  <2>1. f = [i \in 0 .. 0 |-> IF i = 0 THEN <<>> ELSE Step(f[i - 1], i)]
    OBVIOUS
  <2>2. Keeps(s, I, 0, f)
    <3>. HIDE DEF f
    <3>. QED BY <1>0, <2>1, Zenon
  <2>. QED BY <2>2, Zenon
<1>2. ASSUME NEW n \in Nat, n \in S PROVE n + 1 \in S
  <2>1. PICK f : Keeps(s, I, n, f)
    BY <1>2, Zenon
  <2>. DEFINE g == [i \in 0 .. n + 1 |-> IF i = n + 1 THEN Step(f[n], n + 1) ELSE f[i]]
              h == [i \in 0 .. n + 1 |-> IF i = 0 THEN <<>> ELSE Step(g[i - 1], i)]
  <2>2. \A i \in 0 .. n : f[i] = IF i = 0 THEN <<>> ELSE Step(f[i - 1], i)
    BY <1>0, <2>1
  <2>3. ASSUME NEW i \in 0 .. n + 1 PROVE g[i] = h[i]
    <3>1. CASE i = n + 1
      <4>1. i - 1 = n /\ i # 0 /\ n \in 0 .. n + 1 /\ n # n + 1
        BY <3>1
      <4>2. g[n] = f[n]
        BY <4>1, Zenon
      <4>3. h[i] = Step(g[n], i)
        BY <4>1, Zenon
      <4>4. g[i] = Step(f[n], n + 1)
        BY <3>1, Zenon
      <4>. QED BY <3>1, <4>2, <4>3, <4>4, Zenon
    <3>2. CASE i # n + 1 /\ i # 0
      <4>1. i \in 0 .. n /\ i - 1 \in 0 .. n + 1 /\ i - 1 # n + 1
        BY <3>2
      <4>2. g[i - 1] = f[i - 1] /\ g[i] = f[i]
        BY <3>2, <4>1, Zenon
      <4>3. h[i] = Step(g[i - 1], i)
        BY <3>2, Zenon
      <4>. QED BY <2>2, <3>2, <4>1, <4>2, <4>3, Zenon
    <3>3. CASE i = 0
      <4>1. i # n + 1 /\ i \in 0 .. n
        BY <3>3
      <4>. QED BY <2>2, <3>3, <4>1, Zenon
    <3>. QED BY <3>1, <3>2, <3>3, Zenon
  <2>4. g = h
    BY <2>3, Zenon
  <2>5. Keeps(s, I, n + 1, g)
    <3>1. g = [i \in 0 .. n + 1 |-> IF i = 0 THEN <<>> ELSE Step(g[i - 1], i)]
      BY <2>4, Zenon
    <3>2. n + 1 \in Nat
      OBVIOUS
    <3>. HIDE DEF g
    <3>. QED BY <1>0, <3>1, <3>2, Zenon
  <2>. QED BY <2>5
<1>3. \A n \in Nat : n \in S
  <2>. HIDE DEF S
  <2>. QED BY <1>1, <1>2, SetInduction, Zenon
<1>. QED BY <1>3, Zenon

\* What is kept of the first n elements: g tells where each element came from.
Part(s, I, n, k, g) ==
  /\ g \in [1 .. Len(k) -> 1 .. n]
  /\ \A a \in 1 .. Len(k) : g[a] \in I /\ k[a] = s[g[a]]
  /\ \A a, b \in 1 .. Len(k) : g[a] = g[b] => a = b
  /\ \A i \in 1 .. n : i \in I => \E a \in 1 .. Len(k) : g[a] = i

\* One more element that is kept.
LEMMA PartAppend ==
  ASSUME NEW T, NEW s, NEW I, NEW n \in Nat, NEW k \in Seq(T), NEW g, Part(s, I, n, k, g),
         n + 1 \in I, s[n + 1] \in T
  PROVE \E h : Part(s, I, n + 1, Append(k, s[n + 1]), h)
<1>. DEFINE m == Len(k)
            q == Append(k, s[n + 1])
            h == [a \in 1 .. m + 1 |-> IF a = m + 1 THEN n + 1 ELSE g[a]]
<1>1. /\ m \in Nat /\ Len(q) = m + 1
      /\ \A a \in 1 .. m + 1 : q[a] = IF a = m + 1 THEN s[n + 1] ELSE k[a]
  OBVIOUS
<1>2. /\ g \in [1 .. m -> 1 .. n]
      /\ \A a \in 1 .. m : g[a] \in I /\ k[a] = s[g[a]]
      /\ \A a, b \in 1 .. m : g[a] = g[b] => a = b
      /\ \A i \in 1 .. n : i \in I => \E a \in 1 .. m : g[a] = i
  BY Zenon DEF Part
<1>. HIDE DEF m, q
<1>3. \A a \in 1 .. m + 1 : h[a] = IF a = m + 1 THEN n + 1 ELSE g[a]
  BY Zenon
<1>4. h \in [1 .. m + 1 -> 1 .. n + 1]
  BY <1>1, <1>2
<1>. HIDE DEF h
<1>5. ASSUME NEW a \in 1 .. m + 1 PROVE h[a] \in I /\ q[a] = s[h[a]]
  <2>1. CASE a = m + 1
    BY <1>1, <1>3, <2>1, Zenon
  <2>2. CASE a # m + 1
    <3>1. a \in 1 .. m
      BY <1>1, <2>2
    <3>. QED BY <1>1, <1>2, <1>3, <2>2, <3>1, Zenon
  <2>. QED BY <2>1, <2>2, Zenon
<1>6. ASSUME NEW a \in 1 .. m + 1, NEW b \in 1 .. m + 1, h[a] = h[b] PROVE a = b
  <2>1. ASSUME NEW c \in 1 .. m + 1, c # m + 1 PROVE c \in 1 .. m /\ h[c] = g[c] /\ h[c] \in 1 .. n
    BY <1>1, <1>2, <1>3, <2>1
  <2>2. h[m + 1] = n + 1
    BY <1>1, <1>3
  <2>. QED BY <1>2, <1>6, <2>1, <2>2
<1>7. ASSUME NEW i \in 1 .. n + 1, i \in I PROVE \E a \in 1 .. m + 1 : h[a] = i
  <2>1. CASE i = n + 1
    BY <1>1, <1>3, <2>1
  <2>2. CASE i # n + 1
    <3>1. i \in 1 .. n
      BY <2>2
    <3>2. PICK a \in 1 .. m : g[a] = i
      BY <1>2, <1>7, <3>1, Zenon
    <3>3. a \in 1 .. m + 1 /\ a # m + 1
      BY <1>1, <3>2
    <3>. QED BY <1>3, <3>2, <3>3, Zenon
  <2>. QED BY <2>1, <2>2, Zenon
<1>8. Part(s, I, n + 1, q, h)
  BY <1>1, <1>4, <1>5, <1>6, <1>7, Zenon DEF Part
<1>. QED BY <1>8, Zenon DEF q

\* One more element that is not kept.
LEMMA PartSkip ==
  ASSUME NEW s, NEW I, NEW n \in Nat, NEW k, Len(k) \in Nat, NEW g, Part(s, I, n, k, g), n + 1 \notin I
  PROVE Part(s, I, n + 1, k, g)
<1>. DEFINE m == Len(k)
<1>1. /\ g \in [1 .. m -> 1 .. n]
      /\ \A a \in 1 .. m : g[a] \in I /\ k[a] = s[g[a]]
      /\ \A a, b \in 1 .. m : g[a] = g[b] => a = b
      /\ \A i \in 1 .. n : i \in I => \E a \in 1 .. m : g[a] = i
  BY Zenon DEF Part
<1>. HIDE DEF m
<1>2. g \in [1 .. m -> 1 .. n + 1]
  BY <1>1
<1>3. \A i \in 1 .. n + 1 : i \in I => \E a \in 1 .. m : g[a] = i
  BY <1>1
<1>. QED BY <1>1, <1>2, <1>3, Zenon DEF Part, m

\* What Keep leaves: elements of the sequence at places of I, each of them once;
\* fewer if any place is left out, and the whole sequence if none is.
LEMMA KeepIs ==
  ASSUME NEW T, NEW s \in Seq(T), NEW I
  PROVE /\ Keep(s, I) \in Seq(T)
        /\ \E g : Part(s, I, Len(s), Keep(s, I), g)
        /\ (\E i \in 1 .. Len(s) : i \notin I) => Len(Keep(s, I)) < Len(s)
        /\ (\A i \in 1 .. Len(s) : i \in I) => Keep(s, I) = s
<1>. DEFINE f == CHOOSE f : Keeps(s, I, Len(s), f)
            Good(n, k) ==
              /\ k \in Seq(T) /\ Len(k) <= n
              /\ \E g : Part(s, I, n, k, g)
              /\ (\E i \in 1 .. n : i \notin I) => Len(k) < n
              /\ (\A i \in 1 .. n : i \in I) => Len(k) = n /\ \A a \in 1 .. n : k[a] = s[a]
            S == {n \in Nat : n <= Len(s) => Good(n, f[n])}
<1>0. Len(s) \in Nat
  OBVIOUS
<1>1. Keeps(s, I, Len(s), f)
  BY <1>0, KeepRuns, Zenon
<1>2. Keep(s, I) = f[Len(s)]
  BY Zenon DEF Keep, Keeps
<1>. HIDE DEF f
<1>3. \A i \in 0 .. Len(s) :
        f[i] = IF i = 0 THEN <<>> ELSE IF i \in I THEN Append(f[i - 1], s[i]) ELSE f[i - 1]
  BY <1>1, Zenon DEF Keeps
<1>4. 0 \in S
  <2>1. f[0] = <<>>
    BY <1>0, <1>3
  <2>2. Part(s, I, 0, <<>>, [a \in 1 .. 0 |-> 0])
    BY DEF Part
  <2>3. Good(0, <<>>)
    BY <2>2
  <2>. HIDE DEF Good
  <2>. QED BY <2>1, <2>3, Zenon
<1>5. ASSUME NEW n \in Nat, n \in S PROVE n + 1 \in S
  <2>. SUFFICES ASSUME n + 1 <= Len(s) PROVE Good(n + 1, f[n + 1])
    <3>. HIDE DEF Good
    <3>. QED OBVIOUS
  <2>. DEFINE k == f[n]
  <2>1. n + 1 \in 0 .. Len(s) /\ n + 1 # 0 /\ (n + 1) - 1 = n /\ n <= Len(s) /\ n + 1 \in 1 .. Len(s)
    BY <1>0
  <2>2. f[n + 1] = IF n + 1 \in I THEN Append(k, s[n + 1]) ELSE k
    BY <1>3, <2>1, Zenon
  <2>3. Good(n, k)
    <3>. HIDE DEF Good
    <3>. QED BY <1>5, <2>1, Zenon
  <2>. HIDE DEF k
  <2>4. k \in Seq(T) /\ Len(k) \in Nat /\ Len(k) <= n
    BY <2>3
  <2>5. PICK g : Part(s, I, n, k, g)
    BY <2>3, Zenon
  <2>6. /\ (\E i \in 1 .. n : i \notin I) => Len(k) < n
        /\ (\A i \in 1 .. n : i \in I) => Len(k) = n /\ \A a \in 1 .. n : k[a] = s[a]
    BY <2>3, Zenon
  <2>7. s[n + 1] \in T
    BY <2>1, ElementOfSeq, Zenon
  <2>8. CASE n + 1 \in I
    <3>. DEFINE q == Append(k, s[n + 1])
    <3>1. /\ q \in Seq(T) /\ Len(q) = Len(k) + 1
          /\ \A a \in 1 .. Len(k) + 1 : q[a] = IF a <= Len(k) THEN k[a] ELSE s[n + 1]
      BY <2>4, <2>7
    <3>2. \E h : Part(s, I, n + 1, q, h)
      BY <2>4, <2>5, <2>7, <2>8, PartAppend, Zenon
    <3>. HIDE DEF q
    <3>3. (\E i \in 1 .. n + 1 : i \notin I) => Len(q) < n + 1
      BY <2>4, <2>6, <2>8, <3>1
    <3>4. (\A i \in 1 .. n + 1 : i \in I) => Len(q) = n + 1 /\ \A a \in 1 .. n + 1 : q[a] = s[a]
      BY <2>4, <2>6, <2>8, <3>1, SMTT(30)
    <3>5. f[n + 1] = q /\ Len(q) <= n + 1
      BY <2>2, <2>4, <2>8, <3>1 DEF q
    <3>. QED BY <3>1, <3>2, <3>3, <3>4, <3>5, Zenon
  <2>9. CASE n + 1 \notin I
    <3>1. Part(s, I, n + 1, k, g)
      BY <2>4, <2>5, <2>9, PartSkip, Zenon
    <3>2. f[n + 1] = k /\ Len(k) < n + 1 /\ Len(k) <= n + 1 /\ n + 1 \in 1 .. n + 1
      BY <2>2, <2>4, <2>9
    <3>. QED BY <2>4, <2>9, <3>1, <3>2, Zenon
  <2>. QED BY <2>8, <2>9, Zenon
<1>6. \A n \in Nat : n \in S
  <2>. HIDE DEF S
  <2>. QED BY <1>4, <1>5, SetInduction, Zenon
<1>7. Good(Len(s), Keep(s, I))
  <2>. HIDE DEF Good
  <2>. QED BY <1>0, <1>2, <1>6
<1>8. (\A i \in 1 .. Len(s) : i \in I) => Keep(s, I) = s
  <2>. SUFFICES ASSUME \A i \in 1 .. Len(s) : i \in I PROVE Keep(s, I) = s
    BY Zenon
  <2>. DEFINE k == Keep(s, I)
  <2>1. k \in Seq(T) /\ Len(k) = Len(s) /\ \A a \in 1 .. Len(s) : k[a] = s[a]
    BY <1>7, Zenon
  <2>. HIDE DEF k
  <2>2. k = s
    BY <2>1, SeqEqual, Zenon
  <2>. QED BY <2>2, Zenon DEF k
<1>. QED BY <1>7, <1>8, Zenon

-----------------------------------------------------------------------------
(* Bisection *)

\* The narrowing of a bisection after k of n probes.
Narrowed(n, yes, f) ==
  /\ f \in [0 .. n -> (0 .. n) \X (0 .. n)]
  /\ \A k \in 0 .. n :
        /\ f[k][1] <= f[k][2] /\ f[k][2] - f[k][1] <= n - k
        /\ f[k][1] = 0 \/ f[k][1] \in yes
        /\ f[k][2] = n \/ f[k][2] + 1 \notin yes
  /\ f[0] = <<0, n>>
  /\ \A k \in 1 .. n : f[k] = Halved(f[k - 1], yes)

\* A probe keeps the ends in order, at the places they must be at, and nearer.
LEMMA HalvedNarrows ==
  ASSUME NEW n \in Nat, NEW yes, NEW a \in 0 .. n, NEW b \in 0 .. n, a <= b,
         a = 0 \/ a \in yes, b = n \/ b + 1 \notin yes
  PROVE \E x, y \in 0 .. n :
          /\ Halved(<<a, b>>, yes) = <<x, y>>
          /\ x <= y /\ (y = x \/ y - x < b - a)
          /\ x = 0 \/ x \in yes
          /\ y = n \/ y + 1 \notin yes
<1>. DEFINE m == (a + b) \div 2
<1>1. a # b => m \in a .. b - 1
  OBVIOUS
<1>2. Halved(<<a, b>>, yes) = IF a = b THEN <<a, b>>
                              ELSE IF m + 1 \in yes THEN <<m + 1, b>> ELSE <<a, m>>
  BY Zenon DEF Halved
<1>. HIDE DEF m
<1>3. CASE a = b
  BY <1>2, <1>3, Zenon
<1>4. CASE a # b /\ m + 1 \in yes
  <2>1. m + 1 \in 0 .. n /\ m + 1 <= b /\ b - (m + 1) < b - a
    BY <1>1, <1>4
  <2>. QED BY <1>2, <1>4, <2>1, Zenon
<1>5. CASE a # b /\ m + 1 \notin yes
  <2>1. m \in 0 .. n /\ a <= m /\ m - a < b - a
    BY <1>1, <1>5
  <2>. QED BY <1>2, <1>5, <2>1, Zenon
<1>. QED BY <1>3, <1>4, <1>5, Zenon

\* A bisection probes n times at most and answers where it has narrowed down to.
LEMMA Bisected ==
  ASSUME NEW n \in Nat, NEW yes
  PROVE \E f : Narrowed(n, yes, f) /\ PartitionPoint(n, yes) = f[n][1]
<1>. DEFINE S == {p \in (0 .. n) \X (0 .. n) : /\ p[1] <= p[2]
                                               /\ p[1] = 0 \/ p[1] \in yes
                                               /\ p[2] = n \/ p[2] + 1 \notin yes}
            H == [p \in S |-> Halved(p, yes)]
            G == [k \in Nat |-> H]
            Steps(f) == f = [k \in 0 .. n |-> IF k = 0 THEN <<0, n>> ELSE Halved(f[k - 1], yes)]
<1>1. ASSUME NEW p \in S
      PROVE Halved(p, yes) \in S /\ (Halved(p, yes)[2] = Halved(p, yes)[1]
                                     \/ Halved(p, yes)[2] - Halved(p, yes)[1] < p[2] - p[1])
  <2>1. p = <<p[1], p[2]>> /\ p[1] \in 0 .. n /\ p[2] \in 0 .. n
    OBVIOUS
  <2>2. PICK x \in 0 .. n, y \in 0 .. n :
          /\ Halved(<<p[1], p[2]>>, yes) = <<x, y>>
          /\ x <= y /\ (y = x \/ y - x < p[2] - p[1])
          /\ x = 0 \/ x \in yes
          /\ y = n \/ y + 1 \notin yes
    BY <2>1, HalvedNarrows, ZenonT(30)
  <2>3. Halved(p, yes) = <<x, y>>
    BY <2>1, <2>2, Zenon
  <2>. QED BY <2>2, <2>3
<1>2. <<0, n>> \in S
  OBVIOUS
<1>3. G \in [Nat -> [S -> S]]
  BY <1>1, Zenon
<1>4. PICK f \in [0 .. n -> S] : f[0] = <<0, n>> /\ \A k \in 1 .. n : f[k] = G[k][f[k - 1]]
  <2>. HIDE DEF S, G
  <2>1. PICK f : Turns(S, <<0, n>>, G, n, f)
    BY <1>2, <1>3, Iterated, Zenon
  <2>. QED BY <2>1, Zenon DEF Turns
<1>5. ASSUME NEW k \in 1 .. n PROVE f[k - 1] \in S /\ f[k] = Halved(f[k - 1], yes)
  <2>1. k - 1 \in 0 .. n /\ k \in Nat
    OBVIOUS
  <2>2. f[k - 1] \in S
    BY <1>4, <2>1, Zenon
  <2>. QED BY <1>4, <2>1, <2>2, Zenon
<1>6. Steps(f)
  <2>1. ASSUME NEW k \in 0 .. n PROVE f[k] = IF k = 0 THEN <<0, n>> ELSE Halved(f[k - 1], yes)
    <3>1. k # 0 => k \in 1 .. n
      OBVIOUS
    <3>. QED BY <1>4, <1>5, <3>1, Zenon
  <2>. QED BY <1>4, <2>1, Zenon
<1>7. \A g : Steps(g) => g = f
  <2>. SUFFICES ASSUME NEW g, Steps(g) PROVE g = f
    BY Zenon
  <2>1. \A k \in 0 .. n : g[k] = IF k = 0 THEN <<0, n>> ELSE Halved(g[k - 1], yes)
    BY Zenon
  <2>. DEFINE T == {k \in Nat : k \in 0 .. n => g[k] = f[k]}
  <2>2. 0 \in T
    <3>1. 0 \in 0 .. n
      OBVIOUS
    <3>. QED BY <1>4, <2>1, <3>1, Zenon
  <2>3. ASSUME NEW k \in Nat, k \in T PROVE k + 1 \in T
    <3>. SUFFICES ASSUME k + 1 \in 0 .. n PROVE g[k + 1] = f[k + 1]
      OBVIOUS
    <3>1. k \in 0 .. n /\ k + 1 \in 1 .. n /\ k + 1 # 0 /\ (k + 1) - 1 = k
      OBVIOUS
    <3>2. g[k] = f[k]
      BY <2>3, <3>1, Zenon
    <3>3. g[k + 1] = Halved(g[k], yes)
      BY <2>1, <3>1, Zenon
    <3>4. f[k + 1] = Halved(f[k], yes)
      BY <1>5, <3>1, Zenon
    <3>. QED BY <3>2, <3>3, <3>4, Zenon
  <2>4. \A k \in Nat : k \in T
    <3>. HIDE DEF T
    <3>. QED BY <2>2, <2>3, SetInduction, Zenon
  <2>5. ASSUME NEW k \in 0 .. n PROVE g[k] = f[k]
    <3>1. k \in Nat
      OBVIOUS
    <3>. QED BY <2>4, <3>1, Zenon
  <2>6. g = [k \in 0 .. n |-> g[k]] /\ f = [k \in 0 .. n |-> f[k]]
    BY <1>6, Zenon
  <2>. HIDE DEF Steps
  <2>. QED BY <2>5, <2>6, Zenon
<1>8. PartitionPoint(n, yes) = f[n][1]
  <2>1. PartitionPoint(n, yes) = (CHOOSE g : Steps(g))[n][1]
    BY Zenon DEF PartitionPoint
  <2>. HIDE DEF Steps
  <2>. QED BY <1>6, <1>7, <2>1, Zenon
<1>. DEFINE T == {k \in Nat : k \in 0 .. n => f[k][2] - f[k][1] <= n - k}
<1>9. 0 \in T
  BY <1>4
<1>10. ASSUME NEW k \in Nat, k \in T PROVE k + 1 \in T
  <2>. SUFFICES ASSUME k + 1 \in 0 .. n PROVE f[k + 1][2] - f[k + 1][1] <= n - (k + 1)
    OBVIOUS
  <2>1. k \in 0 .. n /\ k + 1 \in 1 .. n /\ (k + 1) - 1 = k
    OBVIOUS
  <2>2. f[k] \in S /\ f[k + 1] \in S /\ f[k + 1] = Halved(f[k], yes)
    BY <1>1, <1>5, <2>1, Zenon
  <2>3. f[k + 1][2] = f[k + 1][1] \/ f[k + 1][2] - f[k + 1][1] < f[k][2] - f[k][1]
    BY <1>1, <2>2, Zenon
  <2>4. f[k][2] - f[k][1] <= n - k
    BY <1>10, <2>1, Zenon
  <2>5. f[k][1] \in Nat /\ f[k][2] \in Nat /\ f[k + 1][1] \in Nat /\ f[k + 1][2] \in Nat
    BY <2>2
  <2>. DEFINE a == f[k][1]  b == f[k][2]  c == f[k + 1][1]  d == f[k + 1][2]
  <2>6. a \in Nat /\ b \in Nat /\ c \in Nat /\ d \in Nat /\ b - a <= n - k /\ (d = c \/ d - c < b - a)
    BY <2>3, <2>4, <2>5, Zenon
  <2>. HIDE DEF a, b, c, d
  <2>7. d - c <= n - (k + 1)
    BY <2>1, <2>6
  <2>. QED BY <2>7, Zenon DEF c, d
<1>11. \A k \in Nat : k \in T
  <2>. HIDE DEF T
  <2>. QED BY <1>9, <1>10, SetInduction, Zenon
<1>12. \A k \in 0 .. n : f[k][2] - f[k][1] <= n - k
  BY <1>11
<1>13. Narrowed(n, yes, f)
  <2>1. \A k \in 0 .. n : f[k] \in S
    BY <1>4, Zenon
  <2>2. \A k \in 0 .. n : f[k][1] <= f[k][2] /\ (f[k][1] = 0 \/ f[k][1] \in yes)
                          /\ (f[k][2] = n \/ f[k][2] + 1 \notin yes) /\ f[k] \in (0 .. n) \X (0 .. n)
    BY <2>1, Zenon
  <2>3. f \in [0 .. n -> (0 .. n) \X (0 .. n)]
    BY <1>4, <2>2, Zenon
  <2>. QED BY <1>4, <1>5, <1>12, <2>2, <2>3, Zenon DEF Narrowed
<1>. QED BY <1>8, <1>13, Zenon

\* Sorted or not, partition_point answers the end of the slice or an element that
\* does not satisfy the predicate, right after one that does or at the start.
LEMMA PartitionPointAt ==
  ASSUME NEW n \in Nat, NEW yes
  PROVE LET i == PartitionPoint(n, yes)
        IN i \in 0 .. n /\ (i = 0 \/ i \in yes) /\ (i = n \/ i + 1 \notin yes)
<1>1. PICK f : Narrowed(n, yes, f) /\ PartitionPoint(n, yes) = f[n][1]
  BY Bisected, Zenon
<1>2. n \in 0 .. n
  OBVIOUS
<1>3. /\ f[n] \in (0 .. n) \X (0 .. n)
      /\ f[n][1] <= f[n][2] /\ f[n][2] - f[n][1] <= n - n
      /\ f[n][1] = 0 \/ f[n][1] \in yes
      /\ f[n][2] = n \/ f[n][2] + 1 \notin yes
  BY <1>1, <1>2, Zenon DEF Narrowed
<1>4. f[n][1] = f[n][2] /\ f[n][1] \in 0 .. n
  BY <1>3
<1>. QED BY <1>1, <1>3, <1>4, Zenon

\* On a slice the predicate partitions, the answer is how many elements satisfy it.
LEMMA PartitionPointCounts ==
  ASSUME NEW n \in Nat, NEW yes, NEW m \in 0 .. n, \A i \in 1 .. n : i \in yes <=> i <= m
  PROVE PartitionPoint(n, yes) = m
<1>. DEFINE i == PartitionPoint(n, yes)
<1>1. i \in 0 .. n /\ (i = 0 \/ i \in yes) /\ (i = n \/ i + 1 \notin yes)
  BY PartitionPointAt, Zenon
<1>. HIDE DEF i
<1>2. i = m
  BY <1>1
<1>. QED BY <1>2, Zenon DEF i

\* Two bisections of one slice, sorted or not: with a predicate that holds
\* wherever another does, the answer is no smaller.
LEMMA PartitionPointMonotone ==
  ASSUME NEW n \in Nat, NEW yes1, NEW yes2, yes1 \subseteq yes2
  PROVE PartitionPoint(n, yes1) <= PartitionPoint(n, yes2)
<1>1. PICK f : Narrowed(n, yes1, f) /\ PartitionPoint(n, yes1) = f[n][1]
  BY Bisected, Zenon
<1>2. PICK g : Narrowed(n, yes2, g) /\ PartitionPoint(n, yes2) = g[n][1]
  BY Bisected, Zenon
<1>. DEFINE T == {k \in Nat : k \in 0 .. n => f[k] = g[k] \/ f[k][2] < g[k][1]}
<1>3. 0 \in T
  <2>1. f[0] = g[0]
    BY <1>1, <1>2, Zenon DEF Narrowed
  <2>. QED BY <2>1, Zenon
<1>4. ASSUME NEW k \in Nat, k \in T PROVE k + 1 \in T
  <2>. SUFFICES ASSUME k + 1 \in 0 .. n PROVE f[k + 1] = g[k + 1] \/ f[k + 1][2] < g[k + 1][1]
    OBVIOUS
  <2>1. k \in 0 .. n /\ k + 1 \in 1 .. n /\ (k + 1) - 1 = k
    OBVIOUS
  <2>2. f[k + 1] = Halved(f[k], yes1) /\ g[k + 1] = Halved(g[k], yes2)
    BY <1>1, <1>2, <2>1, Zenon DEF Narrowed
  <2>3. /\ f[k] \in (0 .. n) \X (0 .. n) /\ g[k] \in (0 .. n) \X (0 .. n)
        /\ f[k][1] <= f[k][2] /\ g[k][1] <= g[k][2]
    BY <1>1, <1>2, <2>1, Zenon DEF Narrowed
  <2>4. CASE f[k] = g[k]
    <3>. DEFINE p == f[k]
                m == (p[1] + p[2]) \div 2
    <3>1. f[k + 1] = IF p[1] = p[2] THEN p ELSE IF m + 1 \in yes1 THEN <<m + 1, p[2]>> ELSE <<p[1], m>>
      BY <2>2, Zenon DEF Halved
    <3>2. g[k + 1] = IF p[1] = p[2] THEN p ELSE IF m + 1 \in yes2 THEN <<m + 1, p[2]>> ELSE <<p[1], m>>
      BY <2>2, <2>4, Zenon DEF Halved
    <3>3. m \in Nat /\ m < m + 1
      BY <2>3
    <3>. HIDE DEF m, p
    <3>4. CASE p[1] = p[2] \/ m + 1 \in yes1 \/ m + 1 \notin yes2
      <4>1. CASE p[1] = p[2]
        <5>1. f[k + 1] = p /\ g[k + 1] = p
          BY <3>1, <3>2, <4>1, Zenon
        <5>. QED BY <5>1, Zenon
      <4>2. CASE p[1] # p[2] /\ m + 1 \in yes1
        BY <3>1, <3>2, <4>2, Zenon
      <4>3. CASE p[1] # p[2] /\ m + 1 \notin yes2
        BY <3>1, <3>2, <4>3, Zenon
      <4>. QED BY <3>4, <4>1, <4>2, <4>3, Zenon
    <3>5. CASE p[1] # p[2] /\ m + 1 \notin yes1 /\ m + 1 \in yes2
      <4>1. f[k + 1] = <<p[1], m>> /\ g[k + 1] = <<m + 1, p[2]>>
        BY <3>1, <3>2, <3>5, Zenon
      <4>2. f[k + 1][2] = m /\ g[k + 1][1] = m + 1
        BY <4>1
      <4>. QED BY <3>3, <4>2, Zenon
    <3>. QED BY <3>4, <3>5, Zenon
  <2>5. CASE f[k][2] < g[k][1]
    <3>1. ASSUME NEW p \in (0 .. n) \X (0 .. n), NEW yes, p[1] <= p[2]
          PROVE Halved(p, yes)[2] \in 0 .. p[2] /\ Halved(p, yes)[1] \in p[1] .. n
      BY <3>1 DEF Halved
    <3>2. f[k + 1][2] \in 0 .. f[k][2] /\ g[k + 1][1] \in g[k][1] .. n
      BY <2>2, <2>3, <3>1, Zenon
    <3>. QED BY <2>3, <2>5, <3>2
  <2>. QED BY <1>4, <2>1, <2>4, <2>5, Zenon
<1>5. \A k \in Nat : k \in T
  <2>. HIDE DEF T
  <2>. QED BY <1>3, <1>4, SetInduction, Zenon
<1>6. f[n] = g[n] \/ f[n][2] < g[n][1]
  BY <1>5
<1>7. f[n] \in (0 .. n) \X (0 .. n) /\ g[n] \in (0 .. n) \X (0 .. n) /\ f[n][1] <= f[n][2]
  <2>1. n \in 0 .. n
    OBVIOUS
  <2>. QED BY <1>1, <1>2, <2>1, Zenon DEF Narrowed
<1>8. f[n][1] <= g[n][1]
  BY <1>6, <1>7
<1>. QED BY <1>1, <1>2, <1>8, Zenon
=============================================================================
