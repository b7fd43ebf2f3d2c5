---------------------------- MODULE FileProofs ----------------------------
(***************************************************************************)
(* The .btlm file for any packets: what is where in it, that its two       *)
(* writers agree on it, and what its readers make of a packet.             *)
(***************************************************************************)
EXTENDS BtlmFile, RetainProofs

-----------------------------------------------------------------------------
(* Sums and sequences one after the other *)

\* The first n elements.
First(s, n) == [i \in 1 .. n |-> s[i]]

\* They are a sequence, one longer with the next element, and in the end all of s.
FirstGrown(T, s, n) ==
  /\ First(s, n) \in Seq(T) /\ Len(First(s, n)) = n /\ DOMAIN First(s, n) = 1 .. n
  /\ \A i \in 1 .. n : First(s, n)[i] = s[i]

\* First is a sequence.
LEMMA FirstIs ==
  ASSUME NEW T, NEW s \in Seq(T), NEW n \in Nat, n <= Len(s)
  PROVE FirstGrown(T, s, n)
<1>1. \A i \in 1 .. n : s[i] \in T
  OBVIOUS
<1>. QED BY <1>1 DEF First, FirstGrown

\* All of s.
LEMMA FirstAll ==
  ASSUME NEW T, NEW s \in Seq(T)
  PROVE First(s, Len(s)) = s
BY DEF First

\* A function that starts at b and goes on by G is the run of that loop.
LEMMA TurnsAre ==
  ASSUME NEW S, NEW b \in S, NEW G \in [Nat -> [S -> S]], NEW n \in Nat, NEW f,
         f = [k \in 0 .. n |-> f[k]], f[0] = b,
         \A k \in 1 .. n : f[k - 1] \in S => f[k] = G[k][f[k - 1]]
  PROVE Turns(S, b, G, n, f)
<1>. DEFINE T == {k \in Nat : k \in 0 .. n => f[k] \in S}
<1>1. 0 \in T
  BY Zenon
<1>2. ASSUME NEW k \in Nat, k \in T PROVE k + 1 \in T
  <2>. SUFFICES ASSUME k + 1 \in 0 .. n PROVE f[k + 1] \in S
    OBVIOUS
  <2>1. k \in 0 .. n /\ k + 1 \in 1 .. n /\ (k + 1) - 1 = k /\ k + 1 \in Nat
    OBVIOUS
  <2>2. f[k] \in S
    BY <1>2, <2>1, Zenon
  <2>3. f[k + 1] = G[k + 1][f[k]]
    BY <2>1, <2>2, Zenon
  <2>4. G[k + 1] \in [S -> S]
    BY <2>1, Zenon
  <2>. QED BY <2>2, <2>3, <2>4, Zenon
<1>3. \A k \in Nat : k \in T
  <2>. HIDE DEF T
  <2>. QED BY <1>1, <1>2, SetInduction, Zenon
<1>4. ASSUME NEW k \in 0 .. n PROVE f[k] \in S
  <2>1. k \in Nat
    OBVIOUS
  <2>. QED BY <1>3, <2>1, Zenon
<1>5. f \in [0 .. n -> S]
  BY <1>4, Zenon
<1>6. ASSUME NEW k \in 1 .. n PROVE f[k] = G[k][f[k - 1]]
  <2>1. k - 1 \in 0 .. n
    OBVIOUS
  <2>. QED BY <1>4, <2>1, Zenon
<1>. QED BY <1>5, <1>6, Zenon DEF Turns

\* The partial results of Concat.
Joined(S, ss, f) ==
  f \in [0 .. Len(ss) -> Seq(S)] /\ f[0] = <<>> /\ \A k \in 1 .. Len(ss) : f[k] = f[k - 1] \o ss[k]

\* Concat goes through them.
LEMMA ConcatJoins ==
  ASSUME NEW S, NEW ss \in Seq(Seq(S))
  PROVE \E f : Joined(S, ss, f) /\ Concat(ss) = f[Len(ss)]
<1>. DEFINE n == Len(ss)
            Q == Seq(S)
            G == [k \in Nat |-> [x \in Q |-> IF k \in 1 .. n THEN x \o ss[k] ELSE x]]
            Steps(f) == f = [k \in 0 .. n |-> IF k = 0 THEN <<>> ELSE f[k - 1] \o ss[k]]
<1>1. n \in Nat /\ <<>> \in Q
  OBVIOUS
<1>2. ASSUME NEW k \in 1 .. n, NEW x \in Q PROVE x \o ss[k] \in Q
  <2>1. ss[k] \in Q
    OBVIOUS
  <2>. QED BY <2>1
<1>. HIDE DEF Q, n
<1>3. G \in [Nat -> [Q -> Q]]
  BY <1>2, Zenon
<1>4. ASSUME NEW k \in 1 .. n, NEW x \in Q PROVE G[k][x] = x \o ss[k]
  <2>1. k \in Nat
    BY <1>1
  <2>. QED BY <2>1, Zenon
<1>. HIDE DEF G
<1>5. PICK f \in [0 .. n -> Q] : f[0] = <<>> /\ \A k \in 1 .. n : f[k] = G[k][f[k - 1]]
  <2>1. PICK f : Turns(Q, <<>>, G, n, f)
    BY <1>1, <1>3, Iterated, Zenon
  <2>. QED BY <2>1, Zenon DEF Turns
<1>6. Steps(f)
  <2>1. ASSUME NEW k \in 0 .. n PROVE f[k] = IF k = 0 THEN <<>> ELSE f[k - 1] \o ss[k]
    <3>1. k # 0 => k \in 1 .. n /\ k - 1 \in 0 .. n
      BY <1>1
    <3>. QED BY <1>4, <1>5, <3>1, Zenon
  <2>. QED BY <1>5, <2>1, Zenon
<1>. DEFINE g == CHOOSE g : Steps(g)
<1>7. Concat(ss) = g[n]
  BY Zenon DEF Concat, n
<1>8. Steps(g)
  <2>. HIDE DEF Steps
  <2>. QED BY <1>6, Zenon
<1>. HIDE DEF g
<1>9. g = [k \in 0 .. n |-> g[k]] /\ \A k \in 0 .. n : g[k] = IF k = 0 THEN <<>> ELSE g[k - 1] \o ss[k]
  BY <1>8, Zenon
<1>. HIDE DEF Steps
<1>10. g[0] = <<>>
  <2>1. 0 \in 0 .. n
    BY <1>1
  <2>. QED BY <1>9, <2>1, Zenon
<1>11. ASSUME NEW k \in 1 .. n PROVE g[k] = g[k - 1] \o ss[k]
  <2>1. k \in 0 .. n /\ k # 0
    BY <1>1
  <2>. QED BY <1>9, <2>1, Zenon
<1>12. Turns(Q, <<>>, G, n, g)
  <2>1. ASSUME NEW k \in 1 .. n, g[k - 1] \in Q PROVE g[k] = G[k][g[k - 1]]
    BY <1>4, <1>11, <2>1, Zenon
  <2>2. g = [k \in 0 .. n |-> g[k]]
    BY <1>9, Zenon
  <2>. QED BY <1>1, <1>3, <1>10, <2>1, <2>2, TurnsAre, Zenon
<1>13. g \in [0 .. n -> Q]
  BY <1>12, Zenon DEF Turns
<1>14. Joined(S, ss, g)
  BY <1>10, <1>11, <1>13, Zenon DEF Joined, Q, n
<1>. QED BY <1>7, <1>14, Zenon DEF n

\* One more sequence.
Longer(S, ss, m) ==
  /\ Concat(First(ss, m)) \in Seq(S)
  /\ Concat(First(ss, m + 1)) = Concat(First(ss, m)) \o ss[m + 1]

\* The partial results are what Concat makes of the first sequences.
LEMMA ConcatFirst ==
  ASSUME NEW S, NEW ss \in Seq(Seq(S)), NEW f, Joined(S, ss, f), NEW m \in 0 .. Len(ss)
  PROVE Concat(First(ss, m)) = f[m]
<1>. DEFINE p == First(ss, m)
<1>1. m \in Nat /\ m <= Len(ss) /\ Len(ss) \in Nat
  OBVIOUS
<1>2. FirstGrown(Seq(S), ss, m)
  BY <1>1, FirstIs, Zenon
<1>3. p \in Seq(Seq(S)) /\ Len(p) = m /\ \A i \in 1 .. m : p[i] = ss[i]
  BY <1>2, Zenon DEF FirstGrown
<1>. HIDE DEF p
<1>4. PICK g : Joined(S, p, g) /\ Concat(p) = g[m]
  BY <1>3, ConcatJoins, Zenon
<1>5. g[0] = <<>> /\ \A k \in 1 .. m : g[k] = g[k - 1] \o p[k]
  BY <1>3, <1>4, Zenon DEF Joined
<1>6. f[0] = <<>> /\ \A k \in 1 .. Len(ss) : f[k] = f[k - 1] \o ss[k]
  BY Zenon DEF Joined
<1>. DEFINE T == {k \in Nat : k \in 0 .. m => g[k] = f[k]}
<1>7. 0 \in T
  BY <1>5, <1>6, Zenon
<1>8. ASSUME NEW k \in Nat, k \in T PROVE k + 1 \in T
  <2>. SUFFICES ASSUME k + 1 \in 0 .. m PROVE g[k + 1] = f[k + 1]
    OBVIOUS
  <2>1. k \in 0 .. m /\ k + 1 \in 1 .. m /\ k + 1 \in 1 .. Len(ss) /\ (k + 1) - 1 = k
    BY <1>1
  <2>2. g[k] = f[k] /\ p[k + 1] = ss[k + 1]
    BY <1>3, <1>8, <2>1, Zenon
  <2>3. g[k + 1] = g[k] \o p[k + 1]
    BY <1>5, <2>1, Zenon
  <2>4. f[k + 1] = f[k] \o ss[k + 1]
    BY <1>6, <2>1, Zenon
  <2>. QED BY <2>2, <2>3, <2>4, Zenon
<1>9. \A k \in Nat : k \in T
  <2>. HIDE DEF T
  <2>. QED BY <1>7, <1>8, SetInduction, Zenon
<1>10. m \in 0 .. m
  BY <1>1
<1>11. g[m] = f[m]
  BY <1>1, <1>9, <1>10, Zenon
<1>. QED BY <1>4, <1>11, Zenon DEF p

\* Concat grows by one sequence after the other.
LEMMA ConcatLonger ==
  ASSUME NEW S, NEW ss \in Seq(Seq(S)), NEW m \in Nat, m < Len(ss)
  PROVE Longer(S, ss, m)
<1>1. m \in 0 .. Len(ss) /\ m + 1 \in 0 .. Len(ss) /\ m + 1 \in 1 .. Len(ss) /\ (m + 1) - 1 = m
  OBVIOUS
<1>2. PICK f : Joined(S, ss, f)
  BY ConcatJoins, Zenon
<1>3. Concat(First(ss, m)) = f[m] /\ Concat(First(ss, m + 1)) = f[m + 1]
  BY <1>1, <1>2, ConcatFirst, Zenon
<1>4. f[m] \in Seq(S) /\ f[m + 1] = f[m] \o ss[m + 1]
  BY <1>1, <1>2, Zenon DEF Joined
<1>. QED BY <1>3, <1>4, Zenon DEF Longer

\* Nothing, concatenated.
LEMMA ConcatNone ==
  ASSUME NEW ss
  PROVE Concat(First(ss, 0)) = <<>>
<1>. DEFINE e == First(ss, 0)
<1>1. e \in Seq(Seq(Nat)) /\ Len(e) = 0
  BY DEF First
<1>. HIDE DEF e
<1>2. PICK f : Joined(Nat, e, f) /\ Concat(e) = f[Len(e)]
  BY <1>1, ConcatJoins, Zenon
<1>3. f[0] = <<>>
  BY <1>2, Zenon DEF Joined
<1>. QED BY <1>1, <1>2, <1>3, Zenon DEF e

\* The concatenation is a sequence.
LEMMA ConcatIs ==
  ASSUME NEW S, NEW ss \in Seq(Seq(S))
  PROVE Concat(ss) \in Seq(S)
<1>1. PICK f : Joined(S, ss, f) /\ Concat(ss) = f[Len(ss)]
  BY ConcatJoins, Zenon
<1>2. Len(ss) \in 0 .. Len(ss)
  OBVIOUS
<1>. QED BY <1>1, <1>2, Zenon DEF Joined

\* The partial sums of Total.
Summed(s, f) ==
  f \in [0 .. Len(s) -> Nat] /\ f[0] = 0 /\ \A k \in 1 .. Len(s) : f[k] = f[k - 1] + s[k]

\* Total goes through them.
LEMMA TotalSums ==
  ASSUME NEW s \in Seq(Nat)
  PROVE \E f : Summed(s, f) /\ Total(s) = f[Len(s)]
<1>. DEFINE n == Len(s)
            G == [k \in Nat |-> [x \in Nat |-> IF k \in 1 .. n THEN x + s[k] ELSE x]]
            Steps(f) == f = [k \in 0 .. n |-> IF k = 0 THEN 0 ELSE f[k - 1] + s[k]]
<1>1. n \in Nat /\ 0 \in Nat
  OBVIOUS
<1>2. ASSUME NEW k \in 1 .. n, NEW x \in Nat PROVE x + s[k] \in Nat
  <2>1. s[k] \in Nat
    OBVIOUS
  <2>. QED BY <2>1
<1>. HIDE DEF n
<1>3. G \in [Nat -> [Nat -> Nat]]
  BY <1>2, Zenon
<1>4. ASSUME NEW k \in 1 .. n, NEW x \in Nat PROVE G[k][x] = x + s[k]
  <2>1. k \in Nat
    BY <1>1
  <2>. QED BY <2>1, Zenon
<1>. HIDE DEF G
<1>5. PICK f \in [0 .. n -> Nat] : f[0] = 0 /\ \A k \in 1 .. n : f[k] = G[k][f[k - 1]]
  <2>1. PICK f : Turns(Nat, 0, G, n, f)
    BY <1>1, <1>3, Iterated, Zenon
  <2>. QED BY <2>1, Zenon DEF Turns
<1>6. Steps(f)
  <2>1. ASSUME NEW k \in 0 .. n PROVE f[k] = IF k = 0 THEN 0 ELSE f[k - 1] + s[k]
    <3>1. k # 0 => k \in 1 .. n /\ k - 1 \in 0 .. n
      BY <1>1
    <3>. QED BY <1>4, <1>5, <3>1, Zenon
  <2>. QED BY <1>5, <2>1, Zenon
<1>. DEFINE g == CHOOSE g : Steps(g)
<1>7. Total(s) = g[n]
  BY Zenon DEF Total, n
<1>8. Steps(g)
  <2>. HIDE DEF Steps
  <2>. QED BY <1>6, Zenon
<1>. HIDE DEF g
<1>9. g = [k \in 0 .. n |-> g[k]] /\ \A k \in 0 .. n : g[k] = IF k = 0 THEN 0 ELSE g[k - 1] + s[k]
  BY <1>8, Zenon
<1>. HIDE DEF Steps
<1>10. g[0] = 0
  <2>1. 0 \in 0 .. n
    BY <1>1
  <2>. QED BY <1>9, <2>1, Zenon
<1>11. ASSUME NEW k \in 1 .. n PROVE g[k] = g[k - 1] + s[k]
  <2>1. k \in 0 .. n /\ k # 0
    BY <1>1
  <2>. QED BY <1>9, <2>1, Zenon
<1>12. Turns(Nat, 0, G, n, g)
  <2>1. \A k \in 1 .. n : g[k - 1] \in Nat => g[k] = G[k][g[k - 1]]
    BY <1>4, <1>11, Zenon
  <2>2. g = [k \in 0 .. n |-> g[k]]
    BY <1>9, Zenon
  <2>. QED BY <1>1, <1>3, <1>10, <2>1, <2>2, TurnsAre, Zenon
<1>13. g \in [0 .. n -> Nat]
  BY <1>12, Zenon DEF Turns
<1>14. Summed(s, g)
  BY <1>10, <1>11, <1>13, Zenon DEF Summed, n
<1>. QED BY <1>7, <1>14, Zenon DEF n

\* The partial sums are totals of the first numbers.
LEMMA TotalFirst ==
  ASSUME NEW s \in Seq(Nat), NEW f, Summed(s, f), NEW m \in 0 .. Len(s)
  PROVE Total(First(s, m)) = f[m]
<1>. DEFINE p == First(s, m)
<1>1. m \in Nat /\ m <= Len(s) /\ Len(s) \in Nat
  OBVIOUS
<1>2. FirstGrown(Nat, s, m)
  BY <1>1, FirstIs, Zenon
<1>3. p \in Seq(Nat) /\ Len(p) = m /\ \A i \in 1 .. m : p[i] = s[i]
  BY <1>2, Zenon DEF FirstGrown
<1>. HIDE DEF p
<1>4. PICK g : Summed(p, g) /\ Total(p) = g[m]
  BY <1>3, TotalSums, Zenon
<1>5. g[0] = 0 /\ \A k \in 1 .. m : g[k] = g[k - 1] + p[k]
  BY <1>3, <1>4, Zenon DEF Summed
<1>6. f[0] = 0 /\ \A k \in 1 .. Len(s) : f[k] = f[k - 1] + s[k]
  BY Zenon DEF Summed
<1>. DEFINE T == {k \in Nat : k \in 0 .. m => g[k] = f[k]}
<1>7. 0 \in T
  BY <1>5, <1>6, Zenon
<1>8. ASSUME NEW k \in Nat, k \in T PROVE k + 1 \in T
  <2>. SUFFICES ASSUME k + 1 \in 0 .. m PROVE g[k + 1] = f[k + 1]
    OBVIOUS
  <2>1. k \in 0 .. m /\ k + 1 \in 1 .. m /\ k + 1 \in 1 .. Len(s) /\ (k + 1) - 1 = k
    BY <1>1
  <2>2. g[k] = f[k] /\ p[k + 1] = s[k + 1]
    BY <1>3, <1>8, <2>1, Zenon
  <2>3. g[k + 1] = g[k] + p[k + 1]
    BY <1>5, <2>1, Zenon
  <2>4. f[k + 1] = f[k] + s[k + 1]
    BY <1>6, <2>1, Zenon
  <2>. QED BY <2>2, <2>3, <2>4, Zenon
<1>9. \A k \in Nat : k \in T
  <2>. HIDE DEF T
  <2>. QED BY <1>7, <1>8, SetInduction, Zenon
<1>10. m \in 0 .. m
  BY <1>1
<1>11. g[m] = f[m]
  BY <1>1, <1>9, <1>10, Zenon
<1>. QED BY <1>4, <1>11, Zenon DEF p

\* One more number.
More(s, m) ==
  /\ Total(First(s, m)) \in Nat
  /\ Total(First(s, m + 1)) = Total(First(s, m)) + s[m + 1]

\* Total grows by one number after the other.
LEMMA TotalMore ==
  ASSUME NEW s \in Seq(Nat), NEW m \in Nat, m < Len(s)
  PROVE More(s, m)
<1>1. m \in 0 .. Len(s) /\ m + 1 \in 0 .. Len(s) /\ m + 1 \in 1 .. Len(s) /\ (m + 1) - 1 = m
  OBVIOUS
<1>2. PICK f : Summed(s, f)
  BY TotalSums, Zenon
<1>3. Total(First(s, m)) = f[m] /\ Total(First(s, m + 1)) = f[m + 1]
  BY <1>1, <1>2, TotalFirst, Zenon
<1>4. f[m] \in Nat /\ f[m + 1] = f[m] + s[m + 1]
  BY <1>1, <1>2, Zenon DEF Summed
<1>. QED BY <1>3, <1>4, Zenon DEF More

\* The sum of nothing.
LEMMA TotalNone ==
  ASSUME NEW s
  PROVE Total(First(s, 0)) = 0
<1>. DEFINE e == First(s, 0)
<1>1. e \in Seq(Nat) /\ Len(e) = 0
  BY DEF First
<1>. HIDE DEF e
<1>2. PICK f : Summed(e, f) /\ Total(e) = f[Len(e)]
  BY <1>1, TotalSums, Zenon
<1>3. f[0] = 0
  BY <1>2, Zenon DEF Summed
<1>. QED BY <1>1, <1>2, <1>3, Zenon DEF e

\* A total is a natural number.
LEMMA TotalIs ==
  ASSUME NEW s \in Seq(Nat)
  PROVE Total(s) \in Nat
<1>1. PICK f : Summed(s, f) /\ Total(s) = f[Len(s)]
  BY TotalSums, Zenon
<1>2. Len(s) \in 0 .. Len(s)
  OBVIOUS
<1>. QED BY <1>1, <1>2, Zenon DEF Summed

-----------------------------------------------------------------------------
(* Where the parts of a concatenation are *)

Lens(ss) == [i \in DOMAIN ss |-> Len(ss[i])]

\* What comes before the k-th sequence.
Before(ss, k) == Total(First(Lens(ss), k - 1))

\* The parts begin at 0, each where the one before it ends.
Placed(ss, k) ==
  /\ Before(ss, 1) = 0 /\ Before(ss, k) \in Nat /\ Before(ss, k + 1) \in Nat
  /\ Before(ss, k + 1) = Before(ss, k) + Len(ss[k])

\* The lengths are natural numbers.
LEMMA LensAre ==
  ASSUME NEW S, NEW ss \in Seq(Seq(S))
  PROVE /\ Lens(ss) \in Seq(Nat) /\ Len(Lens(ss)) = Len(ss) /\ Len(ss) \in Nat
        /\ \A k \in 1 .. Len(ss) : Lens(ss)[k] = Len(ss[k]) /\ Len(ss[k]) \in Nat /\ ss[k] \in Seq(S)
<1>1. DOMAIN ss = 1 .. Len(ss) /\ Len(ss) \in Nat
  OBVIOUS
<1>2. ASSUME NEW k \in 1 .. Len(ss) PROVE ss[k] \in Seq(S) /\ Len(ss[k]) \in Nat
  <2>1. ss[k] \in Seq(S)
    OBVIOUS
  <2>. QED BY <2>1
<1>. DEFINE n == Len(ss)
<1>3. Lens(ss) = [i \in 1 .. n |-> Len(ss[i])]
  BY <1>1, Zenon DEF Lens
<1>4. Lens(ss) \in [1 .. n -> Nat] /\ \A k \in 1 .. n : Lens(ss)[k] = Len(ss[k])
  BY <1>2, <1>3, Zenon
<1>. HIDE DEF n
<1>5. Lens(ss) \in Seq(Nat) /\ Len(Lens(ss)) = n
  <2>1. n \in Nat
    BY <1>1, Zenon DEF n
  <2>. QED BY <1>4, <2>1
<1>. QED BY <1>1, <1>2, <1>4, <1>5, Zenon DEF n

\* Parts follow each other without a gap.
LEMMA PartsPlaced ==
  ASSUME NEW S, NEW ss \in Seq(Seq(S)), NEW k \in 1 .. Len(ss)
  PROVE Placed(ss, k)
<1>. DEFINE l == Lens(ss)
<1>1. l \in Seq(Nat) /\ Len(l) = Len(ss) /\ l[k] = Len(ss[k]) /\ Len(ss[k]) \in Nat
  BY LensAre, Zenon
<1>. HIDE DEF l
<1>2. k - 1 \in Nat /\ k - 1 < Len(l) /\ (k - 1) + 1 = k /\ (k + 1) - 1 = k /\ 1 - 1 = 0
  BY <1>1
<1>3. More(l, k - 1)
  BY <1>1, <1>2, TotalMore, Zenon
<1>4. Total(First(l, k - 1)) \in Nat /\ Total(First(l, k)) = Total(First(l, k - 1)) + Len(ss[k])
  BY <1>1, <1>2, <1>3, Zenon DEF More
<1>5. Total(First(l, 0)) = 0
  BY TotalNone, Zenon
<1>6. Before(ss, k) = Total(First(l, k - 1)) /\ Before(ss, k + 1) = Total(First(l, k)) /\ Before(ss, 1) = Total(First(l, 0))
  BY <1>2, Zenon DEF Before, l
<1>7. Before(ss, k + 1) = Before(ss, k) + Len(ss[k]) /\ Before(ss, k) \in Nat /\ Before(ss, 1) = 0
  BY <1>4, <1>5, <1>6, Zenon
<1>8. Before(ss, k + 1) \in Nat
  BY <1>1, <1>7, SMTT(30)
<1>. QED BY <1>7, <1>8, Zenon DEF Placed

\* Element j of part k of the concatenation w.
Found(w, ss, k, j) ==
  Before(ss, k) + j \in 1 .. Len(w) /\ w[Before(ss, k) + j] = ss[k][j]

\* All parts up to the m-th are found in w, and nothing else.
Holds(w, ss, m) ==
  /\ Len(w) = Before(ss, m + 1)
  /\ \A k \in 1 .. m : \A j \in 1 .. Len(ss[k]) : Found(w, ss, k, j)

\* One more part.
LEMMA HoldsMore ==
  ASSUME NEW S, NEW ss \in Seq(Seq(S)), NEW m \in Nat, m < Len(ss), NEW w \in Seq(S), Holds(w, ss, m)
  PROVE Holds(w \o ss[m + 1], ss, m + 1)
<1>. DEFINE s == ss[m + 1]
            v == w \o s
            n == Len(w)
            B(k) == Before(ss, k)
<1>1. m + 1 \in 1 .. Len(ss)
  OBVIOUS
<1>2. s \in Seq(S)
  BY <1>1
<1>3. Placed(ss, m + 1) /\ n = B(m + 1)
  BY <1>1, PartsPlaced, Zenon DEF Holds
<1>4. B(m + 1) \in Nat /\ B((m + 1) + 1) = B(m + 1) + Len(s)
  BY <1>3, Zenon DEF Placed
<1>5. /\ n \in Nat /\ Len(s) \in Nat /\ Len(v) = n + Len(s)
      /\ \A i \in 1 .. n + Len(s) : v[i] = IF i <= n THEN w[i] ELSE s[i - n]
  BY <1>2
<1>. HIDE DEF s, v, n
<1>6. Len(v) = B((m + 1) + 1)
  BY <1>3, <1>4, <1>5, Zenon
<1>7. ASSUME NEW k \in 1 .. m + 1, NEW j \in 1 .. Len(ss[k]) PROVE Found(v, ss, k, j)
  <2>1. CASE k = m + 1
    <3>1. j \in 1 .. Len(s) /\ B(k) = n
      BY <1>3, <2>1, Zenon DEF s
    <3>2. n + j \in 1 .. n + Len(s) /\ ~(n + j <= n) /\ (n + j) - n = j
      BY <1>5, <3>1
    <3>3. v[n + j] = s[j] /\ n + j \in 1 .. Len(v)
      BY <1>5, <3>2, Zenon
    <3>. QED BY <2>1, <3>1, <3>3, Zenon DEF Found, s
  <2>2. CASE k # m + 1
    <3>1. k \in 1 .. m
      BY <2>2
    <3>2. B(k) + j \in 1 .. n /\ w[B(k) + j] = ss[k][j]
      BY <3>1, Zenon DEF Holds, Found, n
    <3>. DEFINE i == B(k) + j
    <3>. HIDE DEF i
    <3>3. i \in 1 .. n + Len(s) /\ i <= n /\ i \in 1 .. Len(v)
      BY <1>5, <3>2 DEF i
    <3>4. v[i] = w[i]
      BY <1>5, <3>3, Zenon
    <3>. QED BY <3>2, <3>3, <3>4, Zenon DEF Found, i
  <2>. QED BY <2>1, <2>2, Zenon
<1>8. Holds(v, ss, m + 1)
  BY <1>6, <1>7, Zenon DEF Holds
<1>. QED BY <1>8, Zenon DEF v, s

\* A concatenation holds its parts at their places.
LEMMA ConcatHolds ==
  ASSUME NEW S, NEW ss \in Seq(Seq(S))
  PROVE Holds(Concat(ss), ss, Len(ss))
<1>. DEFINE n == Len(ss)
            c(m) == Concat(First(ss, m))
            T == {m \in Nat : m <= n => c(m) \in Seq(S) /\ Holds(c(m), ss, m)}
<1>1. n \in Nat
  OBVIOUS
<1>2. 0 \in T
  <2>1. c(0) = <<>>
    BY ConcatNone, Zenon
  <2>2. Before(ss, 1) = 0
    <3>1. 1 - 1 = 0
      OBVIOUS
    <3>. QED BY <3>1, TotalNone, Zenon DEF Before
  <2>3. Holds(<<>>, ss, 0)
    <3>1. Len(<<>>) = 0 /\ 0 + 1 = 1 /\ \A k : k \notin 1 .. 0
      OBVIOUS
    <3>. QED BY <2>2, <3>1, Zenon DEF Holds
  <2>4. <<>> \in Seq(S)
    OBVIOUS
  <2>. QED BY <2>1, <2>3, <2>4, Zenon
<1>3. ASSUME NEW m \in Nat, m \in T PROVE m + 1 \in T
  <2>. SUFFICES ASSUME m + 1 <= n PROVE c(m + 1) \in Seq(S) /\ Holds(c(m + 1), ss, m + 1)
    OBVIOUS
  <2>1. m < Len(ss) /\ m <= n /\ m + 1 \in 1 .. Len(ss)
    BY <1>1
  <2>2. c(m) \in Seq(S) /\ Holds(c(m), ss, m)
    BY <1>3, <2>1, Zenon
  <2>3. c(m + 1) = c(m) \o ss[m + 1]
    BY <2>1, ConcatLonger, Zenon DEF Longer
  <2>. HIDE DEF c
  <2>4. ss[m + 1] \in Seq(S)
    BY <2>1
  <2>5. c(m) \o ss[m + 1] \in Seq(S)
    BY <2>2, <2>4
  <2>6. Holds(c(m) \o ss[m + 1], ss, m + 1)
    BY <2>1, <2>2, HoldsMore, Zenon
  <2>. QED BY <2>3, <2>5, <2>6, Zenon
<1>4. \A m \in Nat : m \in T
  <2>. HIDE DEF T
  <2>. QED BY <1>2, <1>3, SetInduction, Zenon
<1>5. n <= n
  BY <1>1
<1>6. Holds(c(n), ss, n)
  BY <1>1, <1>4, <1>5, Zenon
<1>7. First(ss, n) = ss
  BY FirstAll, Zenon
<1>. QED BY <1>6, <1>7, Zenon

-----------------------------------------------------------------------------
(* What stands where in a sequence *)

\* s stands in f after the first b words.
At(f, b, s) ==
  b \in Nat /\ b + Len(s) <= Len(f) /\ \A j \in 1 .. Len(s) : f[b + j] = s[j]

\* Two sequences, one after the other.
LEMMA JoinIs ==
  ASSUME NEW S, NEW f \in Seq(S), NEW g \in Seq(S)
  PROVE f \o g \in Seq(S) /\ Len(f \o g) = Len(f) + Len(g)
OBVIOUS

\* Three sequences can be joined in any order.
Associates(f, g, h) == (f \o g) \o h = f \o (g \o h)

\* They can.
LEMMA JoinAssociates ==
  ASSUME NEW S, NEW f \in Seq(S), NEW g \in Seq(S), NEW h \in Seq(S)
  PROVE Associates(f, g, h)
BY SMTT(30) DEF Associates

\* What stands there can be cut out.
LEMMA AtSlice ==
  ASSUME NEW S, NEW f \in Seq(S), NEW s \in Seq(S), NEW b, At(f, b, s)
  PROVE SubSeq(f, b + 1, b + Len(s)) = s
<1>. DEFINE v == SubSeq(f, b + 1, b + Len(s))
<1>1. b \in Nat /\ b + Len(s) <= Len(f) /\ \A j \in 1 .. Len(s) : f[b + j] = s[j]
  BY Zenon DEF At
<1>2. Len(s) \in Nat /\ Len(f) \in Nat
  OBVIOUS
<1>3. v \in Seq(S) /\ Len(v) = Len(s) /\ \A j \in 1 .. Len(s) : v[j] = f[b + j]
  BY <1>1, <1>2
<1>. HIDE DEF v
<1>4. \A j \in 1 .. Len(s) : v[j] = s[j]
  BY <1>1, <1>3, Zenon
<1>5. v = s
  BY <1>3, <1>4, SeqEqual, Zenon
<1>. QED BY <1>5, Zenon DEF v

\* It is still there when more is written.
LEMMA AtLeft ==
  ASSUME NEW S, NEW f \in Seq(S), NEW g \in Seq(S), NEW s \in Seq(S), NEW b, At(f, b, s)
  PROVE At(f \o g, b, s)
<1>. DEFINE v == f \o g
<1>1. b \in Nat /\ b + Len(s) <= Len(f) /\ \A j \in 1 .. Len(s) : f[b + j] = s[j]
  BY Zenon DEF At
<1>2. Len(s) \in Nat /\ Len(f) \in Nat /\ Len(g) \in Nat
  OBVIOUS
<1>3. Len(v) = Len(f) + Len(g) /\ \A i \in 1 .. Len(f) : v[i] = f[i]
  OBVIOUS
<1>. HIDE DEF v
<1>4. b + Len(s) <= Len(v)
  BY <1>1, <1>2, <1>3
<1>5. ASSUME NEW j \in 1 .. Len(s) PROVE v[b + j] = s[j]
  <2>1. b + j \in 1 .. Len(f)
    BY <1>1, <1>2
  <2>. QED BY <1>1, <1>3, <2>1, Zenon
<1>6. At(v, b, s)
  BY <1>1, <1>4, <1>5, Zenon DEF At
<1>. QED BY <1>6, Zenon DEF v

\* Something put before it moves it.
LEMMA AtRight ==
  ASSUME NEW S, NEW f \in Seq(S), NEW g \in Seq(S), NEW s \in Seq(S), NEW b, At(g, b, s)
  PROVE At(f \o g, Len(f) + b, s)
<1>. DEFINE v == f \o g
            c == Len(f) + b
<1>1. b \in Nat /\ b + Len(s) <= Len(g) /\ \A j \in 1 .. Len(s) : g[b + j] = s[j]
  BY Zenon DEF At
<1>2. Len(s) \in Nat /\ Len(f) \in Nat /\ Len(g) \in Nat
  OBVIOUS
<1>3. Len(v) = Len(f) + Len(g) /\ \A i \in 1 .. Len(g) : v[Len(f) + i] = g[i]
  OBVIOUS
<1>. HIDE DEF v
<1>4. c \in Nat /\ c + Len(s) <= Len(v)
  BY <1>1, <1>2, <1>3
<1>5. ASSUME NEW j \in 1 .. Len(s) PROVE v[c + j] = s[j]
  <2>1. b + j \in 1 .. Len(g) /\ c + j = Len(f) + (b + j)
    BY <1>1, <1>2
  <2>. QED BY <1>1, <1>3, <2>1, Zenon
<1>. HIDE DEF c
<1>6. At(v, c, s)
  BY <1>4, <1>5, Zenon DEF At
<1>. QED BY <1>6, Zenon DEF v, c

\* What stands in a part stands in the whole.
LEMMA AtWithin ==
  ASSUME NEW S, NEW f \in Seq(S), NEW s \in Seq(S), NEW t \in Seq(S), NEW b, NEW c, At(f, b, s), At(s, c, t)
  PROVE At(f, b + c, t)
<1>. DEFINE d == b + c
<1>1. b \in Nat /\ b + Len(s) <= Len(f) /\ \A j \in 1 .. Len(s) : f[b + j] = s[j]
  BY Zenon DEF At
<1>2. c \in Nat /\ c + Len(t) <= Len(s) /\ \A j \in 1 .. Len(t) : s[c + j] = t[j]
  BY Zenon DEF At
<1>3. Len(s) \in Nat /\ Len(f) \in Nat /\ Len(t) \in Nat
  OBVIOUS
<1>4. d \in Nat /\ d + Len(t) <= Len(f)
  BY <1>1, <1>2, <1>3
<1>5. ASSUME NEW j \in 1 .. Len(t) PROVE f[d + j] = t[j]
  <2>1. c + j \in 1 .. Len(s) /\ d + j = b + (c + j)
    BY <1>1, <1>2, <1>3
  <2>. QED BY <1>1, <1>2, <2>1, Zenon
<1>. HIDE DEF d
<1>6. At(f, d, t)
  BY <1>4, <1>5, Zenon DEF At
<1>. QED BY <1>6, Zenon DEF d

\* It survives a cut behind it.
LEMMA AtCut ==
  ASSUME NEW S, NEW f \in Seq(S), NEW s \in Seq(S), NEW b, At(f, b, s),
         NEW n \in Nat, n <= Len(f), b + Len(s) <= n
  PROVE At(SubSeq(f, 1, n), b, s)
<1>. DEFINE v == SubSeq(f, 1, n)
<1>1. b \in Nat /\ b + Len(s) <= Len(f) /\ \A j \in 1 .. Len(s) : f[b + j] = s[j]
  BY Zenon DEF At
<1>2. Len(s) \in Nat /\ Len(f) \in Nat
  OBVIOUS
<1>3. Len(v) = n /\ \A i \in 1 .. n : v[i] = f[i]
  OBVIOUS
<1>. HIDE DEF v
<1>5. ASSUME NEW j \in 1 .. Len(s) PROVE v[b + j] = s[j]
  <2>1. b + j \in 1 .. n
    BY <1>1, <1>2
  <2>. QED BY <1>1, <1>3, <2>1, Zenon
<1>6. At(v, b, s)
  BY <1>1, <1>3, <1>5, Zenon DEF At
<1>. QED BY <1>6, Zenon DEF v

\* A sequence stands at the beginning of itself.
LEMMA AtSelf ==
  ASSUME NEW S, NEW s \in Seq(S)
  PROVE At(s, 0, s)
<1>1. Len(s) \in Nat /\ 0 + Len(s) <= Len(s) /\ \A j \in 1 .. Len(s) : 0 + j = j
  OBVIOUS
<1>. QED BY <1>1, Zenon DEF At

\* Later parts come later.
LEMMA BeforeGrows ==
  ASSUME NEW S, NEW ss \in Seq(Seq(S)), NEW k \in 1 .. Len(ss) + 1, NEW n \in k .. Len(ss) + 1
  PROVE Before(ss, k) \in Nat /\ Before(ss, n) \in Nat /\ Before(ss, k) <= Before(ss, n)
<1>. DEFINE B(m) == Before(ss, m)
            T == {m \in Nat : m \in k .. Len(ss) + 1 => B(m) \in Nat /\ B(k) <= B(m)}
<1>0. Len(ss) \in Nat
  OBVIOUS
<1>1. ASSUME NEW m \in 1 .. Len(ss) PROVE B(m) \in Nat /\ B(m + 1) \in Nat /\ B(m) <= B(m + 1)
  <2>1. Placed(ss, m) /\ Len(ss[m]) \in Nat
    BY PartsPlaced, LensAre, Zenon
  <2>2. B(m) \in Nat /\ B(m + 1) \in Nat /\ B(m + 1) = B(m) + Len(ss[m])
    BY <2>1, Zenon DEF Placed
  <2>. DEFINE x == B(m)
              y == B(m + 1)
              z == Len(ss[m])
  <2>3. x \in Nat /\ y \in Nat /\ y = x + z /\ z \in Nat
    BY <2>1, <2>2, Zenon
  <2>. HIDE DEF x, y, z
  <2>4. x <= y
    BY <2>3
  <2>. QED BY <2>3, <2>4, Zenon DEF x, y
<1>2. B(1) = 0
  <2>1. 1 - 1 = 0
    OBVIOUS
  <2>. QED BY <2>1, TotalNone, Zenon DEF Before
<1>. HIDE DEF B
<1>3. B(k) \in Nat
  <2>1. CASE k = 1
    BY <1>2, <2>1
  <2>2. CASE k # 1
    <3>1. k - 1 \in 1 .. Len(ss) /\ (k - 1) + 1 = k
      BY <1>0, <2>2
    <3>. QED BY <1>1, <3>1, Zenon
  <2>. QED BY <2>1, <2>2, Zenon
<1>4. 0 \in T
  OBVIOUS
<1>5. ASSUME NEW m \in Nat, m \in T PROVE m + 1 \in T
  <2>. SUFFICES ASSUME m + 1 \in k .. Len(ss) + 1 PROVE B(m + 1) \in Nat /\ B(k) <= B(m + 1)
    OBVIOUS
  <2>1. CASE m + 1 = k
    BY <1>3, <2>1, SMTT(30)
  <2>2. CASE m + 1 # k
    <3>1. m \in k .. Len(ss) + 1 /\ m \in 1 .. Len(ss)
      BY <1>0, <2>2
    <3>2. B(m) \in Nat /\ B(k) <= B(m)
      BY <1>5, <3>1, Zenon
    <3>3. B(m + 1) \in Nat /\ B(m) <= B(m + 1)
      BY <1>1, <3>1, Zenon
    <3>. QED BY <1>3, <3>2, <3>3
  <2>. QED BY <2>1, <2>2, Zenon
<1>6. \A m \in Nat : m \in T
  <2>. HIDE DEF T
  <2>. QED BY <1>4, <1>5, SetInduction, Zenon
<1>7. n \in Nat
  OBVIOUS
<1>8. B(n) \in Nat /\ B(k) <= B(n)
  BY <1>6, <1>7, Zenon
<1>. QED BY <1>3, <1>8, Zenon DEF B

\* Every part stands at its place.
LEMMA AtPart ==
  ASSUME NEW S, NEW ss \in Seq(Seq(S)), NEW k \in 1 .. Len(ss)
  PROVE At(Concat(ss), Before(ss, k), ss[k])
<1>. DEFINE w == Concat(ss)
            B == Before(ss, k)
            l == Len(ss[k])
<1>1. w \in Seq(S) /\ Holds(w, ss, Len(ss))
  BY ConcatIs, ConcatHolds, Zenon
<1>2. ss[k] \in Seq(S) /\ l \in Nat
  BY LensAre, Zenon
<1>3. B \in Nat
  BY PartsPlaced, Zenon DEF Placed
<1>4. ASSUME NEW j \in 1 .. l PROVE B + j \in 1 .. Len(w) /\ w[B + j] = ss[k][j]
  BY <1>1, Zenon DEF Holds, Found
<1>5. Len(w) \in Nat
  BY <1>1
<1>. HIDE DEF w, B, l
<1>6. CASE l # 0
  <2>1. l \in 1 .. l
    BY <1>2, <1>6
  <2>2. B + l \in 1 .. Len(w)
    BY <1>4, <2>1, Zenon
  <2>3. B + l <= Len(w)
    BY <1>5, <2>2
  <2>. QED BY <1>3, <1>4, <2>3, Zenon DEF At, w, B, l
<1>7. CASE l = 0
  <2>1. B <= Len(w)
    <3>1. Len(ss) + 1 \in k .. Len(ss) + 1 /\ k \in 1 .. Len(ss) + 1
      OBVIOUS
    <3>2. B <= Before(ss, Len(ss) + 1)
      BY <3>1, BeforeGrows, Zenon DEF B
    <3>3. Len(w) = Before(ss, Len(ss) + 1)
      BY <1>1, Zenon DEF Holds
    <3>. QED BY <3>2, <3>3, Zenon
  <2>2. B + l = B /\ \A j : j \notin 1 .. l
    BY <1>3, <1>7
  <2>. QED BY <1>3, <2>1, <2>2, Zenon DEF At, w, B, l
<1>. QED BY <1>6, <1>7, Zenon

\* Parts of one length.
LEMMA Strides ==
  ASSUME NEW S, NEW ss \in Seq(Seq(S)), NEW c \in Nat, \A k \in 1 .. Len(ss) : Len(ss[k]) = c,
         NEW n \in 1 .. Len(ss) + 1
  PROVE Before(ss, n) = c * (n - 1)
<1>. DEFINE B(m) == Before(ss, m)
            T == {m \in Nat : m \in 0 .. Len(ss) => B(m + 1) = c * m}
<1>0. Len(ss) \in Nat
  OBVIOUS
<1>1. ASSUME NEW m \in 1 .. Len(ss) PROVE B(m) \in Nat /\ B(m + 1) = B(m) + c
  <2>1. Placed(ss, m) /\ Len(ss[m]) = c
    BY PartsPlaced, Zenon
  <2>. QED BY <2>1, Zenon DEF Placed
<1>2. B(1) = 0
  <2>1. 1 - 1 = 0
    OBVIOUS
  <2>. QED BY <2>1, TotalNone, Zenon DEF Before
<1>. HIDE DEF B
<1>3. 0 \in T
  BY <1>2
<1>4. ASSUME NEW m \in Nat, m \in T PROVE m + 1 \in T
  <2>. SUFFICES ASSUME m + 1 \in 0 .. Len(ss) PROVE B((m + 1) + 1) = c * (m + 1)
    OBVIOUS
  <2>1. m \in 0 .. Len(ss) /\ m + 1 \in 1 .. Len(ss)
    BY <1>0
  <2>2. B(m + 1) = c * m /\ B((m + 1) + 1) = B(m + 1) + c
    BY <1>1, <1>4, <2>1, Zenon
  <2>3. c * m + c = c * (m + 1)
    OBVIOUS
  <2>. QED BY <2>2, <2>3, Zenon
<1>5. \A m \in Nat : m \in T
  <2>. HIDE DEF T
  <2>. QED BY <1>3, <1>4, SetInduction, Zenon
<1>6. n - 1 \in Nat /\ n - 1 \in 0 .. Len(ss) /\ (n - 1) + 1 = n
  BY <1>0
<1>7. B(n) = c * (n - 1)
  BY <1>5, <1>6, Zenon
<1>. QED BY <1>7, Zenon DEF B

-----------------------------------------------------------------------------
(* Packets *)

Packet == {p \in Seq(Entry) : Len(p) < U16}

\* The parts of a packet.
HeaderOf(p) == <<Len(p), Offset(p, Len(p) + 1), 0, 0>>
Heads(p) == [i \in DOMAIN p |-> EntryHeader(p, i)]
Loads(p) == [i \in DOMAIN p |-> Payload(p[i])]

\* The provers need not know its value.
LEMMA U16Is == U16 \in Nat /\ U16 > 0
BY SMT DEF U16

\* What an entry is.
Fields(e) == e.id \in 0 .. U16 - 1 /\ e.ts \in Nat /\ e.len \in 0 .. U16 - 1 /\ e.len \in Nat /\ e.id \in Nat

\* The entries of a packet.
LEMMA EntriesAre ==
  ASSUME NEW p \in Packet
  PROVE /\ p \in Seq(Entry) /\ Len(p) \in Nat /\ Len(p) < U16 /\ DOMAIN p = 1 .. Len(p)
        /\ \A i \in 1 .. Len(p) : p[i] \in Entry /\ Fields(p[i])
<1>1. p \in Seq(Entry) /\ Len(p) \in Nat /\ Len(p) < U16 /\ DOMAIN p = 1 .. Len(p)
  BY DEF Packet
<1>2. ASSUME NEW i \in 1 .. Len(p) PROVE p[i] \in Entry
  BY <1>1
<1>3. ASSUME NEW e \in Entry PROVE Fields(e)
  BY U16Is, SMT DEF Fields, Entry
<1>. QED BY <1>1, <1>2, <1>3, Zenon

\* A payload has the length its entry says.
LEMMA PayloadIs ==
  ASSUME NEW e, Fields(e)
  PROVE Payload(e) \in Seq(Nat) /\ Len(Payload(e)) = e.len
BY DEF Payload, Fields

\* The payloads of a packet.
LEMMA LoadsAre ==
  ASSUME NEW p \in Packet
  PROVE /\ Loads(p) \in Seq(Seq(Nat)) /\ Len(Loads(p)) = Len(p)
        /\ \A i \in 1 .. Len(p) : Loads(p)[i] = Payload(p[i]) /\ Len(Loads(p)[i]) = p[i].len
<1>1. Len(p) \in Nat /\ DOMAIN p = 1 .. Len(p)
  BY EntriesAre, Zenon
<1>. DEFINE n == Len(p)
<1>2. ASSUME NEW i \in 1 .. n PROVE Payload(p[i]) \in Seq(Nat) /\ Len(Payload(p[i])) = p[i].len
  BY EntriesAre, PayloadIs, Zenon
<1>3. Loads(p) = [i \in 1 .. n |-> Payload(p[i])]
  BY <1>1, Zenon DEF Loads
<1>4. Loads(p) \in [1 .. n -> Seq(Nat)] /\ \A i \in 1 .. n : Loads(p)[i] = Payload(p[i])
  BY <1>2, <1>3, Zenon
<1>5. \A i \in 1 .. n : Len(Loads(p)[i]) = p[i].len
  BY <1>2, <1>4, Zenon
<1>. DEFINE Q == Seq(Nat)
<1>6. Loads(p) \in [1 .. n -> Q] /\ n \in Nat
  BY <1>1, <1>4, Zenon
<1>. HIDE DEF n, Q
<1>7. Loads(p) \in Seq(Q) /\ Len(Loads(p)) = n
  BY <1>6
<1>. QED BY <1>4, <1>5, <1>7, Zenon DEF n, Q

\* Offset is where a payload begins among the payloads.
LEMMA OffsetIs ==
  ASSUME NEW p \in Packet, NEW k \in 1 .. Len(p) + 1
  PROVE Offset(p, k) = Before(Loads(p), k) /\ Offset(p, k) \in Nat
<1>. DEFINE L == Loads(p)
<1>1. L \in Seq(Seq(Nat)) /\ Len(L) = Len(p) /\ Len(p) \in Nat
  BY LoadsAre, EntriesAre, Zenon
<1>2. ASSUME NEW j \in 1 .. k - 1 PROVE Lens(L)[j] = p[j].len
  <2>1. j \in 1 .. Len(p)
    BY <1>1
  <2>2. Len(L[j]) = p[j].len
    BY <2>1, LoadsAre, Zenon
  <2>3. j \in 1 .. Len(L)
    BY <1>1, <2>1, Zenon
  <2>. HIDE DEF L
  <2>4. Lens(L)[j] = Len(L[j])
    BY <1>1, <2>3, LensAre, Zenon
  <2>. QED BY <2>2, <2>4, Zenon
<1>3. First(Lens(L), k - 1) = [j \in 1 .. k - 1 |-> p[j].len]
  BY <1>2, Zenon DEF First
<1>4. Offset(p, k) = Before(L, k)
  BY <1>3, Zenon DEF Offset, Before
<1>5. Before(L, k) \in Nat
  <2>1. k \in 1 .. Len(L) + 1 /\ k \in k .. Len(L) + 1
    BY <1>1
  <2>. HIDE DEF L
  <2>. QED BY <1>1, <2>1, BeforeGrows, Zenon
<1>. QED BY <1>4, <1>5, Zenon

\* The entry headers of a packet.
LEMMA HeadsAre ==
  ASSUME NEW p \in Packet
  PROVE /\ Heads(p) \in Seq(Seq(Nat)) /\ Len(Heads(p)) = Len(p)
        /\ \A i \in 1 .. Len(p) : Heads(p)[i] = EntryHeader(p, i) /\ Len(Heads(p)[i]) = 4
<1>1. Len(p) \in Nat /\ DOMAIN p = 1 .. Len(p)
  BY EntriesAre, Zenon
<1>. DEFINE n == Len(p)
<1>2. ASSUME NEW i \in 1 .. n PROVE EntryHeader(p, i) \in Seq(Nat) /\ Len(EntryHeader(p, i)) = 4
  <2>1. Fields(p[i])
    BY EntriesAre, Zenon
  <2>2. i \in 1 .. Len(p) + 1
    BY <1>1
  <2>3. Offset(p, i) \in Nat
    BY <2>2, OffsetIs, Zenon
  <2>4. p[i].id + U16 * p[i].len \in Nat /\ p[i].ts \in Nat
    BY <2>1, U16Is, SMTT(30) DEF Fields
  <2>. DEFINE a == p[i].id + U16 * p[i].len
              b == Offset(p, i)
              c == p[i].ts
  <2>5. EntryHeader(p, i) = <<a, b, c, 0>>
    BY Zenon DEF EntryHeader
  <2>6. a \in Nat /\ b \in Nat /\ c \in Nat
    BY <2>3, <2>4, Zenon
  <2>. HIDE DEF a, b, c
  <2>. QED BY <2>5, <2>6
<1>3. Heads(p) = [i \in 1 .. n |-> EntryHeader(p, i)]
  BY <1>1, Zenon DEF Heads
<1>4. Heads(p) \in [1 .. n -> Seq(Nat)] /\ \A i \in 1 .. n : Heads(p)[i] = EntryHeader(p, i)
  BY <1>2, <1>3, Zenon
<1>5. \A i \in 1 .. n : Len(Heads(p)[i]) = 4
  BY <1>2, <1>4, Zenon
<1>. DEFINE Q == Seq(Nat)
<1>6. Heads(p) \in [1 .. n -> Q] /\ n \in Nat
  BY <1>1, <1>4, Zenon
<1>. HIDE DEF n, Q
<1>7. Heads(p) \in Seq(Q) /\ Len(Heads(p)) = n
  BY <1>6
<1>. QED BY <1>4, <1>5, <1>7, Zenon DEF n, Q

\* The layout of a packet.
Laid(w, p) ==
  /\ w \in Seq(Nat) /\ Len(w) = 4 + 4 * Len(p) + Offset(p, Len(p) + 1)
  /\ At(w, 0, HeaderOf(p))
  /\ \A i \in 1 .. Len(p) : /\ At(w, 4 + 4 * (i - 1), EntryHeader(p, i))
                            /\ At(w, 4 + 4 * Len(p) + Offset(p, i), Payload(p[i]))

\* build_packet lays a packet out so.
LEMMA PacketLaid ==
  ASSUME NEW p \in Packet
  PROVE Laid(PacketWords(p), p)
<1>. DEFINE n == Len(p)
            h == HeaderOf(p)
            H == Heads(p)
            L == Loads(p)
            a == Concat(H)
            b == Concat(L)
            w == PacketWords(p)
<1>1. n \in Nat /\ n + 1 \in 1 .. n + 1
  BY EntriesAre
<1>2. Offset(p, n + 1) \in Nat /\ Offset(p, n + 1) = Before(L, n + 1)
  BY <1>1, OffsetIs, Zenon
<1>3. h \in Seq(Nat) /\ Len(h) = 4
  <2>. DEFINE o == Offset(p, n + 1)
  <2>1. h = <<n, o, 0, 0>> /\ o \in Nat
    BY <1>2, Zenon DEF HeaderOf
  <2>. HIDE DEF o, n, h
  <2>. QED BY <1>1, <2>1
<1>4. w = (h \o a) \o b
  BY Zenon DEF PacketWords, HeaderOf, Heads, Loads
<1>5. H \in Seq(Seq(Nat)) /\ Len(H) = n /\ \A i \in 1 .. n : H[i] = EntryHeader(p, i) /\ Len(H[i]) = 4
  BY HeadsAre, Zenon
<1>6. L \in Seq(Seq(Nat)) /\ Len(L) = n /\ \A i \in 1 .. n : L[i] = Payload(p[i])
  BY LoadsAre, Zenon
<1>7. ASSUME NEW i \in 1 .. n PROVE Offset(p, i) = Before(L, i) /\ Offset(p, i) \in Nat
  <2>1. i \in 1 .. Len(p) + 1
    BY <1>1
  <2>. QED BY <2>1, OffsetIs, Zenon
<1>. HIDE DEF n, h, H, L, w
<1>8. a \in Seq(Nat) /\ b \in Seq(Nat) /\ Holds(a, H, n) /\ Holds(b, L, n)
  BY <1>5, <1>6, ConcatIs, ConcatHolds, Zenon
<1>9. ASSUME NEW i \in 1 .. n + 1 PROVE Before(H, i) = 4 * (i - 1)
  <2>1. 4 \in Nat /\ i \in 1 .. Len(H) + 1 /\ \A k \in 1 .. Len(H) : Len(H[k]) = 4
    BY <1>5, Zenon
  <2>. QED BY <1>5, <2>1, Strides, Zenon
<1>10. Len(a) = 4 * n /\ Len(b) = Offset(p, n + 1)
  <2>1. Len(a) = Before(H, n + 1) /\ Len(b) = Before(L, n + 1)
    BY <1>8, Zenon DEF Holds
  <2>2. Before(H, n + 1) = 4 * ((n + 1) - 1) /\ (n + 1) - 1 = n
    BY <1>1, <1>9
  <2>. QED BY <1>2, <2>1, <2>2, Zenon
<1>. HIDE DEF a, b
<1>. DEFINE ha == h \o a
<1>11. ha \in Seq(Nat) /\ Len(ha) = 4 + 4 * n
  <2>1. h \in Seq(Nat) /\ a \in Seq(Nat)
    BY <1>3, <1>8, Zenon
  <2>2. ha \in Seq(Nat) /\ Len(ha) = Len(h) + Len(a)
    BY <2>1
  <2>. QED BY <1>3, <1>10, <2>2, Zenon
<1>12. w \in Seq(Nat) /\ Len(w) = 4 + 4 * n + Offset(p, n + 1)
  <2>. HIDE DEF ha
  <2>1. w = ha \o b
    BY <1>4, Zenon DEF ha
  <2>2. ha \in Seq(Nat) /\ b \in Seq(Nat)
    BY <1>8, <1>11, Zenon
  <2>3. w \in Seq(Nat) /\ Len(w) = Len(ha) + Len(b)
    BY <2>1, <2>2
  <2>. QED BY <1>10, <1>11, <2>3, Zenon
<1>13. At(w, 0, h)
  <2>1. At(h, 0, h)
    BY <1>3, AtSelf, Zenon
  <2>2. At(ha, 0, h)
    BY <1>3, <1>8, <2>1, AtLeft, Zenon
  <2>. QED BY <1>3, <1>4, <1>8, <1>11, <2>2, AtLeft, Zenon
<1>14. ASSUME NEW i \in 1 .. n PROVE At(w, 4 + 4 * (i - 1), EntryHeader(p, i))
  <2>. DEFINE e == EntryHeader(p, i)
  <2>1. e \in Seq(Nat) /\ e = H[i] /\ i \in 1 .. Len(H)
    <3>1. i \in 1 .. Len(H) /\ e = H[i]
      BY <1>5, Zenon
    <3>2. H[i] \in Seq(Nat)
      BY <1>5, <3>1, LensAre, Zenon
    <3>. QED BY <3>1, <3>2, Zenon
  <2>2. At(a, Before(H, i), e)
    BY <1>5, <2>1, AtPart, Zenon DEF a
  <2>3. i \in 1 .. n + 1
    BY <1>1
  <2>4. Before(H, i) = 4 * (i - 1)
    BY <1>9, <2>3, Zenon
  <2>. HIDE DEF e
  <2>5. At(ha, Len(h) + Before(H, i), e)
    BY <1>3, <1>8, <2>1, <2>2, AtRight, Zenon
  <2>6. At(w, Len(h) + Before(H, i), e)
    BY <1>4, <1>8, <1>11, <2>1, <2>5, AtLeft, Zenon
  <2>. QED BY <1>3, <2>4, <2>6, Zenon DEF e
<1>15. ASSUME NEW i \in 1 .. n PROVE At(w, 4 + 4 * n + Offset(p, i), Payload(p[i]))
  <2>. DEFINE e == Payload(p[i])
  <2>1. e \in Seq(Nat) /\ e = L[i] /\ i \in 1 .. Len(L)
    <3>1. i \in 1 .. Len(L) /\ e = L[i]
      BY <1>6, Zenon
    <3>2. L[i] \in Seq(Nat)
      BY <1>6, <3>1, LensAre, Zenon
    <3>. QED BY <3>1, <3>2, Zenon
  <2>2. At(b, Before(L, i), e)
    BY <1>6, <2>1, AtPart, Zenon DEF b
  <2>. HIDE DEF e
  <2>3. At(ha \o b, Len(ha) + Before(L, i), e)
    BY <1>8, <1>11, <2>1, <2>2, AtRight, Zenon
  <2>. QED BY <1>4, <1>7, <1>11, <2>3, Zenon DEF e
<1>. QED BY <1>12, <1>13, <1>14, <1>15, Zenon DEF Laid, n, h, w

-----------------------------------------------------------------------------
(* The range of a packet *)

\* One of finitely many numbers is the greatest.
LEMMA HasGreatest ==
  ASSUME NEW s \in Seq(Nat), Len(s) # 0
  PROVE \E a \in 1 .. Len(s) : \A i \in 1 .. Len(s) : s[i] <= s[a]
<1>. DEFINE Top(m, a) == \A i \in 1 .. Len(s) : i <= m => s[i] <= s[a]
            T == {m \in Nat : m + 1 \in 1 .. Len(s) => \E a \in 1 .. Len(s) : Top(m + 1, a)}
<1>0. Len(s) \in Nat /\ \A i \in 1 .. Len(s) : s[i] \in Nat
  OBVIOUS
<1>1. 0 \in T
  <2>1. 1 \in 1 .. Len(s) /\ Top(1, 1)
    BY <1>0
  <2>2. 0 + 1 = 1
    OBVIOUS
  <2>. HIDE DEF Top
  <2>. QED BY <2>1, <2>2, Zenon
<1>2. ASSUME NEW m \in Nat, m \in T PROVE m + 1 \in T
  <2>. SUFFICES ASSUME (m + 1) + 1 \in 1 .. Len(s) PROVE \E a \in 1 .. Len(s) : Top((m + 1) + 1, a)
    <3>. HIDE DEF Top
    <3>. QED OBVIOUS
  <2>. DEFINE k == (m + 1) + 1
  <2>1. m + 1 \in 1 .. Len(s)
    BY <1>0
  <2>2. PICK a \in 1 .. Len(s) : Top(m + 1, a)
    <3>. HIDE DEF Top
    <3>. QED BY <1>2, <2>1, Zenon
  <2>3. s[a] \in Nat /\ s[k] \in Nat /\ k \in Nat
    <3>1. k \in Nat
      OBVIOUS
    <3>. QED BY <1>0, <3>1, Zenon
  <2>4. CASE s[k] <= s[a]
    <3>1. ASSUME NEW i \in 1 .. Len(s), i <= k PROVE s[i] <= s[a]
      <4>1. i = k \/ i <= m + 1
        BY <3>1
      <4>. QED BY <2>2, <2>4, <4>1, Zenon
    <3>. QED BY <3>1, Zenon
  <2>5. CASE ~(s[k] <= s[a])
    <3>1. ASSUME NEW i \in 1 .. Len(s), i <= k PROVE s[i] <= s[k]
      <4>1. i = k \/ i <= m + 1
        BY <3>1
      <4>2. CASE i <= m + 1
        <5>1. s[i] <= s[a] /\ s[i] \in Nat
          BY <1>0, <2>2, <4>2, Zenon
        <5>2. ~(s[k] <= s[a])
          BY <2>5, Zenon
        <5>. HIDE DEF k, Top, T
        <5>. QED BY <2>3, <5>1, <5>2, SMTT(30)
      <4>3. CASE i = k
        <5>. HIDE DEF k
        <5>. QED BY <2>3, <4>3
      <4>. QED BY <4>1, <4>2, <4>3, Zenon
    <3>. QED BY <3>1, Zenon
  <2>. QED BY <2>4, <2>5, Zenon
<1>3. \A m \in Nat : m \in T
  <2>. HIDE DEF T
  <2>. QED BY <1>1, <1>2, SetInduction, Zenon
<1>4. Len(s) - 1 \in Nat /\ (Len(s) - 1) + 1 = Len(s) /\ Len(s) \in 1 .. Len(s)
  BY <1>0
<1>5. PICK a \in 1 .. Len(s) : Top(Len(s), a)
  <2>. HIDE DEF Top
  <2>. QED BY <1>3, <1>4, Zenon
<1>6. \A i \in 1 .. Len(s) : i <= Len(s)
  BY <1>0
<1>. QED BY <1>5, <1>6, Zenon

\* A range that holds the times of the entries.
Spans(r, p) ==
  /\ r.min \in Nat /\ r.max \in Nat
  /\ \A i \in 1 .. Len(p) : r.min <= p[i].ts /\ p[i].ts <= r.max

\* TsRange is one.
LEMMA TsRangeSpans ==
  ASSUME NEW p, NEW n \in Nat, Len(p) = n, DOMAIN p = 1 .. n, p = <<>> <=> n = 0,
         \A i \in 1 .. n : p[i].ts \in Nat
  PROVE Spans(TsRange(p), p)
<1>. DEFINE R == Stamps(p)
<1>1. CASE n = 0
  <2>1. TsRange(p) = [min |-> 0, max |-> 0]
    BY <1>1, Zenon DEF TsRange
  <2>2. TsRange(p).min = 0 /\ TsRange(p).max = 0 /\ 0 \in Nat /\ \A i : i \notin 1 .. Len(p)
    BY <1>1, <2>1
  <2>. QED BY <2>2, Zenon DEF Spans
<1>2. CASE n # 0
  <2>. DEFINE s == [i \in 1 .. n |-> p[i].ts]
  <2>1. R = {p[i].ts : i \in 1 .. n}
    BY Zenon DEF Stamps
  <2>2. R \in SUBSET Nat
    BY <2>1, Zenon
  <2>3. \A i \in 1 .. n : p[i].ts \in R
    BY <2>1, Zenon
  <2>4. 1 \in 1 .. n
    BY <1>2
  <2>5. R # {}
    BY <2>3, <2>4, Zenon
  <2>6. s \in Seq(Nat) /\ Len(s) = n /\ \A i \in 1 .. n : s[i] = p[i].ts
    OBVIOUS
  <2>. HIDE DEF s, R
  <2>7. PICK a \in 1 .. n : \A i \in 1 .. n : s[i] <= s[a]
    BY <1>2, <2>6, HasGreatest, Zenon
  <2>8. p[a].ts \in R /\ \A y \in R : y <= p[a].ts
    BY <2>1, <2>3, <2>6, <2>7, ZenonT(30)
  <2>9. Max(R) \in R /\ \A y \in R : y <= Max(R)
    <3>1. \E x \in R : \A y \in R : x >= y
      BY <2>2, <2>8
    <3>2. Max(R) \in R /\ \A y \in R : Max(R) >= y
      BY <3>1, Zenon DEF Max
    <3>. QED BY <2>2, <3>2
  <2>10. Min(R) \in R /\ \A y \in R : Min(R) <= y
    <3>1. \E x \in R : \A y \in R : x <= y
      BY <2>2, <2>5, MinOfNats, Zenon
    <3>. QED BY <3>1, Zenon DEF Min
  <2>11. TsRange(p).min = Min(R) /\ TsRange(p).max = Max(R)
    <3>. DEFINE x == Min(R)
                y == Max(R)
    <3>1. TsRange(p) = [min |-> x, max |-> y]
      BY <1>2, Zenon DEF TsRange, R
    <3>. HIDE DEF x, y
    <3>2. TsRange(p).min = x /\ TsRange(p).max = y
      BY <3>1
    <3>. QED BY <3>2, Zenon DEF x, y
  <2>12. Min(R) \in Nat /\ Max(R) \in Nat /\ \A i \in 1 .. n : Min(R) <= p[i].ts /\ p[i].ts <= Max(R)
    BY <2>2, <2>3, <2>9, <2>10, Zenon
  <2>. QED BY <2>11, <2>12, Zenon DEF Spans
<1>. QED BY <1>1, <1>2, Zenon

\* The range of a packet.
LEMMA PacketSpans ==
  ASSUME NEW p \in Packet
  PROVE Spans(TsRange(p), p)
<1>1. p \in Seq(Entry) /\ Len(p) \in Nat /\ DOMAIN p = 1 .. Len(p)
  BY EntriesAre, Zenon
<1>2. \A i \in 1 .. Len(p) : p[i].ts \in Nat
  BY EntriesAre, Zenon DEF Fields
<1>3. p = <<>> <=> Len(p) = 0
  BY <1>1
<1>. QED BY <1>1, <1>2, <1>3, TsRangeSpans, Zenon

-----------------------------------------------------------------------------
(* The file *)

Words(ps) == [k \in DOMAIN ps |-> PacketWords(ps[k])]
Body(ps)  == Preamble \o Concat(Words(ps))
Lines(ps) == [k \in DOMAIN ps |-> IndexLine(RustEntry(ps, k))]
Foot(ps)  == <<PacketStart(ps, Len(ps) + 1), 0, Len(ps), Magic>>
Trailer(ps) == Concat(Lines(ps)) \o Foot(ps)

\* The words of the packets.
LEMMA WordsAre ==
  ASSUME NEW ps \in Seq(Packet)
  PROVE /\ Words(ps) \in Seq(Seq(Nat)) /\ Len(Words(ps)) = Len(ps) /\ Len(ps) \in Nat
        /\ \A k \in 1 .. Len(ps) : Words(ps)[k] = PacketWords(ps[k]) /\ ps[k] \in Packet
<1>. DEFINE n == Len(ps)
            Q == Seq(Nat)
            W == Words(ps)
<1>1. n \in Nat /\ DOMAIN ps = 1 .. n /\ \A k \in 1 .. n : ps[k] \in Packet
  OBVIOUS
<1>2. ASSUME NEW k \in 1 .. n PROVE PacketWords(ps[k]) \in Q
  BY <1>1, PacketLaid, Zenon DEF Laid
<1>3. W = [k \in 1 .. n |-> PacketWords(ps[k])]
  BY <1>1, Zenon DEF Words
<1>4. W \in [1 .. n -> Q] /\ \A k \in 1 .. n : W[k] = PacketWords(ps[k])
  BY <1>2, <1>3, Zenon
<1>. HIDE DEF n, Q, W
<1>5. W \in Seq(Q) /\ Len(W) = n
  BY <1>1, <1>4
<1>. QED BY <1>1, <1>4, <1>5, Zenon DEF n, Q, W

\* Where packets start.
LEMMA StartIs ==
  ASSUME NEW ps \in Seq(Packet), NEW k \in 1 .. Len(ps) + 1
  PROVE PacketStart(ps, k) = DataStart + Before(Words(ps), k) /\ Before(Words(ps), k) \in Nat
<1>. DEFINE W == Words(ps)
<1>1. /\ W \in Seq(Seq(Nat)) /\ Len(W) = Len(ps) /\ Len(ps) \in Nat
      /\ \A i \in 1 .. Len(ps) : W[i] = PacketWords(ps[i])
  BY WordsAre, Zenon
<1>. HIDE DEF W
<1>2. ASSUME NEW i \in 1 .. k - 1 PROVE Lens(W)[i] = Len(PacketWords(ps[i]))
  <2>1. i \in 1 .. Len(ps)
    BY <1>1
  <2>2. W \in Seq(Seq(Nat)) /\ i \in 1 .. Len(W)
    BY <1>1, <2>1, Zenon
  <2>3. Lens(W)[i] = Len(W[i])
    BY <2>2, LensAre, ZenonT(30)
  <2>4. W[i] = PacketWords(ps[i])
    BY <1>1, <2>1, Zenon
  <2>. QED BY <2>3, <2>4, Zenon
<1>3. First(Lens(W), k - 1) = [i \in 1 .. k - 1 |-> Len(PacketWords(ps[i]))]
  BY <1>2, Zenon DEF First
<1>4. PacketStart(ps, k) = DataStart + Before(W, k)
  BY <1>3, Zenon DEF PacketStart, Before
<1>5. Before(W, k) \in Nat
  <2>1. k \in 1 .. Len(W) + 1 /\ k \in k .. Len(W) + 1
    BY <1>1
  <2>. QED BY <1>1, <2>1, BeforeGrows, Zenon
<1>. QED BY <1>4, <1>5, Zenon DEF W

\* The place of a packet in the file.
Starts(ps, k) ==
  /\ PacketStart(ps, 1) = DataStart
  /\ PacketStart(ps, k) \in Nat /\ PacketStart(ps, k + 1) \in Nat
  /\ Len(PacketWords(ps[k])) \in Nat /\ 4 <= Len(PacketWords(ps[k]))
  /\ PacketStart(ps, k + 1) = PacketStart(ps, k) + Len(PacketWords(ps[k]))

\* A packet starts where the one before it ends, and is not empty.
LEMMA PacketStarts ==
  ASSUME NEW ps \in Seq(Packet), NEW k \in 1 .. Len(ps)
  PROVE Starts(ps, k)
<1>. DEFINE W == Words(ps)
            w == PacketWords(ps[k])
            l == Len(w)
            B(i) == Before(W, i)
<1>1. /\ W \in Seq(Seq(Nat)) /\ Len(W) = Len(ps) /\ Len(ps) \in Nat
      /\ W[k] = w /\ ps[k] \in Packet
  BY WordsAre, Zenon
<1>2. Laid(w, ps[k])
  BY <1>1, PacketLaid, Zenon
<1>3. l \in Nat /\ 4 <= l
  <2>. DEFINE m == Len(ps[k])
              o == Offset(ps[k], m + 1)
  <2>1. m \in Nat /\ m + 1 \in 1 .. m + 1
    BY <1>1, EntriesAre
  <2>2. o \in Nat
    BY <1>1, <2>1, OffsetIs, Zenon
  <2>3. l = 4 + 4 * m + o
    BY <1>2, Zenon DEF Laid
  <2>. HIDE DEF m, o, l
  <2>. QED BY <2>1, <2>2, <2>3
<1>4. Placed(W, k)
  BY <1>1, PartsPlaced, Zenon
<1>5. B(1) = 0 /\ B(k) \in Nat /\ B(k + 1) \in Nat /\ B(k + 1) = B(k) + l
  BY <1>1, <1>4, Zenon DEF Placed
<1>6. k \in 1 .. Len(ps) + 1 /\ k + 1 \in 1 .. Len(ps) + 1 /\ 1 \in 1 .. Len(ps) + 1
  BY <1>1
<1>7. /\ PacketStart(ps, 1) = DataStart + B(1)
      /\ PacketStart(ps, k) = DataStart + B(k)
      /\ PacketStart(ps, k + 1) = DataStart + B(k + 1)
  BY <1>6, StartIs, Zenon
<1>8. DataStart \in Nat
  BY FileAssumption, Zenon
<1>. HIDE DEF W, w, l, B
<1>9. /\ DataStart + B(1) = DataStart
      /\ DataStart + B(k) \in Nat /\ DataStart + B(k + 1) \in Nat
      /\ DataStart + B(k + 1) = (DataStart + B(k)) + l
  <2>. DEFINE x == B(k)
              y == B(k + 1)
  <2>1. x \in Nat /\ y \in Nat /\ y = x + l /\ B(1) = 0
    BY <1>5, Zenon
  <2>. HIDE DEF x, y
  <2>2. DataStart + B(1) = DataStart /\ DataStart + x \in Nat /\ DataStart + y \in Nat /\ DataStart + y = (DataStart + x) + l
    BY <1>3, <1>8, <2>1
  <2>. QED BY <2>2, Zenon DEF x, y
<1>. QED BY <1>3, <1>7, <1>9, Zenon DEF Starts, l, w

\* The packets stand in the body at their places, and nothing follows.
InBody(f, ps) ==
  /\ f \in Seq(Nat) /\ Len(f) = PacketStart(ps, Len(ps) + 1)
  /\ PacketStart(ps, Len(ps) + 1) \in Nat /\ DataStart <= PacketStart(ps, Len(ps) + 1)
  /\ \A k \in 1 .. Len(ps) : At(f, PacketStart(ps, k), PacketWords(ps[k]))

\* The preamble.
LEMMA PreambleIs ==
  Preamble \in Seq(Nat) /\ Len(Preamble) = DataStart /\ DataStart \in Nat /\ DataStart > 0
<1>1. DataStart \in Nat \ {0}
  BY FileAssumption, Zenon
<1>. QED BY <1>1 DEF Preamble, Filler

\* write_packet builds such a body.
LEMMA BodyLaid ==
  ASSUME NEW ps \in Seq(Packet)
  PROVE InBody(Body(ps), ps)
<1>. DEFINE W == Words(ps)
            n == Len(ps)
            c == Concat(W)
            f == Body(ps)
            E == PacketStart(ps, n + 1)
<1>1. /\ W \in Seq(Seq(Nat)) /\ Len(W) = n /\ n \in Nat
      /\ \A k \in 1 .. n : W[k] = PacketWords(ps[k]) /\ ps[k] \in Packet
  BY WordsAre, Zenon
<1>2. f = Preamble \o c
  BY Zenon DEF Body
<1>3. ASSUME NEW k \in 1 .. n + 1 PROVE PacketStart(ps, k) = DataStart + Before(W, k) /\ Before(W, k) \in Nat
  BY StartIs, Zenon
<1>. HIDE DEF W, n, f
<1>4. c \in Seq(Nat) /\ Holds(c, W, n)
  BY <1>1, ConcatIs, ConcatHolds, Zenon
<1>5. Len(c) = Before(W, n + 1)
  BY <1>4, Zenon DEF Holds
<1>6. n + 1 \in 1 .. n + 1
  BY <1>1
<1>7. E = DataStart + Len(c) /\ Len(c) \in Nat
  BY <1>3, <1>5, <1>6, Zenon
<1>8. Preamble \in Seq(Nat) /\ Len(Preamble) = DataStart /\ DataStart \in Nat
  BY PreambleIs, Zenon
<1>9. f \in Seq(Nat) /\ Len(f) = DataStart + Len(c)
  <2>. HIDE DEF c
  <2>1. Preamble \in Seq(Nat) /\ c \in Seq(Nat)
    BY <1>4, <1>8, Zenon
  <2>2. f \in Seq(Nat) /\ Len(f) = Len(Preamble) + Len(c)
    BY <1>2, <2>1
  <2>. QED BY <1>8, <2>2, Zenon
<1>10. E \in Nat /\ DataStart <= E
  <2>. HIDE DEF c, E
  <2>. QED BY <1>7, <1>8
<1>11. ASSUME NEW k \in 1 .. n PROVE At(f, PacketStart(ps, k), PacketWords(ps[k]))
  <2>1. k \in 1 .. n + 1
    BY <1>1
  <2>. DEFINE w == PacketWords(ps[k])
  <2>2. w = W[k] /\ k \in 1 .. Len(W)
    BY <1>1, Zenon
  <2>3. W[k] \in Seq(Nat)
    BY <1>1, <2>2, LensAre, Zenon
  <2>4. At(c, Before(W, k), w)
    BY <1>1, <2>2, AtPart, Zenon
  <2>5. w \in Seq(Nat)
    BY <2>2, <2>3, Zenon
  <2>. HIDE DEF w, c
  <2>6. At(f, Len(Preamble) + Before(W, k), w)
    BY <1>2, <1>4, <1>8, <2>4, <2>5, AtRight, Zenon
  <2>. QED BY <1>3, <1>8, <2>1, <2>6, Zenon DEF w
<1>. QED BY <1>7, <1>9, <1>10, <1>11, Zenon DEF InBody, n, f, E

\* The lines of the index.
LEMMA LinesAre ==
  ASSUME NEW ps \in Seq(Packet)
  PROVE /\ Lines(ps) \in Seq(Seq(Nat)) /\ Len(Lines(ps)) = Len(ps)
        /\ \A k \in 1 .. Len(ps) : Lines(ps)[k] = IndexLine(RustEntry(ps, k)) /\ Len(Lines(ps)[k]) = 7
<1>. DEFINE n == Len(ps)
            Q == Seq(Nat)
            L == Lines(ps)
<1>1. n \in Nat /\ DOMAIN ps = 1 .. n /\ \A k \in 1 .. n : ps[k] \in Packet
  OBVIOUS
<1>2. ASSUME NEW k \in 1 .. n PROVE IndexLine(RustEntry(ps, k)) \in Q /\ Len(IndexLine(RustEntry(ps, k))) = 7
  <2>. DEFINE a == PacketStart(ps, k)
              b == TsRange(ps[k]).min
              c == TsRange(ps[k]).max
              d == Len(ps[k])
              e == RustEntry(ps, k)
  <2>1. a \in Nat
    BY PacketStarts, Zenon DEF Starts
  <2>2. b \in Nat /\ c \in Nat
    BY <1>1, PacketSpans, Zenon DEF Spans
  <2>3. d \in Nat
    BY <1>1, EntriesAre, Zenon
  <2>4. e = [offset |-> a, min |-> b, max |-> c, n |-> d]
    BY Zenon DEF RustEntry
  <2>5. IndexLine(e) = <<e.offset, 0, e.min, 0, e.max, 0, e.n>>
    BY Zenon DEF IndexLine
  <2>. HIDE DEF a, b, c, d, e
  <2>6. IndexLine(e) = <<a, 0, b, 0, c, 0, d>>
    BY <2>4, <2>5
  <2>7. <<a, 0, b, 0, c, 0, d>> \in Seq(Nat) /\ Len(<<a, 0, b, 0, c, 0, d>>) = 7
    BY <2>1, <2>2, <2>3
  <2>. QED BY <2>6, <2>7, Zenon DEF e
<1>3. L = [k \in 1 .. n |-> IndexLine(RustEntry(ps, k))]
  BY <1>1, Zenon DEF Lines
<1>4. L \in [1 .. n -> Q] /\ \A k \in 1 .. n : L[k] = IndexLine(RustEntry(ps, k))
  BY <1>2, <1>3, Zenon
<1>5. \A k \in 1 .. n : Len(L[k]) = 7
  BY <1>2, <1>4, Zenon
<1>. HIDE DEF n, Q, L
<1>6. L \in Seq(Q) /\ Len(L) = n
  BY <1>1, <1>4
<1>. QED BY <1>4, <1>5, <1>6, Zenon DEF n, Q, L

\* The provers need not know its value.
LEMMA MagicIs == Magic \in Nat
BY SMT DEF Magic

\* The footer.
LEMMA FootIs ==
  ASSUME NEW ps \in Seq(Packet)
  PROVE /\ Foot(ps) \in Seq(Nat) /\ Len(Foot(ps)) = 4
        /\ Foot(ps)[1] = PacketStart(ps, Len(ps) + 1) /\ Foot(ps)[3] = Len(ps) /\ Foot(ps)[4] = Magic
<1>. DEFINE a == PacketStart(ps, Len(ps) + 1)
            b == Len(ps)
<1>1. a \in Nat
  BY BodyLaid, Zenon DEF InBody
<1>2. b \in Nat
  OBVIOUS
<1>3. Foot(ps) = <<a, 0, b, Magic>>
  BY Zenon DEF Foot
<1>. HIDE DEF a, b
<1>4. /\ <<a, 0, b, Magic>> \in Seq(Nat) /\ Len(<<a, 0, b, Magic>>) = 4
      /\ <<a, 0, b, Magic>>[1] = a /\ <<a, 0, b, Magic>>[3] = b /\ <<a, 0, b, Magic>>[4] = Magic
  BY <1>1, <1>2, MagicIs, SMT
<1>. QED BY <1>3, <1>4, Zenon DEF a, b

\* A closed file.
ClosedFile(ps) == Body(ps) \o Trailer(ps)

\* Packets, index and footer stand in it at their places.
InClosed(f, ps) ==
  /\ f \in Seq(Nat) /\ Len(f) = PacketStart(ps, Len(ps) + 1) + 7 * Len(ps) + 4
  /\ \A k \in 1 .. Len(ps) :
       /\ At(f, PacketStart(ps, k), PacketWords(ps[k]))
       /\ At(f, PacketStart(ps, Len(ps) + 1) + 7 * (k - 1), IndexLine(RustEntry(ps, k)))
  /\ At(f, PacketStart(ps, Len(ps) + 1) + 7 * Len(ps), Foot(ps))

\* close writes such a file.
LEMMA ClosedLaid ==
  ASSUME NEW ps \in Seq(Packet)
  PROVE InClosed(ClosedFile(ps), ps)
<1>. DEFINE n == Len(ps)
            E == PacketStart(ps, n + 1)
            B == Body(ps)
            L == Lines(ps)
            c == Concat(L)
            F == Foot(ps)
            t == Trailer(ps)
            f == ClosedFile(ps)
<1>1. n \in Nat
  OBVIOUS
<1>2. B \in Seq(Nat) /\ Len(B) = E /\ E \in Nat /\ \A k \in 1 .. n : At(B, PacketStart(ps, k), PacketWords(ps[k]))
  BY BodyLaid, Zenon DEF InBody
<1>3. /\ L \in Seq(Seq(Nat)) /\ Len(L) = n
      /\ \A k \in 1 .. n : L[k] = IndexLine(RustEntry(ps, k)) /\ Len(L[k]) = 7
  BY LinesAre, Zenon
<1>4. F \in Seq(Nat) /\ Len(F) = 4
  BY FootIs, Zenon
<1>5. t = c \o F /\ f = B \o t
  BY Zenon DEF Trailer, ClosedFile
<1>6. ASSUME NEW k \in 1 .. n PROVE PacketWords(ps[k]) \in Seq(Nat)
  BY WordsAre, PacketLaid, Zenon DEF Laid
<1>. HIDE DEF n, E, B, L, F, t, f
<1>7. c \in Seq(Nat) /\ Holds(c, L, n)
  BY <1>3, ConcatIs, ConcatHolds, Zenon
<1>8. ASSUME NEW k \in 1 .. n + 1 PROVE Before(L, k) = 7 * (k - 1)
  <2>1. 7 \in Nat /\ k \in 1 .. Len(L) + 1 /\ \A i \in 1 .. Len(L) : Len(L[i]) = 7
    BY <1>3, Zenon
  <2>. QED BY <1>3, <2>1, Strides, Zenon
<1>9. Len(c) = 7 * n
  <2>1. Len(c) = Before(L, n + 1)
    BY <1>7, Zenon DEF Holds
  <2>2. n + 1 \in 1 .. n + 1 /\ (n + 1) - 1 = n
    BY <1>1
  <2>. QED BY <1>8, <2>1, <2>2, Zenon
<1>10. t \in Seq(Nat) /\ Len(t) = 7 * n + 4
  <2>. HIDE DEF c
  <2>1. c \in Seq(Nat)
    BY <1>7, Zenon
  <2>2. t \in Seq(Nat) /\ Len(t) = Len(c) + Len(F)
    BY <1>4, <1>5, <2>1, JoinIs, Zenon
  <2>. QED BY <1>4, <1>9, <2>2, Zenon
<1>11. f \in Seq(Nat) /\ Len(f) = E + 7 * n + 4
  <2>1. B \in Seq(Nat) /\ t \in Seq(Nat) /\ f = B \o t
    BY <1>2, <1>5, <1>10, Zenon
  <2>2. f \in Seq(Nat) /\ Len(f) = Len(B) + Len(t)
    BY <2>1
  <2>3. E + (7 * n + 4) = E + 7 * n + 4
    BY <1>1, <1>2
  <2>. QED BY <1>2, <1>10, <2>2, <2>3, Zenon
<1>12. ASSUME NEW k \in 1 .. n PROVE At(f, PacketStart(ps, k), PacketWords(ps[k]))
  BY <1>2, <1>5, <1>6, <1>10, AtLeft, Zenon
<1>13. ASSUME NEW k \in 1 .. n PROVE At(f, E + 7 * (k - 1), IndexLine(RustEntry(ps, k)))
  <2>. DEFINE x == IndexLine(RustEntry(ps, k))
  <2>1. x = L[k] /\ k \in 1 .. Len(L)
    BY <1>3, Zenon
  <2>2. L[k] \in Seq(Nat)
    BY <1>3, <2>1, LensAre, Zenon
  <2>3. x \in Seq(Nat)
    BY <2>1, <2>2, Zenon
  <2>4. At(c, Before(L, k), x)
    BY <1>3, <2>1, AtPart, Zenon
  <2>5. k \in 1 .. n + 1
    BY <1>1
  <2>. HIDE DEF x, c
  <2>6. At(t, Before(L, k), x)
    BY <1>4, <1>5, <1>7, <2>3, <2>4, AtLeft, Zenon
  <2>7. At(f, Len(B) + Before(L, k), x)
    BY <1>2, <1>5, <1>10, <2>3, <2>6, AtRight, Zenon
  <2>. QED BY <1>2, <1>8, <2>5, <2>7, Zenon DEF x
<1>14. At(f, E + 7 * n, F)
  <2>. HIDE DEF c
  <2>1. At(F, 0, F)
    BY <1>4, AtSelf, Zenon
  <2>2. At(t, Len(c) + 0, F)
    BY <1>4, <1>5, <1>7, <2>1, AtRight, Zenon
  <2>3. Len(c) + 0 = 7 * n
    BY <1>1, <1>9
  <2>4. At(f, Len(B) + 7 * n, F)
    BY <1>2, <1>4, <1>5, <1>10, <2>2, <2>3, AtRight, Zenon
  <2>. QED BY <1>2, <2>4, Zenon
<1>. QED BY <1>11, <1>12, <1>13, <1>14, Zenon DEF InClosed, n, E, F, f

-----------------------------------------------------------------------------
(* Reading a closed file *)

\* Its footer is found and says where the index is.
LEMMA FooterRead ==
  ASSUME NEW ps \in Seq(Packet), NEW f, InClosed(f, ps)
  PROVE /\ FooterCount(f) = Len(ps) /\ FooterOffset(f) = PacketStart(ps, Len(ps) + 1)
        /\ FooterOK(f)
<1>. DEFINE n == Len(ps)
            E == PacketStart(ps, n + 1)
            F == Foot(ps)
            b == E + 7 * n
            N == Len(f)
<1>1. n \in Nat
  OBVIOUS
<1>2. E \in Nat /\ DataStart <= E /\ DataStart \in Nat
  BY BodyLaid, PreambleIs, Zenon DEF InBody
<1>3. N = E + 7 * n + 4 /\ At(f, b, F)
  BY Zenon DEF InClosed
<1>4. Len(F) = 4 /\ F[1] = E /\ F[3] = n /\ F[4] = Magic
  BY FootIs, Zenon
<1>5. 1 \in 1 .. 4 /\ 3 \in 1 .. 4 /\ 4 \in 1 .. 4
  OBVIOUS
<1>6. f[b + 1] = E /\ f[b + 3] = n /\ f[b + 4] = Magic
  BY <1>3, <1>4, <1>5, Zenon DEF At
<1>. HIDE DEF n, E, F
<1>7. N - 3 = b + 1 /\ N - 1 = b + 3 /\ N = b + 4 /\ N >= DataStart + 4 /\ E + 7 * n + 4 = N
  BY <1>1, <1>2, <1>3
<1>. HIDE DEF b, N
<1>8. f[N - 3] = E /\ f[N - 1] = n /\ f[N] = Magic
  BY <1>6, <1>7, Zenon
<1>9. FooterCount(f) = n /\ FooterOffset(f) = E
  BY <1>8, Zenon DEF FooterCount, FooterOffset, N
<1>10. FooterOK(f)
  BY <1>7, <1>8, Zenon DEF FooterOK, FooterWords, IndexWords, N
<1>. QED BY <1>9, <1>10, Zenon DEF n, E

\* So are the entries of the index.
LEMMA IndexRead ==
  ASSUME NEW ps \in Seq(Packet), NEW f, InClosed(f, ps), NEW k \in 1 .. Len(ps)
  PROVE IndexEntry(f, k) = RustEntry(ps, k)
<1>. DEFINE E == PacketStart(ps, Len(ps) + 1)
            b == E + 7 * (k - 1)
            r == RustEntry(ps, k)
            x == IndexLine(r)
<1>1. At(f, b, x) /\ FooterOffset(f) = E
  BY FooterRead, Zenon DEF InClosed
<1>2. Len(x) = 7
  BY LinesAre, Zenon
<1>3. x = <<r.offset, 0, r.min, 0, r.max, 0, r.n>>
  BY Zenon DEF IndexLine
<1>4. r = [offset |-> r.offset, min |-> r.min, max |-> r.max, n |-> r.n]
  BY DEF RustEntry
<1>5. IndexEntry(f, k) = [offset |-> f[b + 1], min |-> f[b + 3], max |-> f[b + 5], n |-> f[b + 7]]
  BY <1>1, Zenon DEF IndexEntry, IndexWords
<1>. HIDE DEF r, b, x
<1>6. x[1] = r.offset /\ x[3] = r.min /\ x[5] = r.max /\ x[7] = r.n
  BY <1>3
<1>7. 1 \in 1 .. 7 /\ 3 \in 1 .. 7 /\ 5 \in 1 .. 7 /\ 7 \in 1 .. 7
  OBVIOUS
<1>8. f[b + 1] = x[1] /\ f[b + 3] = x[3] /\ f[b + 5] = x[5] /\ f[b + 7] = x[7]
  BY <1>1, <1>2, <1>7, Zenon DEF At
<1>9. IndexEntry(f, k) = [offset |-> r.offset, min |-> r.min, max |-> r.max, n |-> r.n]
  BY <1>5, <1>6, <1>8, Zenon
<1>. QED BY <1>4, <1>9, Zenon DEF r

\* read_btlm cuts the file into its packets.
LEMMA RustReads ==
  ASSUME NEW ps \in Seq(Packet), NEW f, InClosed(f, ps)
  PROVE RustRead(f) = [k \in DOMAIN ps |-> PacketWords(ps[k])]
<1>. DEFINE n == Len(ps)
            hi(k) == IF k < FooterCount(f) THEN IndexEntry(f, k + 1).offset ELSE FooterOffset(f)
<1>1. FooterCount(f) = n /\ FooterOffset(f) = PacketStart(ps, n + 1)
  BY FooterRead, Zenon
<1>2. n \in Nat /\ DOMAIN ps = 1 .. n
  OBVIOUS
<1>3. ASSUME NEW k \in 1 .. n PROVE IndexEntry(f, k).offset = PacketStart(ps, k)
  <2>1. IndexEntry(f, k) = RustEntry(ps, k)
    BY IndexRead, Zenon
  <2>2. RustEntry(ps, k).offset = PacketStart(ps, k)
    BY DEF RustEntry
  <2>. QED BY <2>1, <2>2, Zenon
<1>4. f \in Seq(Nat)
  BY Zenon DEF InClosed
<1>5. ASSUME NEW k \in 1 .. n PROVE SubSeq(f, IndexEntry(f, k).offset + 1, hi(k)) = PacketWords(ps[k])
  <2>. DEFINE w == PacketWords(ps[k])
              b == PacketStart(ps, k)
  <2>1. hi(k) = PacketStart(ps, k + 1)
    <3>1. CASE k < n
      <4>1. k + 1 \in 1 .. n
        BY <1>2, <3>1
      <4>. QED BY <1>1, <1>3, <3>1, <4>1, Zenon
    <3>2. CASE ~(k < n)
      <4>1. k + 1 = n + 1
        BY <1>2, <3>2
      <4>. QED BY <1>1, <3>2, <4>1, Zenon
    <3>. QED BY <3>1, <3>2, Zenon
  <2>2. PacketStart(ps, k + 1) = b + Len(w)
    BY PacketStarts, Zenon DEF Starts
  <2>3. At(f, b, w) /\ w \in Seq(Nat)
    BY WordsAre, PacketLaid, Zenon DEF InClosed, Laid
  <2>4. SubSeq(f, b + 1, b + Len(w)) = w
    BY <1>4, <2>3, AtSlice, Zenon
  <2>. QED BY <1>3, <2>1, <2>2, <2>4, Zenon
<1>6. RustRead(f) = [k \in 1 .. n |-> SubSeq(f, IndexEntry(f, k).offset + 1, hi(k))]
  BY <1>1, Zenon DEF RustRead
<1>. HIDE DEF hi
<1>. QED BY <1>2, <1>5, <1>6, Zenon

-----------------------------------------------------------------------------
(* The writer *)

\* What the writer has written, and what a crash leaves of it.
FileInv ==
  /\ written \in Seq(Packet)
  /\ index = [k \in 1 .. Len(written) |-> RustEntry(written, k)]
  /\ mode \in {"open", "index", "closed", "crashed"}
  /\ flushed \in Nat
  /\ mode = "open" => file = Body(written) /\ flushed <= Len(Body(written))
  /\ mode = "index" => file = ClosedFile(written) /\ flushed <= Len(ClosedFile(written))
  /\ mode = "closed" => file = ClosedFile(written)
  /\ mode = "crashed" => \E n \in flushed .. Len(ClosedFile(written)) :
                            file = SubSeq(ClosedFile(written), 1, n)

\* A packet more moves none of those before it.
LEMMA StartsStay ==
  ASSUME NEW ps \in Seq(Packet), NEW p \in Packet, NEW k \in 1 .. Len(ps) + 1
  PROVE PacketStart(Append(ps, p), k) = PacketStart(ps, k)
<1>. DEFINE qs == Append(ps, p)
<1>1. \A i \in 1 .. k - 1 : qs[i] = ps[i]
  OBVIOUS
<1>. HIDE DEF qs
<1>2. [i \in 1 .. k - 1 |-> Len(PacketWords(qs[i]))] = [i \in 1 .. k - 1 |-> Len(PacketWords(ps[i]))]
  BY <1>1, Zenon
<1>. QED BY <1>2, Zenon DEF PacketStart, qs

\* The body with one packet more.
LEMMA BodyMore ==
  ASSUME NEW ps \in Seq(Packet), NEW p \in Packet
  PROVE Body(Append(ps, p)) = Body(ps) \o PacketWords(p)
<1>. DEFINE qs == Append(ps, p)
            n == Len(ps)
            V == Words(qs)
            W == Words(ps)
            w == PacketWords(p)
<1>1. n \in Nat /\ qs \in Seq(Packet) /\ Len(qs) = n + 1 /\ qs[n + 1] = p /\ \A i \in 1 .. n : qs[i] = ps[i]
  OBVIOUS
<1>. HIDE DEF qs
<1>2. V \in Seq(Seq(Nat)) /\ Len(V) = n + 1 /\ \A k \in 1 .. n + 1 : V[k] = PacketWords(qs[k])
  BY <1>1, WordsAre, Zenon
<1>3. W \in Seq(Seq(Nat)) /\ Len(W) = n /\ \A k \in 1 .. n : W[k] = PacketWords(ps[k])
  BY WordsAre, Zenon
<1>4. n + 1 \in 1 .. n + 1 /\ n < n + 1 /\ \A k \in 1 .. n : k \in 1 .. n + 1
  BY <1>1
<1>5. V[n + 1] = w /\ \A k \in 1 .. n : V[k] = W[k]
  BY <1>1, <1>2, <1>3, <1>4, Zenon
<1>6. First(V, n + 1) = V /\ First(W, n) = W
  BY <1>2, <1>3, FirstAll, Zenon
<1>. HIDE DEF V, W, w
<1>7. First(V, n) = First(W, n)
  BY <1>5, Zenon DEF First
<1>8. Longer(Nat, V, n)
  BY <1>1, <1>2, <1>4, ConcatLonger, Zenon
<1>9. Concat(V) = Concat(W) \o w
  BY <1>5, <1>6, <1>7, <1>8, Zenon DEF Longer
<1>10. Concat(W) \in Seq(Nat) /\ w \in Seq(Nat) /\ Preamble \in Seq(Nat)
  BY <1>3, ConcatIs, PreambleIs, PacketLaid, Zenon DEF Laid, w
<1>11. (Preamble \o Concat(W)) \o w = Preamble \o (Concat(W) \o w)
  <2>1. Associates(Preamble, Concat(W), w)
    BY <1>10, JoinAssociates, Zenon
  <2>. QED BY <2>1, Zenon DEF Associates
<1>. QED BY <1>9, <1>11, Zenon DEF Body, V, W, w, qs

\* What write_packet adds to the index.
NewEntry(o, p) == [offset |-> o, min |-> TsRange(p).min, max |-> TsRange(p).max, n |-> Len(p)]

\* The index ix with one packet more.
IndexLonger(ix, ps, p) ==
  Append(ix, NewEntry(PacketStart(ps, Len(ps) + 1), p))
    = [k \in 1 .. Len(Append(ps, p)) |-> RustEntry(Append(ps, p), k)]

\* It is the index of one packet more.
LEMMA IndexMore ==
  ASSUME NEW ps \in Seq(Packet), NEW p \in Packet, NEW ix,
         ix = [k \in 1 .. Len(ps) |-> RustEntry(ps, k)]
  PROVE IndexLonger(ix, ps, p)
<1>. DEFINE qs == Append(ps, p)
            n == Len(ps)
            e == [offset |-> PacketStart(ps, n + 1), min |-> TsRange(p).min,
                  max |-> TsRange(p).max, n |-> Len(p)]
<1>1. n \in Nat /\ qs \in Seq(Packet) /\ Len(qs) = n + 1 /\ qs[n + 1] = p /\ \A i \in 1 .. n : qs[i] = ps[i]
  OBVIOUS
<1>2. ASSUME NEW k \in 1 .. n + 1 PROVE PacketStart(qs, k) = PacketStart(ps, k)
  BY StartsStay, Zenon
<1>. HIDE DEF qs
<1>3. RustEntry(qs, n + 1) = e
  <2>1. n + 1 \in 1 .. n + 1
    BY <1>1
  <2>2. PacketStart(qs, n + 1) = PacketStart(ps, n + 1)
    BY <1>2, <2>1, Zenon
  <2>. QED BY <1>1, <2>2, Zenon DEF RustEntry
<1>4. ASSUME NEW k \in 1 .. n PROVE RustEntry(qs, k) = RustEntry(ps, k)
  <2>1. k \in 1 .. n + 1
    BY <1>1
  <2>2. PacketStart(qs, k) = PacketStart(ps, k) /\ qs[k] = ps[k]
    BY <1>1, <1>2, <2>1, Zenon
  <2>. QED BY <2>2, Zenon DEF RustEntry
<1>. DEFINE R == {RustEntry(qs, k) : k \in 1 .. n + 1}
            r == [k \in 1 .. n + 1 |-> RustEntry(qs, k)]
<1>5. ix \in [1 .. n -> R] /\ \A k \in 1 .. n : ix[k] = r[k]
  <2>1. \A k \in 1 .. n : k \in 1 .. n + 1
    BY <1>1
  <2>2. ASSUME NEW k \in 1 .. n PROVE RustEntry(ps, k) \in R /\ r[k] = RustEntry(ps, k)
    BY <1>4, <2>1, Zenon
  <2>. QED BY <2>2, Zenon
<1>6. r \in [1 .. n + 1 -> R] /\ r[n + 1] = e /\ e \in R
  <2>1. n + 1 \in 1 .. n + 1
    BY <1>1
  <2>. HIDE DEF e
  <2>. QED BY <1>3, <2>1, Zenon
<1>. HIDE DEF R, r, e, n
<1>7. ix \in Seq(R) /\ Len(ix) = n
  BY <1>1, <1>5
<1>8. r \in Seq(R) /\ Len(r) = n + 1
  BY <1>1, <1>6
<1>. DEFINE a == Append(ix, e)
<1>9. a \in Seq(R) /\ Len(a) = n + 1 /\ \A k \in 1 .. n + 1 : a[k] = IF k = n + 1 THEN e ELSE ix[k]
  BY <1>1, <1>6, <1>7
<1>10. ASSUME NEW k \in 1 .. n + 1 PROVE a[k] = r[k]
  <2>1. k # n + 1 => k \in 1 .. n
    BY <1>1
  <2>. HIDE DEF a
  <2>. QED BY <1>5, <1>6, <1>9, <2>1, Zenon
<1>. HIDE DEF a
<1>11. a = r
  BY <1>8, <1>9, <1>10, SeqEqual, Zenon
<1>. QED BY <1>1, <1>11, Zenon DEF IndexLonger, NewEntry, a, r, e, n, qs

\* What close adds is the trailer.
LEMMA TailIsTrailer ==
  ASSUME FileInv, mode = "open"
  PROVE IndexTail = Trailer(written)
<1>. DEFINE n == Len(written)
<1>1. written \in Seq(Packet) /\ index = [k \in 1 .. n |-> RustEntry(written, k)] /\ file = Body(written)
  BY Zenon DEF FileInv
<1>2. n \in Nat /\ DOMAIN written = 1 .. n
  BY <1>1
<1>3. Len(file) = PacketStart(written, n + 1)
  BY <1>1, BodyLaid, Zenon DEF InBody
<1>4. DOMAIN index = 1 .. n /\ Len(index) = n
  <2>1. DOMAIN index = 1 .. n
    BY <1>1, Zenon
  <2>. HIDE DEF n
  <2>. QED BY <1>2, <2>1
<1>5. [k \in DOMAIN index |-> IndexLine(index[k])] = Lines(written)
  BY <1>1, <1>2, <1>4, Zenon DEF Lines
<1>. QED BY <1>3, <1>4, <1>5, Zenon DEF IndexTail, Trailer, Foot

\* The parts of a closed file.
LEMMA ClosedParts ==
  ASSUME NEW ps \in Seq(Packet)
  PROVE /\ Body(ps) \in Seq(Nat) /\ ClosedFile(ps) \in Seq(Nat)
        /\ Len(Body(ps)) \in Nat /\ Len(ClosedFile(ps)) \in Nat
        /\ Len(Body(ps)) <= Len(ClosedFile(ps))
        /\ \A i \in 1 .. Len(Body(ps)) : ClosedFile(ps)[i] = Body(ps)[i]
<1>. DEFINE B == Body(ps)
            t == Trailer(ps)
            f == ClosedFile(ps)
<1>1. f \in Seq(Nat) /\ B \in Seq(Nat)
  BY ClosedLaid, BodyLaid, Zenon DEF InClosed, InBody
<1>2. t \in Seq(Nat)
  <2>1. Concat(Lines(ps)) \in Seq(Nat) /\ Foot(ps) \in Seq(Nat)
    BY LinesAre, FootIs, ConcatIs, Zenon
  <2>. QED BY <2>1, JoinIs, Zenon DEF Trailer
<1>3. f = B \o t
  BY Zenon DEF ClosedFile
<1>. HIDE DEF B, t, f
<1>4. Len(B) \in Nat /\ Len(f) \in Nat /\ Len(B) <= Len(f) /\ \A i \in 1 .. Len(B) : f[i] = B[i]
  BY <1>1, <1>2, <1>3
<1>. QED BY <1>1, <1>4, Zenon DEF B, f

\* A cut of the body is a cut of the file that would have been closed.
LEMMA CutIs ==
  ASSUME NEW ps \in Seq(Packet), NEW n \in Nat, n <= Len(Body(ps))
  PROVE SubSeq(Body(ps), 1, n) = SubSeq(ClosedFile(ps), 1, n) /\ n <= Len(ClosedFile(ps))
<1>. DEFINE B == Body(ps)
            f == ClosedFile(ps)
            u == SubSeq(B, 1, n)
            v == SubSeq(f, 1, n)
<1>1. /\ B \in Seq(Nat) /\ f \in Seq(Nat) /\ Len(B) \in Nat /\ Len(f) \in Nat /\ Len(B) <= Len(f)
      /\ \A i \in 1 .. Len(B) : f[i] = B[i]
  BY ClosedParts, Zenon
<1>2. n <= Len(B)
  BY Zenon
<1>. HIDE DEF B, f
<1>3. n <= Len(f)
  BY <1>1, <1>2
<1>4. u \in Seq(Nat) /\ Len(u) = n /\ \A i \in 1 .. n : u[i] = B[i]
  BY <1>1, <1>2, SMTT(30)
<1>5. v \in Seq(Nat) /\ Len(v) = n /\ \A i \in 1 .. n : v[i] = f[i]
  BY <1>1, <1>3
<1>. HIDE DEF u, v
<1>6. ASSUME NEW i \in 1 .. n PROVE u[i] = v[i]
  <2>1. i \in 1 .. Len(B)
    BY <1>1, <1>2
  <2>. QED BY <1>1, <1>4, <1>5, <2>1, Zenon
<1>7. u = v
  BY <1>4, <1>5, <1>6, SeqEqual, Zenon
<1>. QED BY <1>3, <1>7, Zenon DEF u, v, B, f

\* Every step of the writer keeps the invariant.
LEMMA FileStep == FileInv /\ [Next]_vars => FileInv'
<1>. SUFFICES ASSUME FileInv, [Next]_vars PROVE FileInv'
  BY Zenon
<1>. DEFINE n == Len(written)
<1>1. /\ written \in Seq(Packet) /\ index = [k \in 1 .. n |-> RustEntry(written, k)]
      /\ flushed \in Nat /\ mode \in {"open", "index", "closed", "crashed"}
  BY Zenon DEF FileInv
<1>2. mode = "open" => file = Body(written) /\ flushed <= Len(Body(written))
  BY Zenon DEF FileInv
<1>3. mode = "index" => file = ClosedFile(written) /\ flushed <= Len(ClosedFile(written))
  BY Zenon DEF FileInv
<1>4. /\ Body(written) \in Seq(Nat) /\ ClosedFile(written) \in Seq(Nat)
      /\ Len(Body(written)) \in Nat /\ Len(ClosedFile(written)) \in Nat
      /\ Len(Body(written)) <= Len(ClosedFile(written))
  BY <1>1, ClosedParts, Zenon
<1>5. ASSUME NEW p \in Packets, WritePacket(p) PROVE FileInv'
  <2>1. p \in Packet
    BY FileAssumption, Zenon DEF Packet
  <2>2. /\ mode = "open" /\ file' = file \o PacketWords(p) /\ written' = Append(written, p)
        /\ index' = Append(index, [offset |-> Len(file), min |-> TsRange(p).min,
                                   max |-> TsRange(p).max, n |-> Len(p)])
        /\ flushed' = flushed /\ mode' = mode
    BY <1>5, Zenon DEF WritePacket
  <2>3. written' \in Seq(Packet)
    BY <1>1, <2>1, <2>2
  <2>4. Len(file) = PacketStart(written, n + 1)
    BY <1>1, <1>2, <2>2, BodyLaid, Zenon DEF InBody
  <2>5. index' = [k \in 1 .. Len(written') |-> RustEntry(written', k)]
    <3>1. index' = Append(index, NewEntry(PacketStart(written, Len(written) + 1), p))
      BY <2>2, <2>4, Zenon DEF NewEntry
    <3>2. IndexLonger(index, written, p)
      BY <1>1, <2>1, IndexMore, Zenon
    <3>. QED BY <2>2, <3>1, <3>2, Zenon DEF IndexLonger
  <2>6. file' = Body(written')
    BY <1>1, <1>2, <2>1, <2>2, BodyMore, Zenon
  <2>7. flushed' <= Len(Body(written'))
    <3>. DEFINE w == PacketWords(p)
                B == Body(written)
    <3>1. w \in Seq(Nat) /\ Len(w) \in Nat
      <4>1. w \in Seq(Nat)
        BY <2>1, PacketLaid, Zenon DEF Laid
      <4>. HIDE DEF w
      <4>. QED BY <4>1
    <3>2. Body(written') = B \o w
      BY <1>2, <2>2, <2>6, Zenon
    <3>3. B \in Seq(Nat) /\ Len(B) \in Nat /\ flushed <= Len(B)
      BY <1>2, <1>4, <2>2, Zenon
    <3>. HIDE DEF B, w
    <3>4. Len(B \o w) = Len(B) + Len(w)
      BY <3>1, <3>3, JoinIs, Zenon
    <3>5. flushed <= Len(B) + Len(w)
      BY <1>1, <3>1, <3>3
    <3>. QED BY <2>2, <3>2, <3>4, <3>5, Zenon
  <2>8. mode' = "open" /\ mode' # "index" /\ mode' # "closed" /\ mode' # "crashed"
    BY <2>2
  <2>. QED BY <1>1, <2>2, <2>3, <2>5, <2>6, <2>7, <2>8, Zenon DEF FileInv
<1>6. CASE Flush
  <2>1. /\ mode = "open" /\ flushed' = Len(file)
        /\ file' = file /\ index' = index /\ written' = written /\ mode' = mode
    BY <1>6, Zenon DEF Flush
  <2>2. flushed' = Len(Body(written)) /\ file' = Body(written)
    BY <1>2, <2>1, Zenon
  <2>3. mode' = "open" /\ mode' # "index" /\ mode' # "closed" /\ mode' # "crashed"
    BY <2>1
  <2>4. flushed' \in Nat /\ flushed' <= Len(Body(written))
    BY <1>4, <2>2
  <2>. QED BY <1>1, <2>1, <2>2, <2>3, <2>4, Zenon DEF FileInv
<1>7. CASE CloseBegin
  <2>1. /\ mode = "open" /\ file' = file \o IndexTail /\ mode' = "index"
        /\ flushed' = flushed /\ index' = index /\ written' = written
    BY <1>7, Zenon DEF CloseBegin
  <2>2. file' = ClosedFile(written)
    BY <1>2, <2>1, TailIsTrailer, Zenon DEF ClosedFile
  <2>3. mode' # "open" /\ mode' # "closed" /\ mode' # "crashed"
    BY <2>1
  <2>4. flushed <= Len(ClosedFile(written))
    BY <1>1, <1>2, <1>4, <2>1
  <2>. QED BY <1>1, <2>1, <2>2, <2>3, <2>4, Zenon DEF FileInv
<1>8. CASE CloseEnd
  <2>1. /\ mode = "index" /\ flushed' = Len(file) /\ mode' = "closed"
        /\ file' = file /\ index' = index /\ written' = written
    BY <1>8, Zenon DEF CloseEnd
  <2>2. mode' # "open" /\ mode' # "index" /\ mode' # "crashed"
    BY <2>1
  <2>3. file' = ClosedFile(written) /\ flushed' \in Nat
    BY <1>3, <1>4, <2>1, Zenon
  <2>. QED BY <1>1, <2>1, <2>2, <2>3, Zenon DEF FileInv
<1>9. CASE Crash
  <2>1. /\ mode \in {"open", "index"} /\ mode' = "crashed"
        /\ flushed' = flushed /\ index' = index /\ written' = written
    BY <1>9, Zenon DEF Crash
  <2>2. PICK c \in flushed .. Len(file) : file' = SubSeq(file, 1, c)
    BY <1>9, Zenon DEF Crash
  <2>3. mode' # "open" /\ mode' # "index" /\ mode' # "closed"
    BY <2>1
  <2>4. c \in flushed .. Len(ClosedFile(written)) /\ file' = SubSeq(ClosedFile(written), 1, c)
    <3>1. CASE mode = "open"
      <4>1. file = Body(written)
        BY <1>2, <3>1, Zenon
      <4>2. c \in Nat /\ c <= Len(Body(written)) /\ flushed <= c
        BY <1>1, <1>4, <2>2, <4>1
      <4>3. SubSeq(Body(written), 1, c) = SubSeq(ClosedFile(written), 1, c) /\ c <= Len(ClosedFile(written))
        BY <1>1, <4>2, CutIs, Zenon
      <4>4. c \in flushed .. Len(ClosedFile(written))
        BY <1>1, <1>4, <4>2, <4>3
      <4>. QED BY <2>2, <4>1, <4>3, <4>4, Zenon
    <3>2. CASE mode = "index"
      BY <1>3, <2>2, <3>2, Zenon
    <3>. QED BY <2>1, <3>1, <3>2
  <2>5. \E m \in flushed' .. Len(ClosedFile(written')) : file' = SubSeq(ClosedFile(written'), 1, m)
    BY <2>1, <2>4, Zenon
  <2>. QED BY <1>1, <2>1, <2>3, <2>5, Zenon DEF FileInv
<1>10. CASE UNCHANGED vars
  <2>1. file' = file /\ flushed' = flushed /\ index' = index /\ written' = written /\ mode' = mode
    BY <1>10, Zenon DEF vars
  <2>. QED BY <2>1, Zenon DEF FileInv
<1>. QED BY <1>5, <1>6, <1>7, <1>8, <1>9, <1>10, Zenon DEF Next

\* A new file.
LEMMA FileBegins == Init => FileInv
<1>. SUFFICES ASSUME Init PROVE FileInv
  BY Zenon
<1>1. file = Preamble /\ flushed = 0 /\ index = <<>> /\ written = <<>> /\ mode = "open"
  BY Zenon DEF Init
<1>2. <<>> \in Seq(Packet) /\ Len(<<>>) = 0 /\ 0 \in Nat
  OBVIOUS
<1>3. [k \in 1 .. 0 |-> RustEntry(<<>>, k)] = <<>>
  OBVIOUS
<1>4. Body(<<>>) = Preamble
  <2>1. Words(<<>>) = First(<<>>, 0)
    BY DEF Words, First
  <2>2. Concat(Words(<<>>)) = <<>>
    BY <2>1, ConcatNone, Zenon
  <2>3. Preamble \o <<>> = Preamble
    BY PreambleIs
  <2>. QED BY <2>2, <2>3, Zenon DEF Body
<1>5. 0 <= Len(Preamble)
  BY PreambleIs
<1>6. mode # "index" /\ mode # "closed" /\ mode # "crashed"
  BY <1>1
<1>. QED BY <1>1, <1>2, <1>3, <1>4, <1>5, <1>6, Zenon DEF FileInv

\* At every moment the file is the preamble and the packets written, with the index and
\* the footer once close has begun, or what a crash left of that.
THEOREM FileInvariant == Spec => []FileInv
<1>. QED BY FileBegins, FileStep, PTL DEF Spec

\* FormatsAgree: a file of LogWriter is the one save_btlm writes for the same packets,
\* and read_btlm cuts it into them.
THEOREM FileFormatsAgree == Spec => []FormatsAgree
<1>1. FileInv => FormatsAgree
  <2>. SUFFICES ASSUME FileInv, mode = "closed"
                PROVE file = RustFile(written) /\ RustRead(file) = [i \in DOMAIN written |-> PacketWords(written[i])]
    BY Zenon DEF FormatsAgree
  <2>1. written \in Seq(Packet) /\ file = ClosedFile(written)
    BY Zenon DEF FileInv
  <2>. DEFINE a == Body(written)
              b == Concat(Lines(written))
              c == Foot(written)
  <2>2. a \in Seq(Nat) /\ b \in Seq(Nat) /\ c \in Seq(Nat)
    BY <2>1, BodyLaid, LinesAre, ConcatIs, FootIs, Zenon DEF InBody
  <2>3. RustFile(written) = (a \o b) \o c
    BY Zenon DEF RustFile, Body, Words, Lines, Foot
  <2>4. file = a \o (b \o c)
    BY <2>1, Zenon DEF ClosedFile, Trailer
  <2>. HIDE DEF a, b, c
  <2>5. (a \o b) \o c = a \o (b \o c)
    <3>1. Associates(a, b, c)
      BY <2>2, JoinAssociates, Zenon
    <3>. QED BY <3>1, Zenon DEF Associates
  <2>6. file = RustFile(written)
    BY <2>3, <2>4, <2>5, Zenon
  <2>7. RustRead(file) = [i \in DOMAIN written |-> PacketWords(written[i])]
    BY <2>1, ClosedLaid, RustReads, Zenon
  <2>. QED BY <2>6, <2>7, Zenon
<1>. QED BY <1>1, FileInvariant, PTL

-----------------------------------------------------------------------------
(* Decoding *)

\* What readers return.
Item == [id : Nat, ts : Nat, payload : Seq(Nat)]

\* What was logged is made of items.
LEMMA ContentIs ==
  ASSUME NEW p \in Packet
  PROVE /\ Content(p) \in Seq(Item) /\ Len(Content(p)) = Len(p)
        /\ \A i \in 1 .. Len(p) : /\ Content(p)[i].id = p[i].id /\ Content(p)[i].ts = p[i].ts
                                  /\ Content(p)[i].payload = Payload(p[i]) /\ Content(p)[i] \in Item
<1>. DEFINE n == Len(p)
            c(i) == [id |-> p[i].id, ts |-> p[i].ts, payload |-> Payload(p[i])]
            C == Content(p)
<1>1. n \in Nat /\ DOMAIN p = 1 .. n
  BY EntriesAre, Zenon
<1>2. ASSUME NEW i \in 1 .. n
      PROVE c(i) \in Item /\ c(i).id = p[i].id /\ c(i).ts = p[i].ts /\ c(i).payload = Payload(p[i])
  <2>. DEFINE x == p[i].id
              y == p[i].ts
              z == Payload(p[i])
  <2>1. x \in Nat /\ y \in Nat /\ z \in Seq(Nat)
    BY EntriesAre, PayloadIs, Zenon DEF Fields
  <2>. HIDE DEF x, y, z
  <2>2. [id |-> x, ts |-> y, payload |-> z] \in Item /\ [id |-> x, ts |-> y, payload |-> z].id = x
    BY <2>1 DEF Item
  <2>3. [id |-> x, ts |-> y, payload |-> z].ts = y /\ [id |-> x, ts |-> y, payload |-> z].payload = z
    OBVIOUS
  <2>. QED BY <2>2, <2>3, Zenon DEF x, y, z
<1>3. C = [i \in 1 .. n |-> c(i)]
  BY <1>1, Zenon DEF Content
<1>. HIDE DEF c, C, n
<1>4. C \in [1 .. n -> Item] /\ \A i \in 1 .. n : C[i] = c(i)
  BY <1>2, <1>3, Zenon
<1>5. C \in Seq(Item) /\ Len(C) = n
  BY <1>1, <1>4
<1>. QED BY <1>2, <1>4, <1>5, Zenon DEF C, n

\* The smaller of two numbers.
LEMMA MinPair ==
  ASSUME NEW a \in Nat, NEW b \in Nat, a <= b
  PROVE Min({a, b}) = a
<1>1. \A x \in {a, b} : (\A y \in {a, b} : x <= y) => x = a
  OBVIOUS
<1>2. a \in {a, b} /\ \A y \in {a, b} : a <= y
  OBVIOUS
<1>. QED BY <1>1, <1>2, Zenon DEF Min

\* Two halves of a word.
LEMMA Halves ==
  ASSUME NEW U \in Nat, U > 0, NEW x \in 0 .. U - 1, NEW y \in Nat
  PROVE (x + U * y) % U = x /\ (x + U * y) \div U = y
<1>1. (x + U * y) % U = x
  OBVIOUS
<1>2. (x + U * y) \div U = y
  OBVIOUS
<1>. QED BY <1>1, <1>2, Zenon

\* The size and the number of entries, from the first two words of a packet.
LEMMA SizeRead ==
  ASSUME NEW p \in Packet, NEW f, NEW b, f[b + 1] = PacketWords(p)[1], f[b + 2] = PacketWords(p)[2]
  PROVE Size(f, b) = Len(PacketWords(p)) /\ f[b + 1] % U16 = Len(p)
<1>. DEFINE w == PacketWords(p)
            n == Len(p)
            h == HeaderOf(p)
            o == Offset(p, n + 1)
<1>1. n \in Nat /\ n < U16
  BY EntriesAre, Zenon
<1>2. Len(w) = 4 + 4 * n + o /\ At(w, 0, h)
  BY PacketLaid, Zenon DEF Laid
<1>4. h = <<n, o, 0, 0>>
  BY Zenon DEF HeaderOf
<1>. HIDE DEF n, o, h, w
<1>5. Len(h) = 4 /\ h[1] = n /\ h[2] = o
  BY <1>4
<1>6. 1 \in 1 .. 4 /\ 2 \in 1 .. 4 /\ 0 + 1 = 1 /\ 0 + 2 = 2
  OBVIOUS
<1>7. w[1] = n /\ w[2] = o
  <2>1. w[0 + 1] = h[1] /\ w[0 + 2] = h[2]
    BY <1>2, <1>5, <1>6, Zenon DEF At
  <2>. QED BY <1>5, <1>6, <2>1, Zenon
<1>9. f[b + 1] = n /\ f[b + 2] = o
  BY <1>7, Zenon DEF w
<1>10. n % U16 = n
  BY <1>1, U16Is
<1>11. Size(f, b) = 4 + 4 * n + o
  BY <1>9, <1>10, Zenon DEF Size, HeaderWords, EntryWords
<1>. QED BY <1>2, <1>9, <1>10, <1>11, Zenon DEF n, w

\* The size and the number of entries in a packet's header.
LEMMA HeaderRead ==
  ASSUME NEW p \in Packet, NEW f, NEW b, At(f, b, PacketWords(p))
  PROVE Size(f, b) = Len(PacketWords(p)) /\ f[b + 1] % U16 = Len(p)
<1>. DEFINE w == PacketWords(p)
            l == Len(w)
            n == Len(p)
            o == Offset(p, n + 1)
<1>1. n \in Nat /\ l = 4 + 4 * n + o
  BY EntriesAre, PacketLaid, Zenon DEF Laid
<1>2. o \in Nat
  <2>1. n + 1 \in 1 .. n + 1
    BY <1>1
  <2>. QED BY <2>1, OffsetIs, Zenon
<1>3. 1 \in 1 .. l /\ 2 \in 1 .. l
  <2>. HIDE DEF n, o, l
  <2>. QED BY <1>1, <1>2
<1>4. f[b + 1] = w[1] /\ f[b + 2] = w[2]
  BY <1>3, Zenon DEF At
<1>. QED BY <1>4, SizeRead, Zenon

\* One entry of a packet, decoded.
Decoded(w, base, i) ==
  [id |-> w[(4 + 4 * (i - 1)) + 1] % U16, ts |-> w[(4 + 4 * (i - 1)) + 3],
   payload |-> SubSeq(w, (base + w[(4 + 4 * (i - 1)) + 2]) + 1,
                      Min({(base + w[(4 + 4 * (i - 1)) + 2]) + w[(4 + 4 * (i - 1)) + 1] \div U16, Len(w)}))]

\* It is what was logged.
LEMMA EntryDecoded ==
  ASSUME NEW p \in Packet, NEW i \in 1 .. Len(p)
  PROVE Decoded(PacketWords(p), 4 + 4 * Len(p), i)
          = [id |-> p[i].id, ts |-> p[i].ts, payload |-> Payload(p[i])]
<1>. DEFINE w == PacketWords(p)
            n == Len(p)
            e == 4 + 4 * (i - 1)
            h == EntryHeader(p, i)
            o == Offset(p, i)
            a == p[i].id
            l == p[i].len
            base == 4 + 4 * n
            v == Payload(p[i])
<1>1. n \in Nat /\ i \in 1 .. n + 1
  BY EntriesAre
<1>2. a \in 0 .. U16 - 1 /\ l \in Nat /\ v \in Seq(Nat) /\ Len(v) = l
  BY EntriesAre, PayloadIs, Zenon DEF Fields
<1>3. o \in Nat
  BY <1>1, OffsetIs, Zenon
<1>4. w \in Seq(Nat) /\ At(w, e, h) /\ At(w, base + o, v)
  BY PacketLaid, Zenon DEF Laid
<1>5. h = <<a + U16 * l, o, p[i].ts, 0>>
  BY Zenon DEF EntryHeader
<1>. HIDE DEF w, n, e, h, o, a, l, v
<1>6. Len(h) = 4 /\ h[1] = a + U16 * l /\ h[2] = o /\ h[3] = p[i].ts
  BY <1>5
<1>7. 1 \in 1 .. 4 /\ 2 \in 1 .. 4 /\ 3 \in 1 .. 4
  OBVIOUS
<1>8. w[e + 1] = a + U16 * l /\ w[e + 2] = o /\ w[e + 3] = p[i].ts
  BY <1>4, <1>6, <1>7, Zenon DEF At
<1>9. (a + U16 * l) % U16 = a /\ (a + U16 * l) \div U16 = l
  BY <1>2, U16Is, Halves, Zenon
<1>10. base + o \in Nat /\ (base + o) + Len(v) <= Len(w)
  BY <1>4, Zenon DEF At
<1>11. Len(w) \in Nat /\ (base + o) + l \in Nat /\ (base + o) + l <= Len(w)
  BY <1>2, <1>4, <1>10
<1>12. Min({(base + o) + l, Len(w)}) = (base + o) + l
  BY <1>11, MinPair, Zenon
<1>13. SubSeq(w, (base + o) + 1, (base + o) + l) = v
  BY <1>2, <1>4, AtSlice, Zenon
<1>14. Decoded(w, base, i)
         = [id |-> w[e + 1] % U16, ts |-> w[e + 3],
            payload |-> SubSeq(w, (base + w[e + 2]) + 1, Min({(base + w[e + 2]) + w[e + 1] \div U16, Len(w)}))]
  BY Zenon DEF Decoded, e
<1>15. Decoded(w, base, i) = [id |-> a, ts |-> p[i].ts, payload |-> v]
  BY <1>8, <1>9, <1>12, <1>13, <1>14, Zenon
<1>. QED BY <1>15, Zenon DEF w, n, a, v

\* decode_packet gives back the packet that build_packet laid out.
LEMMA PacketDecoded ==
  ASSUME NEW p \in Packet
  PROVE Decode(PacketWords(p)) = Content(p)
<1>. DEFINE w == PacketWords(p)
            n == Len(p)
<1>1. n \in Nat /\ DOMAIN p = 1 .. n
  BY EntriesAre, Zenon
<1>2. w[1] % U16 = n
  <2>1. w \in Seq(Nat)
    BY PacketLaid, Zenon DEF Laid
  <2>2. At(w, 0, w)
    BY <2>1, AtSelf, Zenon
  <2>3. w[0 + 1] % U16 = n /\ 0 + 1 = 1
    <3>1. 0 + 1 = 1
      OBVIOUS
    <3>. QED BY <2>2, <3>1, HeaderRead, Zenon
  <2>. QED BY <2>3, Zenon
<1>3. Decode(w) = [i \in 1 .. n |-> Decoded(w, 4 + 4 * n, i)]
  BY <1>2, Zenon DEF Decode, Decoded, HeaderWords, EntryWords
<1>4. Content(p) = [i \in 1 .. n |-> [id |-> p[i].id, ts |-> p[i].ts, payload |-> Payload(p[i])]]
  BY <1>1, Zenon DEF Content
<1>5. \A i \in 1 .. n : Decoded(w, 4 + 4 * n, i) = [id |-> p[i].id, ts |-> p[i].ts, payload |-> Payload(p[i])]
  BY EntryDecoded, Zenon
<1>. HIDE DEF w, n
<1>. QED BY <1>3, <1>4, <1>5, Zenon DEF w, n

\* A packet read where it stands.
LEMMA PacketRead ==
  ASSUME NEW p \in Packet, NEW f \in Seq(Nat), NEW b, At(f, b, PacketWords(p))
  PROVE /\ PacketAt(f, b) = PacketWords(p) /\ Decode(PacketAt(f, b)) = Content(p)
        /\ Whole(f, b) /\ Size(f, b) = Len(PacketWords(p))
<1>. DEFINE w == PacketWords(p)
            l == Len(w)
<1>1. Size(f, b) = l
  BY HeaderRead, Zenon
<1>2. w \in Seq(Nat) /\ Len(w) = 4 + 4 * Len(p) + Offset(p, Len(p) + 1)
  BY PacketLaid, Zenon DEF Laid
<1>3. PacketAt(f, b) = w
  <2>1. SubSeq(f, b + 1, b + Len(w)) = w
    BY <1>2, AtSlice, Zenon
  <2>. QED BY <1>1, <2>1, Zenon DEF PacketAt
<1>4. Decode(PacketAt(f, b)) = Content(p)
  BY <1>3, PacketDecoded, Zenon
<1>5. b \in Nat /\ b + l <= Len(f)
  BY Zenon DEF At
<1>6. 4 <= l
  <2>. DEFINE m == Len(p)
              o == Offset(p, m + 1)
  <2>1. m \in Nat /\ m + 1 \in 1 .. m + 1
    BY EntriesAre
  <2>2. o \in Nat
    BY <2>1, OffsetIs, Zenon
  <2>3. l = 4 + 4 * m + o
    BY <1>2, Zenon
  <2>. HIDE DEF m, o, l
  <2>. QED BY <2>1, <2>2, <2>3
<1>7. l \in Nat /\ Len(f) \in Nat
  BY <1>2
<1>8. b + 4 <= Len(f)
  <2>. HIDE DEF l
  <2>. QED BY <1>5, <1>6, <1>7
<1>9. Whole(f, b)
  BY <1>1, <1>5, <1>8, Zenon DEF Whole, HeaderWords
<1>. QED BY <1>1, <1>3, <1>4, <1>9, Zenon

-----------------------------------------------------------------------------
(* Filtering by id and time *)

\* An entry that is asked for.
Asked(e, ids, t0, t1) == e.id \in ids /\ InRange(e.ts, t0, t1)

\* The places of such entries.
Places(s, ids, t0, t1) == {i \in DOMAIN s : s[i].id \in ids /\ InRange(s[i].ts, t0, t1)}

\* The loop of Keep over the elements of s, taking those at I.
Taking(s, I, f) ==
  /\ Keep(s, I) = f[Len(s)] /\ f[0] = <<>>
  /\ \A i \in 1 .. Len(s) : f[i] = IF i \in I THEN Append(f[i - 1], s[i]) ELSE f[i - 1]

\* It runs.
LEMMA KeepTurns ==
  ASSUME NEW s, NEW I, Len(s) \in Nat
  PROVE \E f : Taking(s, I, f)
<1>. DEFINE f == CHOOSE f : Keeps(s, I, Len(s), f)
<1>1. Keeps(s, I, Len(s), f)
  BY KeepRuns, Zenon
<1>2. Keep(s, I) = f[Len(s)]
  BY Zenon DEF Keep, Keeps
<1>. HIDE DEF f
<1>3. \A i \in 0 .. Len(s) :
        f[i] = IF i = 0 THEN <<>> ELSE IF i \in I THEN Append(f[i - 1], s[i]) ELSE f[i - 1]
  BY <1>1, Zenon DEF Keeps
<1>4. 0 \in 0 .. Len(s) /\ \A i \in 1 .. Len(s) : i \in 0 .. Len(s) /\ i # 0
  OBVIOUS
<1>5. f[0] = <<>>
  BY <1>3, <1>4, Zenon
<1>6. \A i \in 1 .. Len(s) : f[i] = IF i \in I THEN Append(f[i - 1], s[i]) ELSE f[i - 1]
  BY <1>3, <1>4, Zenon
<1>7. Taking(s, I, f)
  BY <1>2, <1>5, <1>6, Zenon DEF Taking
<1>. QED BY <1>7, Zenon

\* One more entry.
WithinLonger(s, e, ids, t0, t1) ==
  Within(Append(s, e), ids, t0, t1)
    = IF Asked(e, ids, t0, t1) THEN Append(Within(s, ids, t0, t1), e) ELSE Within(s, ids, t0, t1)

\* It is added if it is asked for.
LEMMA WithinAppend ==
  ASSUME NEW T, NEW s \in Seq(T), NEW e \in T, NEW ids, NEW t0, NEW t1
  PROVE WithinLonger(s, e, ids, t0, t1)
<1>. DEFINE q == Append(s, e)
            n == Len(s)
            I == Places(s, ids, t0, t1)
            J == Places(q, ids, t0, t1)
<1>1. n \in Nat /\ DOMAIN s = 1 .. n
  OBVIOUS
<1>2. Len(q) = n + 1 /\ DOMAIN q = 1 .. n + 1 /\ q[n + 1] = e /\ \A i \in 1 .. n : q[i] = s[i]
  OBVIOUS
<1>3. Within(s, ids, t0, t1) = Keep(s, I) /\ Within(q, ids, t0, t1) = Keep(q, J)
  BY Zenon DEF Within, Places
<1>. HIDE DEF q
<1>4. n + 1 \in 1 .. n + 1 /\ n + 1 \in Nat /\ (n + 1) - 1 = n /\ \A i \in 1 .. n : i \in 1 .. n + 1
  BY <1>1
<1>5. \A i \in 1 .. n : i \in J <=> i \in I
  BY <1>1, <1>2, <1>4, Zenon DEF Places
<1>6. n + 1 \in J <=> Asked(e, ids, t0, t1)
  BY <1>2, <1>4, Zenon DEF Places, Asked
<1>. HIDE DEF I, J
<1>16. PICK f : Taking(s, I, f)
  BY <1>1, KeepTurns, Zenon
<1>7. /\ Keep(s, I) = f[n] /\ f[0] = <<>>
      /\ \A i \in 1 .. n : f[i] = IF i \in I THEN Append(f[i - 1], s[i]) ELSE f[i - 1]
  BY <1>16, Zenon DEF Taking
<1>17. PICK g : Taking(q, J, g)
  <2>1. Len(q) \in Nat
    BY <1>2, <1>4, Zenon
  <2>. QED BY <2>1, KeepTurns, Zenon
<1>8. /\ Keep(q, J) = g[n + 1] /\ g[0] = <<>>
      /\ \A i \in 1 .. n + 1 : g[i] = IF i \in J THEN Append(g[i - 1], q[i]) ELSE g[i - 1]
  BY <1>2, <1>17, Zenon DEF Taking
<1>. HIDE DEF n
<1>. DEFINE H == {k \in Nat : k \in 0 .. n => g[k] = f[k]}
<1>9. 0 \in H
  BY <1>7, <1>8, Zenon
<1>10. ASSUME NEW k \in Nat, k \in H PROVE k + 1 \in H
  <2>. SUFFICES ASSUME k + 1 \in 0 .. n PROVE g[k + 1] = f[k + 1]
    OBVIOUS
  <2>1. k \in 0 .. n /\ k + 1 \in 1 .. n /\ k + 1 \in 1 .. n + 1 /\ (k + 1) - 1 = k
    BY <1>1
  <2>2. g[k] = f[k] /\ q[k + 1] = s[k + 1] /\ (k + 1 \in J <=> k + 1 \in I)
    BY <1>2, <1>5, <1>10, <2>1, Zenon
  <2>3. g[k + 1] = IF k + 1 \in J THEN Append(g[k], q[k + 1]) ELSE g[k]
    BY <1>8, <2>1, Zenon
  <2>4. f[k + 1] = IF k + 1 \in I THEN Append(f[k], s[k + 1]) ELSE f[k]
    BY <1>7, <2>1, Zenon
  <2>. QED BY <2>2, <2>3, <2>4, Zenon
<1>11. \A k \in Nat : k \in H
  <2>. HIDE DEF H
  <2>. QED BY <1>9, <1>10, SetInduction, Zenon
<1>12. n \in 0 .. n
  BY <1>1
<1>13. g[n] = f[n]
  BY <1>1, <1>11, <1>12, Zenon
<1>14. g[n + 1] = IF n + 1 \in J THEN Append(g[n], q[n + 1]) ELSE g[n]
  BY <1>4, <1>8, Zenon
<1>15. Keep(q, J) = IF Asked(e, ids, t0, t1) THEN Append(Keep(s, I), e) ELSE Keep(s, I)
  BY <1>2, <1>6, <1>7, <1>8, <1>13, <1>14, Zenon
<1>. QED BY <1>3, <1>15, Zenon DEF WithinLonger, q

\* What is left are entries of the sequence.
LEMMA WithinIs ==
  ASSUME NEW T, NEW s \in Seq(T), NEW ids, NEW t0, NEW t1
  PROVE Within(s, ids, t0, t1) \in Seq(T)
<1>. DEFINE I == Places(s, ids, t0, t1)
<1>1. Within(s, ids, t0, t1) = Keep(s, I)
  BY Zenon DEF Within, Places
<1>. HIDE DEF I
<1>. QED BY <1>1, KeepIs, Zenon

\* Nothing is left if nothing is asked for.
LEMMA WithinNone ==
  ASSUME NEW T, NEW s \in Seq(T), NEW ids, NEW t0, NEW t1, \A i \in 1 .. Len(s) : ~Asked(s[i], ids, t0, t1)
  PROVE Within(s, ids, t0, t1) = <<>>
<1>. DEFINE I == Places(s, ids, t0, t1)
            k == Keep(s, I)
<1>1. Within(s, ids, t0, t1) = k
  BY Zenon DEF Within, Places
<1>2. DOMAIN s = 1 .. Len(s)
  OBVIOUS
<1>3. \A i : i \notin I
  BY <1>2, Zenon DEF Places, Asked
<1>. HIDE DEF I
<1>4. k \in Seq(T) /\ \E g : Part(s, I, Len(s), k, g)
  BY KeepIs, Zenon
<1>5. PICK g : Part(s, I, Len(s), k, g)
  BY <1>4, Zenon
<1>6. \A a \in 1 .. Len(k) : g[a] \in I
  BY <1>5, Zenon DEF Part
<1>7. \A a : a \notin 1 .. Len(k)
  BY <1>3, <1>6, Zenon
<1>. HIDE DEF k
<1>8. k = <<>>
  <2>1. k \in Seq(T)
    BY <1>4, Zenon
  <2>2. 1 \notin 1 .. Len(k)
    BY <1>7, Zenon
  <2>. QED BY <2>1, <2>2
<1>. QED BY <1>1, <1>8, Zenon

\* Everything is left if everything is asked for.
LEMMA WithinAll ==
  ASSUME NEW T, NEW s \in Seq(T), NEW ids, NEW t0, NEW t1, \A i \in 1 .. Len(s) : Asked(s[i], ids, t0, t1)
  PROVE Within(s, ids, t0, t1) = s
<1>. DEFINE I == Places(s, ids, t0, t1)
<1>1. Within(s, ids, t0, t1) = Keep(s, I)
  BY Zenon DEF Within, Places
<1>2. DOMAIN s = 1 .. Len(s)
  OBVIOUS
<1>3. \A i \in 1 .. Len(s) : i \in I
  BY <1>2, Zenon DEF Places, Asked
<1>. HIDE DEF I
<1>. QED BY <1>1, <1>3, KeepIs, Zenon

\* Filtering a joined sequence.
WithinJoined(s, b, ids, t0, t1) ==
  Within(s \o b, ids, t0, t1) = Within(s, ids, t0, t1) \o Within(b, ids, t0, t1)

\* It is joining the filtered ones.
LEMMA WithinJoin ==
  ASSUME NEW T, NEW s \in Seq(T), NEW b \in Seq(T), NEW ids, NEW t0, NEW t1
  PROVE WithinJoined(s, b, ids, t0, t1)
<1>. DEFINE W(x) == Within(x, ids, t0, t1)
            n == Len(b)
            p(m) == First(b, m)
            H == {m \in Nat : m <= n => WithinJoined(s, p(m), ids, t0, t1)}
<1>1. n \in Nat
  OBVIOUS
<1>2. ASSUME NEW m \in Nat, m <= n PROVE p(m) \in Seq(T)
  BY <1>2, FirstIs, Zenon DEF FirstGrown
<1>3. ASSUME NEW x \in Seq(T) PROVE W(x) \in Seq(T)
  BY WithinIs, Zenon
<1>4. 0 \in H
  <2>1. p(0) = <<>>
    BY DEF First
  <2>2. <<>> \in Seq(T) /\ s \o <<>> = s /\ \A i : i \notin 1 .. Len(<<>>)
    OBVIOUS
  <2>3. W(<<>>) = <<>>
    BY <2>2, WithinNone, Zenon
  <2>4. W(s) \o <<>> = W(s)
    <3>1. W(s) \in Seq(T)
      BY <1>3, Zenon
    <3>. HIDE DEF W
    <3>. QED BY <3>1
  <2>5. W(s \o <<>>) = W(s) \o W(<<>>)
    BY <2>2, <2>3, <2>4, Zenon
  <2>. QED BY <2>1, <2>5, Zenon DEF WithinJoined
<1>5. ASSUME NEW m \in Nat, m \in H PROVE m + 1 \in H
  <2>. SUFFICES ASSUME m + 1 <= n PROVE WithinJoined(s, p(m + 1), ids, t0, t1)
    <3>1. m + 1 \in Nat
      OBVIOUS
    <3>. QED BY <3>1, Zenon
  <2>. DEFINE e == b[m + 1]
              x == p(m)
              y == p(m + 1)
  <2>1. m <= n /\ m + 1 \in 1 .. n /\ m + 1 \in Nat
    BY <1>1
  <2>2. e \in T
    BY <2>1
  <2>3. x \in Seq(T) /\ y \in Seq(T)
    BY <1>2, <2>1, Zenon
  <2>4. y = Append(x, e)
    <3>1. Len(x) = m /\ \A i \in 1 .. m : x[i] = b[i]
      BY <2>1, FirstIs, Zenon DEF FirstGrown
    <3>2. Len(y) = m + 1 /\ \A i \in 1 .. m + 1 : y[i] = b[i]
      BY <2>1, FirstIs, Zenon DEF FirstGrown
    <3>. DEFINE z == Append(x, e)
    <3>. HIDE DEF x, y, e
    <3>3. z \in Seq(T) /\ Len(z) = m + 1 /\ \A i \in 1 .. m + 1 : z[i] = IF i = m + 1 THEN e ELSE x[i]
      BY <2>2, <2>3, <3>1
    <3>4. ASSUME NEW i \in 1 .. m + 1 PROVE y[i] = z[i]
      <4>1. i # m + 1 => i \in 1 .. m
        OBVIOUS
      <4>. HIDE DEF z
      <4>. QED BY <3>1, <3>2, <3>3, <4>1, Zenon DEF e
    <3>. HIDE DEF z
    <3>5. y = z
      BY <2>3, <3>2, <3>3, <3>4, SeqEqual, Zenon
    <3>. QED BY <3>5, Zenon DEF z
  <2>5. WithinJoined(s, x, ids, t0, t1)
    BY <1>5, <2>1, Zenon
  <2>6. W(s \o x) = W(s) \o W(x)
    BY <2>5, Zenon DEF WithinJoined
  <2>7. s \o x \in Seq(T)
    BY <2>3, JoinIs, Zenon
  <2>8. W(Append(x, e)) = IF Asked(e, ids, t0, t1) THEN Append(W(x), e) ELSE W(x)
    <3>1. WithinLonger(x, e, ids, t0, t1)
      BY <2>2, <2>3, WithinAppend, Zenon
    <3>. QED BY <3>1, Zenon DEF WithinLonger
  <2>9. W(Append(s \o x, e)) = IF Asked(e, ids, t0, t1) THEN Append(W(s \o x), e) ELSE W(s \o x)
    <3>1. WithinLonger(s \o x, e, ids, t0, t1)
      BY <2>2, <2>7, WithinAppend, Zenon
    <3>. QED BY <3>1, Zenon DEF WithinLonger
  <2>10. W(s) \in Seq(T) /\ W(x) \in Seq(T)
    BY <1>3, <2>3, Zenon
  <2>. HIDE DEF W, x, y, e
  <2>11. s \o Append(x, e) = Append(s \o x, e)
    BY <2>2, <2>3, SMTT(30)
  <2>12. W(s) \o Append(W(x), e) = Append(W(s) \o W(x), e)
    BY <2>2, <2>10
  <2>13. W(s \o y) = W(s) \o W(y)
    <3>1. CASE Asked(e, ids, t0, t1)
      BY <2>4, <2>6, <2>8, <2>9, <2>11, <2>12, <3>1, Zenon
    <3>2. CASE ~Asked(e, ids, t0, t1)
      BY <2>4, <2>6, <2>8, <2>9, <2>11, <3>2, Zenon
    <3>. QED BY <3>1, <3>2, Zenon
  <2>. QED BY <2>13, Zenon DEF WithinJoined, W, y
<1>6. \A m \in Nat : m \in H
  <2>. HIDE DEF H
  <2>. QED BY <1>4, <1>5, SetInduction, Zenon
<1>7. n <= n /\ p(n) = b
  <2>1. n <= n
    BY <1>1
  <2>. QED BY <2>1, FirstAll, Zenon
<1>8. WithinJoined(s, p(n), ids, t0, t1)
  BY <1>1, <1>6, <1>7, Zenon
<1>. QED BY <1>7, <1>8, Zenon

\* Each of the sequences ss, filtered.
Filtered(ss, ids, t0, t1) == [k \in 1 .. Len(ss) |-> Within(ss[k], ids, t0, t1)]

\* Filtering all of them.
WithinAllOf(ss, ids, t0, t1) ==
  Within(Concat(ss), ids, t0, t1) = Concat(Filtered(ss, ids, t0, t1))

\* Filtering the concatenation is concatenating what is left of each.
LEMMA WithinConcat ==
  ASSUME NEW T, NEW ss \in Seq(Seq(T)), NEW ids, NEW t0, NEW t1
  PROVE WithinAllOf(ss, ids, t0, t1) /\ Filtered(ss, ids, t0, t1) \in Seq(Seq(T))
<1>. DEFINE W(x) == Within(x, ids, t0, t1)
            fs == Filtered(ss, ids, t0, t1)
            n == Len(ss)
            H == {m \in Nat : m <= n => W(Concat(First(ss, m))) = Concat(First(fs, m))}
<1>1. n \in Nat
  OBVIOUS
<1>2. ASSUME NEW k \in 1 .. n PROVE ss[k] \in Seq(T)
  OBVIOUS
<1>3. ASSUME NEW x \in Seq(T) PROVE W(x) \in Seq(T)
  BY WithinIs, Zenon
<1>4. \A k \in 1 .. n : W(ss[k]) \in Seq(T)
  BY <1>2, <1>3, Zenon
<1>5. fs = [k \in 1 .. n |-> W(ss[k])]
  BY Zenon DEF Filtered
<1>. HIDE DEF W, fs
<1>6. fs \in Seq(Seq(T)) /\ Len(fs) = n
  BY <1>1, <1>4, <1>5
<1>7. \A k \in 1 .. n : fs[k] = W(ss[k])
  BY <1>5, Zenon
<1>8. 0 \in H
  <2>1. Concat(First(ss, 0)) = <<>> /\ Concat(First(fs, 0)) = <<>>
    BY ConcatNone, Zenon
  <2>2. <<>> \in Seq(T) /\ \A i : i \notin 1 .. Len(<<>>)
    OBVIOUS
  <2>3. W(<<>>) = <<>>
    BY <2>2, WithinNone, Zenon DEF W
  <2>. QED BY <2>1, <2>3, Zenon
<1>9. ASSUME NEW m \in Nat, m \in H PROVE m + 1 \in H
  <2>1. m + 1 \in Nat
    OBVIOUS
  <2>. SUFFICES ASSUME m + 1 <= n PROVE W(Concat(First(ss, m + 1))) = Concat(First(fs, m + 1))
    BY <2>1, Zenon
  <2>2. m <= n /\ m < n /\ m + 1 \in 1 .. n
    BY <1>1
  <2>3. W(Concat(First(ss, m))) = Concat(First(fs, m))
    BY <1>9, <2>2, Zenon
  <2>4. Longer(T, ss, m)
    BY <2>2, ConcatLonger, Zenon
  <2>5. Longer(T, fs, m)
    BY <1>6, <2>2, ConcatLonger, Zenon
  <2>6. WithinJoined(Concat(First(ss, m)), ss[m + 1], ids, t0, t1)
    <3>1. Concat(First(ss, m)) \in Seq(T) /\ ss[m + 1] \in Seq(T)
      BY <1>2, <2>2, <2>4, Zenon DEF Longer
    <3>. QED BY <3>1, WithinJoin, Zenon
  <2>7. W(Concat(First(ss, m)) \o ss[m + 1]) = W(Concat(First(ss, m))) \o W(ss[m + 1])
    BY <2>6, Zenon DEF WithinJoined, W
  <2>8. fs[m + 1] = W(ss[m + 1])
    BY <1>7, <2>2, Zenon
  <2>. QED BY <2>3, <2>4, <2>5, <2>7, <2>8, Zenon DEF Longer
<1>10. \A m \in Nat : m \in H
  <2>. HIDE DEF H
  <2>. QED BY <1>8, <1>9, SetInduction, Zenon
<1>11. n <= n /\ First(ss, n) = ss /\ First(fs, n) = fs
  <2>1. n <= n
    BY <1>1
  <2>. QED BY <1>6, <2>1, FirstAll, Zenon
<1>12. W(Concat(ss)) = Concat(fs)
  BY <1>1, <1>10, <1>11, Zenon
<1>. QED BY <1>6, <1>12, Zenon DEF WithinAllOf, W, fs
=============================================================================
