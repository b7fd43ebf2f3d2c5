---------------------------- MODULE StoreProofs -----------------------------
(***************************************************************************)
(* The store of series for any channels, samples and windows: what its     *)
(* queries answer, built on bisections, of series in order or not.         *)
(***************************************************************************)
EXTENDS SeriesStore, RetainProofs

-----------------------------------------------------------------------------
(* Samples in order, and the runs of a state *)

Sample == Times \X Nat
Run    == [s : Times, e : Times, v : Nat]

\* Run j is the one that sample k of p belongs to: the next begins at a later sample.
Owns(runs, p, k, j) ==
  /\ runs[j].v = p[k][2] /\ runs[j].s <= p[k][1]
  /\ j < Len(runs) => \E i \in k + 1 .. Len(p) : runs[j + 1].s = p[i][1]

\* The runs that push_state makes of samples in order of time: they span the
\* samples, each ends where the next begins, and each sample has its run.
Follows(runs, p) ==
  /\ runs = <<>> <=> p = <<>>
  /\ p # <<>> => /\ runs[1].s = p[1][1]
                 /\ runs[Len(runs)].e = p[Len(p)][1]
                 /\ runs[Len(runs)].v = p[Len(p)][2]
  /\ \A j \in 1 .. Len(runs) :
        /\ runs[j].s <= runs[j].e
        /\ j < Len(runs) => runs[j].e = runs[j + 1].s
        /\ \E k \in 1 .. Len(p) : runs[j].v = p[k][2]
  /\ \A k \in 1 .. Len(p) : \E j \in 1 .. Len(runs) : Owns(runs, p, k, j)

\* The store holds what was pushed: samples as they are, states as runs.
StoreInv ==
  /\ nchan \in 0 .. Len(Kinds)
  /\ pushed \in [Ids -> Seq(Sample)]
  /\ series = [c \in Ids |-> series[c]]
  /\ \A c \in Ids : IF Kinds[c] = "state"
                    THEN /\ series[c] \in Seq(Run)
                         /\ Sorted(c) => Follows(series[c], pushed[c])
                    ELSE series[c] = pushed[c]

\* Timestamps are naturals before the end of time.
LEMMA TimesAre == \A t \in Times : t \in Nat /\ t + 1 < Forever
BY TimesAssumption, SMTT(30) DEF Forever

\* A pushed sample goes to the end.
LEMMA AppendIs ==
  ASSUME NEW S, NEW s \in Seq(S), NEW x \in S
  PROVE /\ Append(s, x) \in Seq(S) /\ Len(Append(s, x)) = Len(s) + 1 /\ Len(s) \in Nat
        /\ Append(s, x) # <<>>
        /\ Append(s, x)[Len(s) + 1] = x
OBVIOUS

\* The samples before stay where they are.
LEMMA AppendKeeps ==
  ASSUME NEW S, NEW s \in Seq(S), NEW x \in S, NEW i \in 1 .. Len(s)
  PROVE Append(s, x)[i] = s[i]
OBVIOUS

\* Every sample has a time and a value.
LEMMA SamplesAre ==
  ASSUME NEW p \in Seq(Sample), NEW i \in 1 .. Len(p)
  PROVE /\ p[i] \in Sample /\ p[i] = <<p[i][1], p[i][2]>>
        /\ p[i][1] \in Times /\ p[i][1] \in Nat /\ p[i][2] \in Nat
<1>1. p[i] \in Times \X Nat
  BY ElementOfSeq, Zenon DEF Sample
<1>2. p[i][1] \in Times /\ p[i][2] \in Nat /\ p[i] = <<p[i][1], p[i][2]>>
  BY <1>1
<1>3. p[i][1] \in Nat
  BY <1>2, TimesAre, Zenon
<1>. QED BY <1>1, <1>2, <1>3, Zenon DEF Sample

\* Of samples in order, the ones before are in order too, and the last is latest.
LEMMA SortedPrefix ==
  ASSUME NEW p \in Seq(Sample), NEW x \in Sample, NonDecreasing(Append(p, x))
  PROVE NonDecreasing(p) /\ (p # <<>> => p[Len(p)][1] <= x[1])
<1>. DEFINE q == Append(p, x)
            n == Len(p)
<1>1. /\ q \in Seq(Sample) /\ Len(q) = n + 1 /\ n \in Nat /\ q[n + 1] = x
      /\ \A i \in 1 .. n : q[i] = p[i]
  OBVIOUS
<1>2. \A i \in 1 .. n : q[i][1] <= q[i + 1][1]
  <2>1. \A i \in 1 .. Len(q) - 1 : q[i][1] <= q[i + 1][1]
    BY Zenon DEF NonDecreasing
  <2>2. Len(q) - 1 = n
    BY <1>1
  <2>. QED BY <2>1, <2>2, Zenon
<1>. HIDE DEF q
<1>3. ASSUME NEW i \in 1 .. n - 1 PROVE p[i][1] <= p[i + 1][1]
  <2>1. i \in 1 .. n /\ i + 1 \in 1 .. n
    BY <1>1
  <2>. QED BY <1>1, <1>2, <2>1, Zenon
<1>4. p # <<>> => p[n][1] <= x[1]
  <2>. SUFFICES ASSUME p # <<>> PROVE p[n][1] <= x[1]
    BY Zenon
  <2>1. n \in 1 .. n
    BY EmptySeq
  <2>. QED BY <1>1, <1>2, <2>1, Zenon
<1>. QED BY <1>3, <1>4, Zenon DEF NonDecreasing

\* Numbers in order, next to each other or not.
LEMMA Ascending ==
  ASSUME NEW n \in Nat, NEW f \in [1 .. n -> Nat], \A i \in 1 .. n - 1 : f[i] <= f[i + 1],
         NEW i \in 1 .. n, NEW k \in i .. n
  PROVE f[i] <= f[k]
<1>. DEFINE T == {d \in Nat : i + d <= n => f[i] <= f[i + d]}
<1>1. 0 \in T
  OBVIOUS
<1>2. ASSUME NEW d \in Nat, d \in T PROVE d + 1 \in T
  <2>. SUFFICES ASSUME i + (d + 1) <= n PROVE f[i] <= f[i + (d + 1)]
    OBVIOUS
  <2>. DEFINE a == i + d
  <2>1. a \in 1 .. n - 1 /\ a \in 1 .. n /\ a + 1 \in 1 .. n /\ i + (d + 1) = a + 1 /\ i + d <= n
    OBVIOUS
  <2>2. f[i] <= f[a]
    BY <1>2, <2>1, Zenon
  <2>. HIDE DEF a
  <2>3. f[a] <= f[a + 1]
    BY <2>1, Zenon
  <2>4. f[i] \in Nat /\ f[a] \in Nat /\ f[a + 1] \in Nat
    BY <2>1, Zenon
  <2>5. f[i] <= f[a + 1]
    BY <2>2, <2>3, <2>4
  <2>. QED BY <2>1, <2>5, Zenon
<1>3. \A d \in Nat : d \in T
  <2>. HIDE DEF T
  <2>. QED BY <1>1, <1>2, SetInduction, Zenon
<1>4. k - i \in Nat /\ i + (k - i) = k /\ k <= n
  OBVIOUS
<1>5. k - i \in T
  BY <1>3, <1>4, Zenon
<1>. QED BY <1>4, <1>5, Zenon

\* Samples in order, next to each other or not.
LEMMA SortedAll ==
  ASSUME NEW p \in Seq(Sample), NonDecreasing(p), NEW i \in 1 .. Len(p), NEW k \in i .. Len(p)
  PROVE p[i][1] <= p[k][1]
<1>. DEFINE n == Len(p)
            f == [j \in 1 .. n |-> p[j][1]]
<1>1. n \in Nat
  OBVIOUS
<1>2. f \in [1 .. n -> Nat]
  BY SamplesAre, Zenon
<1>3. ASSUME NEW j \in 1 .. n - 1 PROVE f[j] <= f[j + 1]
  <2>1. j \in 1 .. n /\ j + 1 \in 1 .. n
    BY <1>1
  <2>2. f[j] = p[j][1] /\ f[j + 1] = p[j + 1][1]
    BY <2>1, Zenon
  <2>. QED BY <1>3, <2>2, Zenon DEF NonDecreasing
<1>4. i \in 1 .. n /\ k \in i .. n /\ k \in 1 .. n
  BY <1>1
<1>5. f[i] = p[i][1] /\ f[k] = p[k][1]
  BY <1>4, Zenon
<1>. HIDE DEF f, n
<1>6. f[i] <= f[k]
  BY <1>1, <1>2, <1>3, <1>4, Ascending, Zenon
<1>. QED BY <1>5, <1>6, Zenon

\* The last of n runs is ended at t, and one that begins and ends at t is added
\* unless the last has its value.
PushedTo(runs, n, t, v, q) ==
  /\ q \in Seq(Run) /\ n \in Nat /\ Len(q) \in {n, n + 1} /\ q # <<>> /\ Len(q) \in Nat \ {0}
  /\ Len(q) = n => n > 0 /\ q[n].v = v
  /\ Len(q) = n + 1 => q[n + 1].s = t /\ q[n + 1].e = t /\ q[n + 1].v = v
  /\ \A j \in 1 .. n : /\ q[j].s = runs[j].s /\ q[j].v = runs[j].v
                       /\ q[j].e = IF j = n THEN t ELSE runs[j].e

\* What push_state makes of the runs.
LEMMA PushStateIs ==
  ASSUME NEW runs \in Seq(Run), NEW t \in Times, NEW v \in Nat
  PROVE PushedTo(runs, Len(runs), t, v, PushState(runs, t, v))
<1>. DEFINE n == Len(runs)
            closed == IF runs = <<>> THEN <<>> ELSE [runs EXCEPT ![n].e = t]
            new == [s |-> t, e |-> t, v |-> v]
            q == PushState(runs, t, v)
<1>1. n \in Nat /\ (runs = <<>> <=> n = 0)
  BY EmptySeq
<1>2. /\ closed \in Seq(Run) /\ Len(closed) = n
      /\ \A j \in 1 .. n : /\ closed[j].s = runs[j].s /\ closed[j].v = runs[j].v
                           /\ closed[j].e = IF j = n THEN t ELSE runs[j].e
  <2>1. CASE runs = <<>>
    BY <1>1, <2>1
  <2>2. CASE runs # <<>>
    <3>. DEFINE r == [runs[n] EXCEPT !.e = t]
    <3>1. n \in 1 .. n
      BY <1>1, <2>2
    <3>2. runs[n] \in Run
      BY <3>1, ElementOfSeq, Zenon
    <3>3. r \in Run /\ r.s = runs[n].s /\ r.e = t /\ r.v = runs[n].v
      BY <3>2, Zenon DEF Run
    <3>4. closed = [runs EXCEPT ![n] = r]
      BY <2>2, Zenon
    <3>. HIDE DEF r, closed
    <3>5. /\ closed \in Seq(Run) /\ Len(closed) = n
          /\ \A j \in 1 .. n : closed[j] = IF j = n THEN r ELSE runs[j]
      BY <3>1, <3>3, <3>4
    <3>. QED BY <3>3, <3>5, Zenon
  <2>. QED BY <2>1, <2>2, Zenon
<1>3. new \in Run /\ new.s = t /\ new.e = t /\ new.v = v
  BY Zenon DEF Run
<1>4. q = IF runs # <<>> /\ runs[n].v = v THEN closed ELSE Append(closed, new)
  BY Zenon DEF PushState
<1>. HIDE DEF closed, new
<1>5. CASE runs # <<>> /\ runs[n].v = v
  <2>1. q = closed
    BY <1>4, <1>5, Zenon
  <2>2. n > 0 /\ n \in 1 .. n /\ n # n + 1
    BY <1>1, <1>5
  <2>. HIDE DEF q
  <2>3. q # <<>> /\ Len(q) \in Nat \ {0}
    BY <1>2, <2>1, <2>2
  <2>4. q[n].v = v
    BY <1>2, <1>5, <2>1, <2>2, Zenon
  <2>5. Len(q) = n
    BY <1>2, <2>1, Zenon
  <2>6. PushedTo(runs, n, t, v, q)
    BY <1>1, <1>2, <2>1, <2>2, <2>3, <2>4, <2>5, Zenon DEF PushedTo
  <2>. QED BY <2>6, Zenon DEF q
<1>6. CASE ~(runs # <<>> /\ runs[n].v = v)
  <2>1. q = Append(closed, new)
    BY <1>4, <1>6, Zenon
  <2>. HIDE DEF q
  <2>2. /\ q \in Seq(Run) /\ Len(q) = n + 1 /\ q # <<>> /\ q[n + 1] = new
        /\ \A j \in 1 .. n : q[j] = closed[j]
    BY <1>2, <1>3, <2>1
  <2>3. n # n + 1 /\ n + 1 \in Nat \ {0}
    BY <1>1
  <2>4. /\ q[n + 1].s = t /\ q[n + 1].e = t /\ q[n + 1].v = v
        /\ Len(q) \in {n, n + 1} /\ Len(q) # n /\ Len(q) \in Nat \ {0}
    BY <1>3, <2>2, <2>3, Zenon
  <2>5. \A j \in 1 .. n : /\ q[j].s = runs[j].s /\ q[j].v = runs[j].v
                         /\ q[j].e = IF j = n THEN t ELSE runs[j].e
    BY <1>2, <2>2, Zenon
  <2>6. PushedTo(runs, n, t, v, q)
    BY <1>1, <2>2, <2>4, <2>5, Zenon DEF PushedTo
  <2>. QED BY <2>6, Zenon DEF q
<1>. QED BY <1>5, <1>6, Zenon

\* push_state keeps up with the samples.
LEMMA PushFollows ==
  ASSUME NEW runs \in Seq(Run), NEW p \in Seq(Sample), NEW t \in Times, NEW v \in Nat,
         Follows(runs, p), p # <<>> => p[Len(p)][1] <= t
  PROVE Follows(PushState(runs, t, v), Append(p, <<t, v>>))
<1>. DEFINE x == <<t, v>>
            r == Append(p, x)
            q == PushState(runs, t, v)
            n == Len(runs)
            m == Len(p)
            l == Len(q)
<1>1. PushedTo(runs, n, t, v, q)
  BY PushStateIs, Zenon
<1>2. x \in Sample /\ x[1] = t /\ x[2] = v /\ t \in Nat
  BY TimesAre, Zenon DEF Sample
<1>. HIDE DEF x, q
<1>3. /\ Len(r) = m + 1 /\ m \in Nat /\ r # <<>> /\ r[m + 1] = x
      /\ \A i \in 1 .. m : r[i] = p[i]
  <2>1. Len(r) = m + 1 /\ m \in Nat /\ r # <<>> /\ r[m + 1] = x
    <3>1. x \in Sample
      BY <1>2, Zenon
    <3>. QED BY <3>1, AppendIs, Zenon
  <2>2. ASSUME NEW i \in 1 .. m PROVE r[i] = p[i]
    BY <1>2, AppendKeeps, Zenon
  <2>. QED BY <2>1, <2>2, Zenon
<1>. HIDE DEF r
<1>4. /\ n \in Nat /\ l \in {n, n + 1} /\ q # <<>> /\ l \in Nat \ {0} /\ q \in Seq(Run)
      /\ l = n => n > 0 /\ q[n].v = v
      /\ l = n + 1 => q[n + 1].s = t /\ q[n + 1].e = t /\ q[n + 1].v = v
      /\ \A j \in 1 .. n : q[j].s = runs[j].s /\ q[j].v = runs[j].v
      /\ \A j \in 1 .. n : q[j].e = IF j = n THEN t ELSE runs[j].e
  BY <1>1, Zenon DEF PushedTo
<1>5. n = 0 <=> m = 0
  <2>1. (runs = <<>> <=> n = 0) /\ (p = <<>> <=> m = 0)
    BY EmptySeq, Zenon
  <2>. QED BY <2>1, Zenon DEF Follows
<1>6. m # 0 => /\ runs[1].s = p[1][1] /\ runs[n].e = p[m][1] /\ runs[n].v = p[m][2]
               /\ runs[n].e <= t
  <2>1. m # 0 => p # <<>>
    OBVIOUS
  <2>. QED BY <2>1, Zenon DEF Follows
<1>7. \A j \in 1 .. n : /\ runs[j].s <= runs[j].e
                        /\ j < n => runs[j].e = runs[j + 1].s
                        /\ \E k \in 1 .. m : runs[j].v = p[k][2]
  BY Zenon DEF Follows
<1>8. \A k \in 1 .. m : \E j \in 1 .. n : Owns(runs, p, k, j)
  BY Zenon DEF Follows
<1>9. \A j \in 1 .. n : runs[j].s \in Nat /\ runs[j].e \in Nat
  <2>1. \A j \in 1 .. n : runs[j] \in Run
    BY ElementOfSeq, Zenon
  <2>2. \A j \in 1 .. n : runs[j].s \in Times /\ runs[j].e \in Times
    BY <2>1, Zenon DEF Run
  <2>. QED BY <2>2, TimesAre, Zenon
<1>. HIDE DEF n, m, l
<1>10. /\ q[1].s = r[1][1] /\ q[l].e = r[m + 1][1] /\ q[l].v = r[m + 1][2]
  <2>1. q[1].s = r[1][1]
    <3>1. CASE m = 0
      BY <1>2, <1>3, <1>4, <1>5, <3>1
    <3>2. CASE m # 0
      BY <1>3, <1>4, <1>5, <1>6, <3>2
    <3>. QED BY <3>1, <3>2, Zenon
  <2>2. q[l].e = t /\ q[l].v = v
    <3>1. CASE l = n
      BY <1>4, <3>1
    <3>2. CASE l = n + 1
      BY <1>4, <3>2, Zenon
    <3>. QED BY <1>4, <3>1, <3>2, Zenon
  <2>. QED BY <1>2, <1>3, <2>1, <2>2, Zenon
<1>11. ASSUME NEW j \in 1 .. l
       PROVE /\ q[j].s <= q[j].e
             /\ j < l => q[j].e = q[j + 1].s
             /\ \E k \in 1 .. m + 1 : q[j].v = r[k][2]
  <2>1. CASE j = n + 1
    <3>1. l = n + 1 /\ ~(j < l)
      BY <1>4, <2>1
    <3>2. q[j].s <= q[j].e
      BY <1>2, <1>4, <2>1, <3>1
    <3>3. q[j].v = r[m + 1][2] /\ m + 1 \in 1 .. m + 1
      BY <1>2, <1>3, <1>4, <2>1, <3>1
    <3>. QED BY <3>1, <3>2, <3>3, Zenon
  <2>2. CASE j = n
    <3>1. n # 0 /\ m # 0 /\ j \in 1 .. n
      BY <1>4, <1>5, <2>2
    <3>2. q[j].s = runs[n].s /\ q[j].e = t
      BY <1>4, <2>2, <3>1, Zenon
    <3>3. q[j].s <= q[j].e
      <4>1. runs[n].s \in Nat /\ runs[n].e \in Nat /\ runs[n].s <= runs[n].e /\ runs[n].e <= t
        BY <1>6, <1>7, <1>9, <2>2, <3>1, Zenon
      <4>2. runs[n].s <= t
        BY <1>2, <4>1, SMTT(30)
      <4>. QED BY <3>2, <4>2, Zenon
    <3>4. j < l => q[j].e = q[j + 1].s
      BY <1>4, <2>2, <3>2
    <3>5. PICK k \in 1 .. m : runs[j].v = p[k][2]
      BY <1>7, <3>1, Zenon
    <3>6. k \in 1 .. m + 1 /\ q[j].v = r[k][2]
      BY <1>3, <1>4, <3>1, <3>5
    <3>. QED BY <3>3, <3>4, <3>6, Zenon
  <2>3. CASE j \in 1 .. n - 1
    <3>1. j \in 1 .. n /\ j + 1 \in 1 .. n /\ j < n /\ j # n
      BY <1>4, <2>3
    <3>2. q[j].s = runs[j].s /\ q[j].e = runs[j].e /\ q[j + 1].s = runs[j + 1].s
      BY <1>4, <3>1, Zenon
    <3>3. PICK k \in 1 .. m : runs[j].v = p[k][2]
      BY <1>7, <3>1, Zenon
    <3>4. k \in 1 .. m + 1 /\ q[j].v = r[k][2]
      BY <1>3, <1>4, <3>1, <3>3
    <3>. QED BY <1>7, <3>1, <3>2, <3>4, Zenon
  <2>. QED BY <1>4, <2>1, <2>2, <2>3
<1>12. ASSUME NEW k \in 1 .. m + 1 PROVE \E j \in 1 .. l : Owns(q, r, k, j)
  <2>1. CASE k = m + 1
    <3>1. l \in 1 .. l /\ ~(l < l)
      BY <1>4
    <3>2. q[l].v = r[k][2] /\ q[l].s <= r[k][1]
      BY <1>10, <1>11, <2>1, <3>1, Zenon
    <3>3. Owns(q, r, k, l)
      BY <3>1, <3>2, Zenon DEF Owns, l
    <3>. QED BY <3>1, <3>3, Zenon
  <2>2. CASE k \in 1 .. m
    <3>1. PICK j \in 1 .. n : Owns(runs, p, k, j)
      BY <1>8, <2>2, Zenon
    <3>2. runs[j].v = p[k][2] /\ runs[j].s <= p[k][1]
      BY <3>1, Zenon DEF Owns
    <3>3. j < n => \E i \in k + 1 .. m : runs[j + 1].s = p[i][1]
      BY <3>1, Zenon DEF Owns, n, m
    <3>4. q[j].v = r[k][2] /\ q[j].s <= r[k][1] /\ j \in 1 .. l
      BY <1>3, <1>4, <2>2, <3>2, SMTT(30)
    <3>5. ASSUME j < l PROVE \E i \in k + 1 .. m + 1 : q[j + 1].s = r[i][1]
      <4>1. CASE j < n
        <5>1. PICK i \in k + 1 .. m : runs[j + 1].s = p[i][1]
          BY <3>3, <4>1, Zenon
        <5>2. i \in k + 1 .. m + 1 /\ i \in 1 .. m /\ j + 1 \in 1 .. n
          BY <1>3, <1>4, <2>2, <4>1
        <5>3. q[j + 1].s = r[i][1]
          BY <1>3, <1>4, <5>1, <5>2, Zenon
        <5>. QED BY <5>2, <5>3, Zenon
      <4>2. CASE j = n
        <5>1. l = n + 1 /\ m + 1 \in k + 1 .. m + 1
          BY <1>3, <1>4, <2>2, <3>5, <4>2
        <5>2. q[j + 1].s = r[m + 1][1]
          BY <1>2, <1>3, <1>4, <4>2, <5>1, Zenon
        <5>. QED BY <5>1, <5>2, Zenon
      <4>. QED BY <1>4, <4>1, <4>2
    <3>6. Len(r) = m + 1 /\ Len(q) = l
      BY <1>3, Zenon DEF l
    <3>7. Owns(q, r, k, j)
      BY <3>4, <3>5, <3>6, Zenon DEF Owns
    <3>. QED BY <3>4, <3>7, Zenon
  <2>. QED BY <1>3, <2>1, <2>2
<1>13. Len(r) = m + 1 /\ Len(q) = l
  BY <1>3, Zenon DEF l
<1>14. Follows(q, r)
  <2>1. /\ q[1].s = r[1][1] /\ q[Len(q)].e = r[Len(r)][1] /\ q[Len(q)].v = r[Len(r)][2]
    BY <1>10, <1>13, Zenon
  <2>2. \A j \in 1 .. Len(q) : /\ q[j].s <= q[j].e
                               /\ j < Len(q) => q[j].e = q[j + 1].s
                               /\ \E k \in 1 .. Len(r) : q[j].v = r[k][2]
    BY <1>11, <1>13, Zenon
  <2>3. \A k \in 1 .. Len(r) : \E j \in 1 .. Len(q) : Owns(q, r, k, j)
    BY <1>12, <1>13, Zenon
  <2>. QED BY <1>3, <1>4, <2>1, <2>2, <2>3, Zenon DEF Follows
<1>. QED BY <1>14, Zenon DEF q, r, x

-----------------------------------------------------------------------------
(* The invariant *)

\* Every channel registered has a kind and every kind its values.
LEMMA KindsAre ==
  /\ Ids = 1 .. Len(Kinds) /\ Len(Kinds) \in Nat
  /\ \A c \in Ids : Kinds[c] \in {"scalar", "state", "text"} /\ Vals[Kinds[c]] \subseteq Nat
<1>1. Ids = 1 .. Len(Kinds) /\ Len(Kinds) \in Nat
  BY KindsAssumption DEF Ids
<1>2. ASSUME NEW c \in Ids PROVE Kinds[c] \in {"scalar", "state", "text"}
  BY <1>1, KindsAssumption, ElementOfSeq, Zenon
<1>. QED BY <1>1, <1>2, ValsAssumption, Zenon

\* An empty store holds what was pushed to it.
LEMMA EmptyStore == <<>> \in Seq(Run) /\ <<>> \in Seq(Sample) /\ Follows(<<>>, <<>>)
<1>. DEFINE e == <<>>
<1>1. e \in Seq(Run) /\ e \in Seq(Sample) /\ Len(e) = 0
  BY EmptySeq, Zenon
<1>2. 1 .. 0 = {}
  OBVIOUS
<1>. HIDE DEF e
<1>3. Follows(e, e)
  <2>1. \A j \in 1 .. Len(e) : FALSE
    BY <1>1, <1>2, Zenon
  <2>. QED BY <2>1, Zenon DEF Follows, e
<1>. QED BY <1>1, <1>3, Zenon DEF e

\* Pushing a sample to a channel keeps what the invariant says of it.
LEMMA PushKeeps ==
  ASSUME StoreInv, NEW c \in Ids, NEW t \in Times, NEW v \in Nat,
         pushed'[c] = Append(pushed[c], <<t, v>>),
         series'[c] = IF Kinds[c] = "state" THEN PushState(series[c], t, v)
                      ELSE Append(series[c], <<t, v>>)
  PROVE /\ pushed'[c] \in Seq(Sample)
        /\ IF Kinds[c] = "state"
           THEN series'[c] \in Seq(Run) /\ (Sorted(c)' => Follows(series'[c], pushed'[c]))
           ELSE series'[c] = pushed'[c]
<1>. DEFINE p == pushed[c]
            x == <<t, v>>
<1>1. x \in Sample /\ x[1] = t
  BY Zenon DEF Sample
<1>2. p \in Seq(Sample)
  BY Zenon DEF StoreInv
<1>. HIDE DEF x
<1>3. pushed'[c] = Append(p, x)
  BY Zenon DEF x
<1>. HIDE DEF p
<1>4. pushed'[c] \in Seq(Sample)
  BY <1>1, <1>2, <1>3, AppendIs, ZenonT(30)
<1>5. CASE Kinds[c] = "state"
  <2>. DEFINE runs == series[c]
  <2>1. runs \in Seq(Run) /\ (Sorted(c) => Follows(runs, p))
    BY <1>5, Zenon DEF StoreInv, p
  <2>2. series'[c] = PushState(runs, t, v)
    BY <1>5, Zenon
  <2>. HIDE DEF runs
  <2>3. series'[c] \in Seq(Run)
    <3>1. PushedTo(runs, Len(runs), t, v, series'[c])
      BY <2>1, <2>2, PushStateIs, Zenon
    <3>. QED BY <3>1, Zenon DEF PushedTo
  <2>4. ASSUME Sorted(c)' PROVE Follows(series'[c], pushed'[c])
    <3>1. NonDecreasing(Append(p, x))
      BY <1>3, <2>4, Zenon DEF Sorted
    <3>2. NonDecreasing(p) /\ (p # <<>> => p[Len(p)][1] <= t)
      BY <1>1, <1>2, <3>1, SortedPrefix, Zenon
    <3>3. Follows(runs, p)
      BY <2>1, <3>2, Zenon DEF Sorted, p
    <3>4. Follows(PushState(runs, t, v), Append(p, x))
      BY <1>2, <2>1, <3>2, <3>3, PushFollows, Zenon DEF x
    <3>. QED BY <1>3, <2>2, <3>4, Zenon
  <2>. QED BY <1>4, <1>5, <2>3, <2>4, Zenon
<1>6. CASE Kinds[c] # "state"
  <2>1. series[c] = p
    BY <1>6, Zenon DEF StoreInv, p
  <2>2. series'[c] = Append(series[c], x)
    BY <1>6, Zenon DEF x
  <2>. QED BY <1>3, <1>4, <1>6, <2>1, <2>2, Zenon
<1>. QED BY <1>5, <1>6, Zenon

\* Every call on the store keeps the invariant.
LEMMA StoreStep == StoreInv /\ [StoreNext]_storeVars => StoreInv'
<1>. SUFFICES ASSUME StoreInv, [StoreNext]_storeVars PROVE StoreInv'
  BY Zenon
<1>1. CASE Register
  <2>1. nchan' \in 0 .. Len(Kinds)
    BY <1>1, KindsAre DEF Register, StoreInv
  <2>2. series' = series /\ pushed' = pushed
    BY <1>1, Zenon DEF Register
  <2>. QED BY <2>1, <2>2, Zenon DEF StoreInv, Sorted
<1>2. ASSUME NEW c \in Ids, NEW t \in Times, NEW v \in Vals[Kinds[c]], Push(c, t, v) PROVE StoreInv'
  <2>1. v \in Nat
    BY <1>2, KindsAre, Zenon
  <2>2. nchan' = nchan
    BY <1>2, Zenon DEF Push
  <2>3. CASE c > nchan
    <3>1. series' = [series EXCEPT ![c] = series[c]] /\ pushed' = [pushed EXCEPT ![c] = pushed[c]]
      BY <1>2, <2>3, Zenon DEF Push
    <3>2. series' = series
      BY <3>1, Zenon DEF StoreInv
    <3>3. pushed' = pushed
      BY <3>1, Zenon DEF StoreInv
    <3>. QED BY <2>2, <3>2, <3>3, Zenon DEF StoreInv, Sorted
  <2>4. CASE ~(c > nchan)
    <3>. DEFINE y == IF Kinds[c] = "state" THEN PushState(series[c], t, v)
                     ELSE Append(series[c], <<t, v>>)
                z == Append(pushed[c], <<t, v>>)
    <3>1. series' = [series EXCEPT ![c] = y] /\ pushed' = [pushed EXCEPT ![c] = z]
      BY <1>2, <2>4, Zenon DEF Push
    <3>. HIDE DEF y, z
    <3>2. /\ series' = [d \in Ids |-> IF d = c THEN y ELSE series[d]]
          /\ pushed' = [d \in Ids |-> IF d = c THEN z ELSE pushed[d]]
      BY <3>1, Zenon DEF StoreInv
    <3>3. /\ \A d \in Ids : series'[d] = IF d = c THEN y ELSE series[d]
          /\ \A d \in Ids : pushed'[d] = IF d = c THEN z ELSE pushed[d]
      BY <3>2, Zenon
    <3>4. series'[c] = y /\ pushed'[c] = z
      BY <3>3, Zenon
    <3>5. /\ pushed'[c] \in Seq(Sample)
          /\ IF Kinds[c] = "state"
             THEN series'[c] \in Seq(Run) /\ (Sorted(c)' => Follows(series'[c], pushed'[c]))
             ELSE series'[c] = pushed'[c]
      BY <2>1, <3>4, PushKeeps, Zenon DEF y, z
    <3>6. \A d \in Ids : d # c => series'[d] = series[d] /\ pushed'[d] = pushed[d]
      BY <3>3, Zenon
    <3>7. pushed' \in [Ids -> Seq(Sample)]
      <4>1. \A d \in Ids : pushed'[d] \in Seq(Sample)
        BY <3>5, <3>6, Zenon DEF StoreInv
      <4>. QED BY <3>2, <4>1, Zenon
    <3>8. series' = [d \in Ids |-> series'[d]]
      BY <3>2, Zenon
    <3>9. ASSUME NEW d \in Ids
          PROVE IF Kinds[d] = "state"
                THEN series'[d] \in Seq(Run) /\ (Sorted(d)' => Follows(series'[d], pushed'[d]))
                ELSE series'[d] = pushed'[d]
      <4>1. CASE d = c
        BY <3>5, <4>1, Zenon
      <4>2. CASE d # c
        BY <3>6, <4>2, Zenon DEF StoreInv, Sorted
      <4>. QED BY <4>1, <4>2, Zenon
    <3>. QED BY <2>2, <3>7, <3>8, <3>9, Zenon DEF StoreInv
  <2>. QED BY <2>3, <2>4, Zenon
<1>3. CASE Clear
  <2>1. nchan' \in 0 .. Len(Kinds)
    BY <1>3, KindsAre DEF Clear
  <2>2. series' = [c \in Ids |-> <<>>] /\ pushed' = [c \in Ids |-> <<>>]
    BY <1>3, Zenon DEF Clear, Empty
  <2>3. ASSUME NEW c \in Ids
        PROVE /\ series'[c] = <<>> /\ pushed'[c] = <<>> /\ series'[c] \in Seq(Run)
              /\ pushed'[c] \in Seq(Sample) /\ Follows(series'[c], pushed'[c])
    <3>1. series'[c] = <<>> /\ pushed'[c] = <<>>
      BY <2>2, Zenon
    <3>2. /\ series'[c] \in Seq(Run) /\ pushed'[c] \in Seq(Sample)
          /\ Follows(series'[c], pushed'[c])
      BY <3>1, EmptyStore, Zenon
    <3>. QED BY <3>1, <3>2, Zenon
  <2>4. pushed' \in [Ids -> Seq(Sample)]
    BY <2>2, <2>3, Zenon
  <2>5. series' = [c \in Ids |-> series'[c]]
    BY <2>2, Zenon
  <2>. QED BY <2>1, <2>3, <2>4, <2>5, Zenon DEF StoreInv
<1>4. CASE UNCHANGED storeVars
  BY <1>4, Zenon DEF storeVars, StoreInv, Sorted
<1>. QED BY <1>1, <1>2, <1>3, <1>4, Zenon DEF StoreNext

\* The store holds what was pushed, the samples of a state channel as runs.
THEOREM StoreInvariant == Spec => []StoreInv
<1>1. StoreInit => StoreInv
  <2>. SUFFICES ASSUME StoreInit PROVE StoreInv
    BY Zenon
  <2>1. nchan \in 0 .. Len(Kinds)
    BY KindsAre DEF StoreInit
  <2>2. series = [c \in Ids |-> <<>>] /\ pushed = [c \in Ids |-> <<>>]
    BY Zenon DEF StoreInit, Empty
  <2>3. ASSUME NEW c \in Ids
        PROVE /\ series[c] = <<>> /\ pushed[c] = <<>> /\ series[c] \in Seq(Run)
              /\ pushed[c] \in Seq(Sample) /\ Follows(series[c], pushed[c])
    <3>1. series[c] = <<>> /\ pushed[c] = <<>>
      BY <2>2, Zenon
    <3>. QED BY <3>1, EmptyStore, Zenon
  <2>4. pushed \in [Ids -> Seq(Sample)]
    BY <2>2, <2>3, Zenon
  <2>5. series = [c \in Ids |-> series[c]]
    BY <2>2, Zenon
  <2>. QED BY <2>1, <2>3, <2>4, <2>5, Zenon DEF StoreInv
<1>. QED BY <1>1, StoreStep, PTL DEF Spec

-----------------------------------------------------------------------------
(* Samples in any order *)

\* The ends of windows are naturals before the end of time.
LEMMA EndsAre ==
  /\ Max(Times) \in Times
  /\ \A t \in Ends : t \in Nat /\ t < Forever
<1>1. PICK n \in 0 .. Forever - 2 : Times = 0 .. n
  BY TimesAssumption, Zenon
<1>2. n \in Nat /\ n + 1 < Forever
  BY <1>1 DEF Forever
<1>3. Max(Times) = n
  <2>1. n \in Times /\ \A y \in Times : n >= y
    BY <1>1, <1>2
  <2>2. \A x \in Times : (\A y \in Times : x >= y) => x = n
    BY <1>1, <1>2
  <2>. QED BY <2>1, <2>2, Zenon DEF Max
<1>4. ASSUME NEW t \in Ends PROVE t \in Nat /\ t < Forever
  BY <1>1, <1>2, <1>3 DEF Ends, Forever
<1>5. n \in Times
  BY <1>1, <1>2
<1>. QED BY <1>3, <1>4, <1>5, Zenon

\* A place that is not the last has a next.
LEMMA NextPlace ==
  ASSUME NEW n \in Nat, NEW i \in 0 .. n, i # n
  PROVE i + 1 \in 1 .. n
OBVIOUS

\* Where the search for the first sample not before t ends, sorted or not.
LEMMA FirstNotBeforeAt ==
  ASSUME NEW s \in Seq(Sample), NEW t
  PROVE /\ FirstNotBefore(s, t) \in 0 .. Len(s)
        /\ FirstNotBefore(s, t) # 0 => s[FirstNotBefore(s, t)][1] < t
        /\ FirstNotBefore(s, t) # Len(s) => ~(s[FirstNotBefore(s, t) + 1][1] < t)
<1>. DEFINE yes == {i \in DOMAIN s : s[i][1] < t}
            i == FirstNotBefore(s, t)
<1>1. Len(s) \in Nat /\ DOMAIN s = 1 .. Len(s)
  OBVIOUS
<1>2. i = PartitionPoint(Len(s), yes)
  BY Zenon DEF FirstNotBefore
<1>. HIDE DEF yes, i
<1>3. i \in 0 .. Len(s) /\ (i = 0 \/ i \in yes) /\ (i = Len(s) \/ i + 1 \notin yes)
  BY <1>1, <1>2, PartitionPointAt, Zenon
<1>4. i # 0 => s[i][1] < t
  BY <1>3, Zenon DEF yes
<1>5. i # Len(s) => ~(s[i + 1][1] < t)
  <2>1. i \in 0 .. Len(s)
    BY <1>3, Zenon
  <2>2. i # Len(s) => i + 1 \in 1 .. Len(s)
    BY <1>1, <2>1, NextPlace, Zenon
  <2>. QED BY <1>1, <1>3, <2>2, Zenon DEF yes
<1>. QED BY <1>3, <1>4, <1>5, Zenon DEF i

\* Of two searches the one for the later time never ends first, sorted or not.
LEMMA SearchesInOrder ==
  ASSUME NEW s \in Seq(Sample), NEW t0 \in Nat, NEW t1 \in Nat, t0 <= t1
  PROVE FirstNotBefore(s, t0) <= FirstNotBefore(s, t1)
<1>. DEFINE yes(t) == {i \in DOMAIN s : s[i][1] < t}
<1>1. Len(s) \in Nat /\ DOMAIN s = 1 .. Len(s)
  OBVIOUS
<1>2. ASSUME NEW i \in DOMAIN s, s[i][1] < t0 PROVE s[i][1] < t1
  <2>1. s[i][1] \in Nat
    BY <1>1, SamplesAre, Zenon
  <2>. QED BY <1>2, <2>1
<1>3. yes(t0) \subseteq yes(t1)
  BY <1>2, Zenon
<1>4. FirstNotBefore(s, t0) = PartitionPoint(Len(s), yes(t0))
  BY Zenon DEF FirstNotBefore
<1>5. FirstNotBefore(s, t1) = PartitionPoint(Len(s), yes(t1))
  BY Zenon DEF FirstNotBefore
<1>. HIDE DEF yes
<1>. QED BY <1>1, <1>3, <1>4, <1>5, PartitionPointMonotone, Zenon

\* A channel that is registered and not of states holds its samples.
LEMMA SeriesIsPushed ==
  ASSUME StoreInv, NEW c \in Known, Kinds[c] # "state"
  PROVE c \in Ids /\ series[c] = pushed[c] /\ pushed[c] \in Seq(Sample)
<1>1. c \in Ids
  BY KindsAre DEF Known, StoreInv
<1>. QED BY <1>1, Zenon DEF StoreInv

\* samples[lo..hi] never runs backwards.
LEMMA SlicesInOrder == StoreInv => SliceInOrder
<1>. SUFFICES ASSUME StoreInv, NEW c \in Known \ Of("state"), NEW w \in Windows
              PROVE LET ends == SliceEnds(series[c], w[1], w[2])
                    IN ends[1] <= ends[2] /\ ends[2] <= Len(series[c])
  BY Zenon DEF SliceInOrder
<1>. DEFINE s == series[c]
<1>1. c \in Known /\ Kinds[c] # "state"
  BY Zenon DEF Of
<1>2. s \in Seq(Sample)
  BY <1>1, SeriesIsPushed, Zenon
<1>3. w[1] \in Nat /\ w[2] \in Nat /\ w[1] <= w[2]
  <2>1. w[1] \in Ends /\ w[2] \in Ends /\ w[1] < w[2]
    BY Zenon DEF Windows
  <2>. QED BY <2>1, EndsAre
<1>. HIDE DEF s
<1>4. FirstNotBefore(s, w[1]) <= FirstNotBefore(s, w[2])
  BY <1>2, <1>3, SearchesInOrder, Zenon
<1>5. FirstNotBefore(s, w[2]) \in 0 .. Len(s)
  BY <1>2, FirstNotBeforeAt, Zenon
<1>6. FirstNotBefore(s, w[2]) <= Len(s)
  BY <1>2, <1>5
<1>7. SliceEnds(s, w[1], w[2])[1] = FirstNotBefore(s, w[1]) /\ SliceEnds(s, w[1], w[2])[2] = FirstNotBefore(s, w[2])
  BY Zenon DEF SliceEnds
<1>. QED BY <1>4, <1>6, <1>7, Zenon DEF s

\* The quotient num / den lies between the values va and vb.
Bracketed(va, vb, num, den) ==
  /\ den > 0
  /\ va <= vb => va * den <= num /\ num <= vb * den
  /\ vb <= va => vb * den <= num /\ num <= va * den

\* A point of a line between two others lies between their values.
LEMMA Between ==
  ASSUME NEW ta \in Nat, NEW tb \in Nat, NEW t \in Nat, NEW va \in Nat, NEW vb \in Nat, ta < t, t < tb
  PROVE Bracketed(va, vb, va * (tb - ta) + (t - ta) * (vb - va), tb - ta)
<1>. DEFINE x == t - ta
            y == tb - t
            d == vb - va
<1>1. x \in Nat /\ y \in Nat /\ x + y = tb - ta /\ tb - ta > 0 /\ d \in Int /\ vb = va + d
  OBVIOUS
<1>. HIDE DEF x, y, d
<1>2. va * (x + y) = va * x + va * y /\ va * x \in Int /\ va * y \in Int /\ x * d \in Int /\ y * d \in Int
  BY <1>1
<1>3. vb * (x + y) = va * (x + y) + x * d + y * d
  BY <1>1
<1>4. (0 <= d => 0 <= x * d /\ 0 <= y * d) /\ (d <= 0 => x * d <= 0 /\ y * d <= 0)
  BY <1>1
<1>5. va * (tb - ta) + (t - ta) * (vb - va) = va * (x + y) + x * d
  BY <1>1, Zenon DEF x, d
<1>6. (va <= vb <=> 0 <= d) /\ (vb <= va <=> d <= 0)
  BY <1>1
<1>. QED BY <1>1, <1>2, <1>3, <1>4, <1>5, <1>6 DEF Bracketed

\* sample_at divides by a positive difference and answers between two samples.
LEMMA InterpolationIsBracketed == StoreInv => InterpolationBracketed
<1>. SUFFICES ASSUME StoreInv, NEW c \in Of("scalar"), NEW t \in Ends, NEW q \in ScalarAt(c, t)
              PROVE /\ q[2] > 0
                    /\ \E x, y \in Range(pushed[c]) : x[2] * q[2] <= q[1] /\ q[1] <= y[2] * q[2]
  BY Zenon DEF InterpolationBracketed
<1>. DEFINE s == pushed[c]
            i == FirstNotBefore(s, t)
<1>1. c \in Known /\ Kinds[c] = "scalar"
  BY Zenon DEF Of
<1>2. series[c] = s /\ s \in Seq(Sample)
  BY <1>1, SeriesIsPushed, Zenon
<1>3. t \in Nat
  BY EndsAre, Zenon
<1>4. \A k \in 1 .. Len(s) : s[k] \in Range(s)
  <2>1. DOMAIN s = 1 .. Len(s)
    BY <1>2
  <2>. QED BY <2>1, Zenon DEF Range
<1>5. i \in 0 .. Len(s) /\ Len(s) \in Nat /\ (i # 0 => s[i][1] < t) /\ (i # Len(s) => ~(s[i + 1][1] < t))
  <2>1. Len(s) \in Nat
    BY <1>2
  <2>. QED BY <1>2, <2>1, FirstNotBeforeAt, Zenon
<1>6. ScalarAt(c, t) =
        IF i = Len(s) THEN {}
        ELSE IF s[i + 1][1] = t THEN {<<x[2], 1>> : x \in {y \in Range(s) : y[1] = t}}
        ELSE IF i = 0 THEN {}
        ELSE {<<s[i][2] * (s[i + 1][1] - s[i][1]) + (t - s[i][1]) * (s[i + 1][2] - s[i][2]),
                s[i + 1][1] - s[i][1]>>}
  BY <1>2, Zenon DEF ScalarAt
<1>. HIDE DEF s, i
<1>7. CASE i # Len(s) /\ s[i + 1][1] = t
  <2>1. q \in {<<x[2], 1>> : x \in {y \in Range(s) : y[1] = t}}
    BY <1>6, <1>7, Zenon
  <2>2. PICK x \in Range(s) : q = <<x[2], 1>>
    BY <2>1, Zenon
  <2>3. PICK k \in DOMAIN s : x = s[k]
    BY <2>2, Zenon DEF Range
  <2>4. x[2] \in Nat
    <3>1. k \in 1 .. Len(s)
      BY <1>2, <2>3
    <3>. QED BY <1>2, <2>3, <3>1, SamplesAre, Zenon
  <2>5. q[1] = x[2] /\ q[2] = 1
    BY <2>2, Zenon
  <2>6. q[2] > 0 /\ x[2] * q[2] <= q[1] /\ q[1] <= x[2] * q[2]
    BY <2>4, <2>5
  <2>. QED BY <2>2, <2>6, Zenon DEF s
<1>8. CASE i # Len(s) /\ s[i + 1][1] # t
  <2>1. i # 0
    BY <1>6, <1>8, Zenon
  <2>2. i \in 1 .. Len(s) /\ i + 1 \in 1 .. Len(s)
    BY <1>5, <1>8, <2>1
  <2>. DEFINE ta == s[i][1]
              va == s[i][2]
              tb == s[i + 1][1]
              vb == s[i + 1][2]
  <2>3. ta \in Nat /\ va \in Nat /\ tb \in Nat /\ vb \in Nat
    BY <1>2, <2>2, SamplesAre, Zenon
  <2>4. q = <<va * (tb - ta) + (t - ta) * (vb - va), tb - ta>>
    BY <1>6, <1>8, <2>1, Zenon
  <2>5. ta < t /\ ~(tb < t) /\ tb # t
    BY <1>5, <1>8, <2>1, Zenon
  <2>. HIDE DEF ta, va, tb, vb
  <2>6. t < tb
    BY <1>3, <2>3, <2>5
  <2>7. q[1] = va * (tb - ta) + (t - ta) * (vb - va) /\ q[2] = tb - ta
    BY <2>4, Zenon
  <2>8. Bracketed(va, vb, q[1], q[2])
    BY <1>3, <2>3, <2>5, <2>6, <2>7, Between, ZenonT(30)
  <2>9. va <= vb \/ vb <= va
    BY <2>3
  <2>10. s[i] \in Range(s) /\ s[i + 1] \in Range(s)
    BY <1>4, <2>2, Zenon
  <2>. QED BY <2>8, <2>9, <2>10, Zenon DEF Bracketed, va, vb, s
<1>. QED BY <1>6, <1>7, <1>8, Zenon

\* Whatever the order in which samples arrive, no slice of MockStore runs
\* backwards and no interpolation divides by zero, runs below zero in unsigned
\* times or leaves the range of the samples.
THEOREM StoreIsDisorderSafe == Spec => []DisorderSafe
<1>1. StoreInv => DisorderSafe
  BY SlicesInOrder, InterpolationIsBracketed, Zenon DEF DisorderSafe
<1>. QED BY <1>1, StoreInvariant, PTL

-----------------------------------------------------------------------------
(* States, of samples in order *)

\* The greatest of a set of naturals.
LEMMA MaxIs ==
  ASSUME NEW S \in SUBSET Nat, NEW m \in S, \A y \in S : y <= m
  PROVE Max(S) = m
<1>1. \A y \in S : m >= y
  BY Zenon
<1>2. \A x \in S : (\A y \in S : x >= y) => x = m
  OBVIOUS
<1>. QED BY <1>1, <1>2, Zenon DEF Max

\* The last element of a slice that a predicate partitions.
LEMMA CountDown ==
  ASSUME NEW n \in Nat, NEW D \in SUBSET (1 .. n), \A i \in D : \A j \in 1 .. i : j \in D
  PROVE \E k \in 0 .. n : Max({0} \cup D) = k /\ \A i \in 1 .. n : i \in D <=> i <= k
<1>. DEFINE k == PartitionPoint(n, D)
<1>1. k \in 0 .. n /\ (k = 0 \/ k \in D) /\ (k = n \/ k + 1 \notin D)
  BY PartitionPointAt, Zenon
<1>. HIDE DEF k
<1>2. ASSUME NEW i \in 1 .. n PROVE i \in D <=> i <= k
  <2>1. ASSUME i \in D, ~(i <= k) PROVE FALSE
    <3>1. k + 1 \in 1 .. i /\ k # n
      BY <1>1, <2>1
    <3>. QED BY <1>1, <2>1, <3>1, Zenon
  <2>2. ASSUME i <= k PROVE i \in D
    <3>1. k # 0 /\ i \in 1 .. k
      BY <1>1, <2>2
    <3>. QED BY <1>1, <3>1, Zenon
  <2>. QED BY <2>1, <2>2, Zenon
<1>3. {0} \cup D \in SUBSET Nat /\ k \in {0} \cup D /\ \A y \in {0} \cup D : y <= k
  <2>1. ASSUME NEW y \in {0} \cup D PROVE y \in Nat /\ y <= k
    <3>1. CASE y = 0
      BY <1>1, <3>1
    <3>2. CASE y \in D
      <4>1. y \in 1 .. n /\ y <= k
        BY <1>2, <3>2, Zenon
      <4>. QED BY <4>1
    <3>. QED BY <3>1, <3>2, Zenon
  <2>. QED BY <1>1, <2>1, Zenon
<1>4. Max({0} \cup D) = k
  BY <1>3, MaxIs, Zenon
<1>. QED BY <1>1, <1>2, <1>4, Zenon

\* The k samples of p up to time t.
UpTo(p, t, k) == k \in 0 .. Len(p) /\ \A i \in 1 .. Len(p) : p[i][1] <= t <=> i <= k

\* The value pushed last at or before t, of samples in order.
LEMMA LastAtIs ==
  ASSUME NEW c, pushed[c] \in Seq(Sample), Sorted(c), NEW t \in Nat
  PROVE \E k : UpTo(pushed[c], t, k) /\ LastAt(c, t) = IF k = 0 THEN Missing ELSE pushed[c][k][2]
<1>. DEFINE p == pushed[c]
            D == {i \in DOMAIN p : p[i][1] <= t}
            m == Max({0} \cup D)
<1>1. LastAt(c, t) = IF m = 0 THEN Missing ELSE p[m][2]
  BY Zenon DEF LastAt
<1>2. p \in Seq(Sample) /\ NonDecreasing(p) /\ Len(p) \in Nat /\ DOMAIN p = 1 .. Len(p)
  BY LenProperties, Zenon DEF Sorted
<1>. HIDE DEF p
<1>3. ASSUME NEW i \in D, NEW j \in 1 .. i PROVE j \in D
  <2>1. i \in 1 .. Len(p) /\ p[i][1] <= t
    BY <1>2, Zenon
  <2>2. j \in 1 .. Len(p) /\ i \in j .. Len(p)
    BY <1>2, <2>1
  <2>3. p[j][1] <= p[i][1]
    BY <1>2, <2>2, SortedAll, Zenon
  <2>4. p[j][1] \in Nat /\ p[i][1] \in Nat
    BY <1>2, <2>1, <2>2, SamplesAre, Zenon
  <2>5. p[j][1] <= t
    BY <2>1, <2>3, <2>4
  <2>. QED BY <1>2, <2>2, <2>5, Zenon
<1>4. D \in SUBSET (1 .. Len(p)) /\ \A i \in 1 .. Len(p) : i \in D <=> p[i][1] <= t
  BY <1>2, Zenon
<1>. HIDE DEF D
<1>5. PICK k \in 0 .. Len(p) : m = k /\ \A i \in 1 .. Len(p) : i \in D <=> i <= k
  BY <1>2, <1>3, <1>4, CountDown, Zenon
<1>6. UpTo(p, t, k)
  BY <1>4, <1>5, Zenon DEF UpTo
<1>. QED BY <1>1, <1>5, <1>6, Zenon DEF p

\* The runs that begin at or before t, and the last of them, i.
Reached(runs, t, i) ==
  i \in 0 .. Len(runs) /\ \A j \in 1 .. Len(runs) : runs[j].s <= t <=> j <= i

\* Run i is the last reached by t and has the value of sample k.
ReachedWith(runs, p, t, k, i) ==
  Reached(runs, t, i) /\ (i = 0 <=> k = 0) /\ (i # 0 => runs[i].v = p[k][2])

\* Every run begins and ends at a time and has a value.
LEMMA RunsAre ==
  ASSUME NEW runs \in Seq(Run), NEW j \in 1 .. Len(runs)
  PROVE /\ runs[j] \in Run /\ runs[j].s \in Nat /\ runs[j].e \in Nat /\ runs[j].v \in Nat
        /\ runs[j].e \in Times /\ runs[j].s \in Times
<1>1. runs[j] \in Run
  BY ElementOfSeq, Zenon
<1>2. runs[j].s \in Times /\ runs[j].e \in Times /\ runs[j].v \in Nat
  BY <1>1, Zenon DEF Run
<1>. QED BY <1>1, <1>2, TimesAre, Zenon

\* Runs begin in order, and end in order.
LEMMA RunsInOrder ==
  ASSUME NEW runs \in Seq(Run), NEW p, Follows(runs, p),
         NEW i \in 1 .. Len(runs), NEW k \in i .. Len(runs)
  PROVE runs[i].s <= runs[k].s /\ runs[i].e <= runs[k].e
<1>. DEFINE n == Len(runs)
            f == [j \in 1 .. n |-> runs[j].s]
            g == [j \in 1 .. n |-> runs[j].e]
<1>1. n \in Nat
  OBVIOUS
<1>2. f \in [1 .. n -> Nat] /\ g \in [1 .. n -> Nat]
  BY RunsAre, Zenon
<1>3. ASSUME NEW j \in 1 .. n - 1 PROVE f[j] <= f[j + 1] /\ g[j] <= g[j + 1]
  <2>1. j \in 1 .. n /\ j + 1 \in 1 .. n /\ j < n
    BY <1>1
  <2>2. /\ f[j] = runs[j].s /\ f[j + 1] = runs[j + 1].s
        /\ g[j] = runs[j].e /\ g[j + 1] = runs[j + 1].e
    BY <2>1, Zenon
  <2>3. runs[j].s <= runs[j].e /\ runs[j].e = runs[j + 1].s /\ runs[j + 1].s <= runs[j + 1].e
    BY <2>1, Zenon DEF Follows
  <2>. QED BY <2>2, <2>3, Zenon
<1>4. i \in 1 .. n /\ k \in i .. n /\ k \in 1 .. n
  BY <1>1
<1>5. f[i] = runs[i].s /\ f[k] = runs[k].s /\ g[i] = runs[i].e /\ g[k] = runs[k].e
  BY <1>4, Zenon
<1>. HIDE DEF f, g, n
<1>6. f[i] <= f[k]
  BY <1>1, <1>2, <1>3, <1>4, Ascending, Zenon
<1>7. g[i] <= g[k]
  BY <1>1, <1>2, <1>3, <1>4, Ascending, Zenon
<1>. QED BY <1>5, <1>6, <1>7, Zenon

\* The last run that begins at or before t has the value of the last sample then.
LEMMA ReachedRun ==
  ASSUME NEW runs \in Seq(Run), NEW p \in Seq(Sample), NonDecreasing(p), Follows(runs, p),
         NEW t \in Nat, NEW k, UpTo(p, t, k)
  PROVE \E i : ReachedWith(runs, p, t, k, i)
<1>. DEFINE n == Len(runs)
            m == Len(p)
<1>1. n \in Nat /\ m \in Nat /\ (runs = <<>> <=> n = 0) /\ (p = <<>> <=> m = 0)
  BY EmptySeq
<1>2. k \in 0 .. m /\ \A i \in 1 .. m : p[i][1] <= t <=> i <= k
  BY Zenon DEF UpTo
<1>3. \A j \in 1 .. n : runs[j].s \in Nat
  BY RunsAre, Zenon
<1>4. CASE k = 0
  <2>1. ASSUME NEW j \in 1 .. n PROVE ~(runs[j].s <= t)
    <3>1. n # 0 /\ 1 \in 1 .. n /\ j \in 1 .. n
      BY <1>1
    <3>2. p # <<>> /\ m # 0
      BY <1>1, <3>1, Zenon DEF Follows
    <3>3. 1 \in 1 .. m /\ ~(1 <= k)
      BY <1>1, <1>4, <3>2
    <3>4. ~(p[1][1] <= t) /\ runs[1].s = p[1][1]
      BY <1>2, <3>2, <3>3, Zenon DEF Follows
    <3>5. runs[1].s <= runs[j].s
      BY <3>1, RunsInOrder, Zenon
    <3>6. runs[1].s \in Nat /\ runs[j].s \in Nat
      BY <1>3, <3>1, Zenon
    <3>. QED BY <3>4, <3>5, <3>6, SMTT(30)
  <2>2. 0 \in 0 .. n /\ \A j \in 1 .. n : ~(j <= 0)
    BY <1>1
  <2>3. Reached(runs, t, 0)
    BY <2>1, <2>2, Zenon DEF Reached
  <2>. QED BY <1>4, <2>3, Zenon DEF ReachedWith
<1>5. CASE k # 0
  <2>1. k \in 1 .. m /\ k <= k
    BY <1>1, <1>2, <1>5
  <2>2. PICK j \in 1 .. n : Owns(runs, p, k, j)
    BY <2>1, Zenon DEF Follows
  <2>3. runs[j].v = p[k][2] /\ runs[j].s <= p[k][1]
    BY <2>2, Zenon DEF Owns
  <2>4. p[k][1] <= t /\ p[k][1] \in Nat /\ runs[j].s \in Nat
    BY <1>2, <1>3, <2>1, <2>2, SamplesAre, Zenon
  <2>5. ASSUME NEW l \in 1 .. n, l <= j PROVE runs[l].s <= t
    <3>1. j \in l .. n
      BY <1>1, <2>5
    <3>2. runs[l].s <= runs[j].s
      BY <3>1, RunsInOrder, Zenon
    <3>3. runs[l].s \in Nat
      BY <1>3, Zenon
    <3>. DEFINE a == runs[l].s  b == runs[j].s  d == p[k][1]
    <3>4. a <= b /\ b <= d /\ d <= t /\ a \in Nat /\ b \in Nat /\ d \in Nat
      BY <2>3, <2>4, <3>2, <3>3, Zenon
    <3>5. a <= t
      <4>. HIDE DEF a, b, d
      <4>. QED BY <3>4
    <3>. QED BY <3>5, Zenon
  <2>6. ASSUME NEW l \in 1 .. n, ~(l <= j) PROVE ~(runs[l].s <= t)
    <3>1. j < n /\ j + 1 \in 1 .. n /\ l \in j + 1 .. n
      BY <1>1, <2>6
    <3>2. PICK a \in k + 1 .. m : runs[j + 1].s = p[a][1]
      BY <2>2, <3>1, Zenon DEF Owns
    <3>3. a \in 1 .. m /\ ~(a <= k)
      BY <1>1, <2>1, <3>2
    <3>4. ~(runs[j + 1].s <= t)
      BY <1>2, <3>2, <3>3, Zenon
    <3>5. runs[j + 1].s <= runs[l].s
      BY <3>1, RunsInOrder, Zenon
    <3>6. runs[l].s \in Nat /\ runs[j + 1].s \in Nat
      BY <1>3, <3>1, Zenon
    <3>. QED BY <3>4, <3>5, <3>6, SMTT(30)
  <2>7. j \in 0 .. n /\ j # 0
    BY <1>1, <2>2
  <2>8. Reached(runs, t, j)
    BY <2>5, <2>6, <2>7, Zenon DEF Reached
  <2>. QED BY <1>5, <2>3, <2>7, <2>8, Zenon DEF ReachedWith
<1>. QED BY <1>4, <1>5, Zenon

\* The run that a time falls in is the last that begins at or before it.
LEMMA SpannedRun ==
  ASSUME NEW runs \in Seq(Run), NEW p, Follows(runs, p), NEW t \in Nat, t < Forever,
         NEW i, Reached(runs, t, i), NEW l \in 1 .. Len(runs)
  PROVE runs[l].s <= t /\ t < EffectiveEnd(runs, l) <=> l = i
<1>. DEFINE n == Len(runs)
<1>1. n \in Nat /\ i \in 0 .. n /\ \A j \in 1 .. n : runs[j].s <= t <=> j <= i
  BY LenProperties, Zenon DEF Reached
<1>2. EffectiveEnd(runs, l) = IF l = n THEN Forever ELSE runs[l].e
  BY Zenon DEF EffectiveEnd
<1>3. l # n => l + 1 \in 1 .. n /\ l < n
  BY <1>1
<1>4. l # n => runs[l].e = runs[l + 1].s /\ runs[l].e \in Nat
  BY <1>3, RunsAre, Zenon DEF Follows
<1>. HIDE DEF n
<1>5. ASSUME l = i PROVE runs[l].s <= t /\ t < EffectiveEnd(runs, l)
  <2>1. l <= i
    BY <1>1, <1>5
  <2>2. runs[l].s <= t
    BY <1>1, <2>1, Zenon DEF n
  <2>3. CASE l = n
    BY <1>2, <2>2, <2>3, Zenon
  <2>4. CASE l # n
    <3>1. ~(l + 1 <= i)
      BY <1>1, <1>5
    <3>2. ~(runs[l + 1].s <= t)
      BY <1>1, <1>3, <2>4, <3>1, Zenon
    <3>3. t < runs[l].e
      BY <1>4, <2>4, <3>2
    <3>. QED BY <1>2, <2>2, <2>4, <3>3, Zenon
  <2>. QED BY <2>3, <2>4, Zenon
<1>6. ASSUME runs[l].s <= t, t < EffectiveEnd(runs, l), l # i PROVE FALSE
  <2>1. l <= i
    BY <1>1, <1>6, Zenon DEF n
  <2>2. l \in 1 .. n
    BY Zenon DEF n
  <2>3. l # n /\ l + 1 <= i
    BY <1>1, <1>6, <2>1, <2>2
  <2>4. runs[l + 1].s <= t
    BY <1>1, <1>3, <2>3, Zenon
  <2>5. t < runs[l].e
    BY <1>2, <1>6, <2>3, Zenon
  <2>. QED BY <1>4, <2>3, <2>4, <2>5
<1>. QED BY <1>5, <1>6, Zenon

\* What the invariant says of a state channel whose samples came in order.
LEMMA StateChannel ==
  ASSUME StoreInv, NEW c \in Of("state"), Sorted(c)
  PROVE /\ c \in Ids /\ series[c] \in Seq(Run) /\ pushed[c] \in Seq(Sample)
        /\ NonDecreasing(pushed[c]) /\ Follows(series[c], pushed[c])
<1>1. c \in Known /\ Kinds[c] = "state"
  BY Zenon DEF Of
<1>2. c \in Ids
  BY <1>1, KindsAre DEF Known, StoreInv
<1>. QED BY <1>1, <1>2, Zenon DEF StoreInv, Sorted

\* What a state channel holds at time t.
LEMMA HeldState ==
  ASSUME StoreInv, NEW c \in Of("state"), Sorted(c), NEW t \in Nat
  PROVE \E i : /\ Reached(series[c], t, i)
               /\ LastAt(c, t) = IF i = 0 THEN Missing ELSE series[c][i].v
<1>1. /\ series[c] \in Seq(Run) /\ pushed[c] \in Seq(Sample)
      /\ NonDecreasing(pushed[c]) /\ Follows(series[c], pushed[c])
  BY StateChannel, Zenon
<1>2. PICK k : UpTo(pushed[c], t, k) /\ LastAt(c, t) = IF k = 0 THEN Missing ELSE pushed[c][k][2]
  BY <1>1, LastAtIs, Zenon
<1>3. PICK i : ReachedWith(series[c], pushed[c], t, k, i)
  BY <1>1, <1>2, ReachedRun, Zenon
<1>4. CASE i = 0
  BY <1>2, <1>3, <1>4, Zenon DEF ReachedWith
<1>5. CASE i # 0
  BY <1>2, <1>3, <1>5, Zenon DEF ReachedWith
<1>. QED BY <1>4, <1>5, Zenon

\* sample_at finds the run that t falls in.
LEMMA StateAtIs ==
  ASSUME StoreInv, NEW c \in Of("state"), Sorted(c), NEW t \in Nat, t < Forever
  PROVE StateAt(c, t) = LastAt(c, t)
<1>. DEFINE runs == series[c]
            yes == {j \in DOMAIN runs : runs[j].s <= t}
            h == PartitionPoint(Len(runs), yes)
<1>1. runs \in Seq(Run) /\ Follows(runs, pushed[c])
  BY StateChannel, Zenon
<1>2. PICK i : Reached(runs, t, i) /\ LastAt(c, t) = IF i = 0 THEN Missing ELSE runs[i].v
  BY HeldState, Zenon
<1>3. StateAt(c, t) = IF h = 0 \/ t >= EffectiveEnd(runs, h) THEN Missing ELSE runs[h].v
  BY Zenon DEF StateAt
<1>. HIDE DEF runs, h
<1>4. Len(runs) \in Nat /\ DOMAIN runs = 1 .. Len(runs)
  BY <1>1, LenProperties, Zenon
<1>5. i \in 0 .. Len(runs) /\ \A j \in 1 .. Len(runs) : j \in yes <=> j <= i
  BY <1>2, <1>4, Zenon DEF Reached
<1>. HIDE DEF yes
<1>6. h = i
  BY <1>4, <1>5, PartitionPointCounts, Zenon DEF h
<1>7. CASE i = 0
  BY <1>2, <1>3, <1>6, <1>7, Zenon
<1>8. CASE i # 0
  <2>1. i \in 1 .. Len(runs)
    BY <1>4, <1>5, <1>8
  <2>2. t < EffectiveEnd(runs, i)
    BY <1>1, <1>2, <2>1, SpannedRun, Zenon
  <2>3. ~(t >= EffectiveEnd(runs, i))
    <3>1. EffectiveEnd(runs, i) \in Nat
      <4>1. runs[i].e \in Nat /\ Forever \in Nat
        <5>1. runs[i].e \in Nat
          BY <1>1, <2>1, RunsAre, Zenon
        <5>2. Forever \in Nat
          BY DEF Forever
        <5>. QED BY <5>1, <5>2, Zenon
      <4>. QED BY <4>1, Zenon DEF EffectiveEnd
    <3>. QED BY <2>2, <3>1
  <2>. QED BY <1>2, <1>3, <1>6, <1>8, <2>3, Zenon
<1>. QED BY <1>7, <1>8, Zenon

\* A run as query_state reports it.
Reported(runs, l) == [runs[l] EXCEPT !.e = EffectiveEnd(runs, l)]

\* The answer q of query_state: runs skip + 1 .. last as the trailing run is held
\* for ever, those that end after t0 and begin before t1.
Answer(runs, t0, t1, skip, last, q) ==
  /\ skip \in 0 .. Len(runs) - 1 /\ last \in 0 .. Len(runs)
  /\ \A l \in 1 .. Len(runs) - 1 : runs[l].e <= t0 <=> l <= skip
  /\ \A l \in 1 .. Len(runs) : runs[l].s < t1 <=> l <= last
  /\ \A r : r \in Range(q) <=> \E l \in skip + 1 .. last : r = Reported(runs, l)

\* What query_state answers.
LEMMA QueryStateIs ==
  ASSUME StoreInv, NEW c \in Of("state"), Sorted(c), series[c] # <<>>,
         NEW t0 \in Nat, NEW t1 \in Nat
  PROVE \E skip, last : Answer(series[c], t0, t1, skip, last, QueryState(c, t0, t1))
<1>. DEFINE runs == series[c]
            n    == Len(runs)
            ended == {i \in DOMAIN runs : runs[i].e <= t0}
            skip == PartitionPoint(n - 1, ended)
            D    == {i \in 0 .. n - skip : \A j \in 1 .. i : runs[skip + j].s < t1}
            begun == {i \in 1 .. n : runs[i].s < t1}
            q    == QueryState(c, t0, t1)
<1>1. runs \in Seq(Run) /\ Follows(runs, pushed[c])
  BY StateChannel, Zenon
<1>2. q = [j \in 1 .. Max(D) |-> [runs[skip + j] EXCEPT !.e = EffectiveEnd(runs, skip + j)]]
  BY Zenon DEF QueryState
<1>3. n \in Nat \ {0} /\ DOMAIN runs = 1 .. n
  BY <1>1, EmptySeq
<1>4. n - 1 \in Nat /\ 1 .. n - 1 \subseteq 1 .. n
  BY <1>3
<1>. HIDE DEF runs, n
<1>5. skip \in 0 .. n - 1 /\ \A l \in 1 .. n - 1 : runs[l].e <= t0 <=> l <= skip
  <2>. DEFINE E == {i \in 1 .. n - 1 : runs[i].e <= t0}
  <2>1. ASSUME NEW i \in E, NEW j \in 1 .. i PROVE j \in E
    <3>1. i \in 1 .. n - 1 /\ runs[i].e <= t0
      BY Zenon
    <3>2. i \in 1 .. n /\ j \in 1 .. n - 1 /\ j \in 1 .. n /\ i \in j .. n
      BY <1>3, <3>1
    <3>3. runs[j].e <= runs[i].e
      BY <1>1, <3>2, RunsInOrder, Zenon DEF n
    <3>4. runs[j].e \in Nat /\ runs[i].e \in Nat
      BY <1>1, <3>2, RunsAre, Zenon DEF n
    <3>5. runs[j].e <= t0
      BY <3>1, <3>3, <3>4
    <3>. QED BY <3>2, <3>5, Zenon
  <2>2. E \in SUBSET (1 .. n - 1) /\ \A i \in 1 .. n - 1 : i \in E <=> runs[i].e <= t0
    BY Zenon
  <2>3. \A i \in 1 .. n - 1 : i \in E <=> i \in ended
    BY <1>3, <1>4, Zenon
  <2>. HIDE DEF E, ended
  <2>4. PICK k \in 0 .. n - 1 : \A i \in 1 .. n - 1 : i \in E <=> i <= k
    BY <1>4, <2>1, <2>2, CountDown, Zenon
  <2>5. skip = k
    BY <1>4, <2>3, <2>4, PartitionPointCounts, Zenon
  <2>. HIDE DEF skip
  <2>. QED BY <2>2, <2>4, <2>5, Zenon
<1>6. PICK last \in 0 .. n : \A l \in 1 .. n : runs[l].s < t1 <=> l <= last
  <2>1. ASSUME NEW i \in begun, NEW j \in 1 .. i PROVE j \in begun
    <3>1. i \in 1 .. n /\ runs[i].s < t1
      BY Zenon
    <3>2. j \in 1 .. n /\ i \in j .. n
      BY <1>3, <3>1
    <3>3. runs[j].s <= runs[i].s
      BY <1>1, <3>1, <3>2, RunsInOrder, Zenon DEF n
    <3>4. runs[j].s \in Nat /\ runs[i].s \in Nat
      BY <1>1, <3>1, <3>2, RunsAre, Zenon DEF n
    <3>5. runs[j].s < t1
      BY <3>1, <3>3, <3>4
    <3>. QED BY <3>2, <3>5, Zenon
  <2>2. begun \in SUBSET (1 .. n) /\ \A i \in 1 .. n : i \in begun <=> runs[i].s < t1
    BY Zenon
  <2>. HIDE DEF begun
  <2>3. PICK k \in 0 .. n : \A i \in 1 .. n : i \in begun <=> i <= k
    BY <1>3, <2>1, <2>2, CountDown, Zenon
  <2>. QED BY <2>2, <2>3, Zenon
<1>. HIDE DEF skip, q
<1>. DEFINE m == IF skip + 1 > last THEN 0 ELSE last - skip
<1>7. m \in 0 .. n - skip /\ m \in Nat
  BY <1>3, <1>5, <1>6
<1>8. Max(D) = m
  <2>1. ASSUME NEW i \in D PROVE i \in Nat /\ i <= m
    <3>1. i \in 0 .. n - skip /\ \A j \in 1 .. i : runs[skip + j].s < t1
      BY Zenon
    <3>2. ASSUME i # 0 PROVE skip + i <= last
      <4>1. i \in 1 .. i /\ skip + i \in 1 .. n
        BY <1>3, <1>5, <3>1, <3>2
      <4>. QED BY <1>6, <3>1, <4>1, Zenon
    <3>. QED BY <1>3, <1>5, <1>6, <3>1, <3>2
  <2>2. ASSUME NEW j \in 1 .. m PROVE runs[skip + j].s < t1
    <3>1. skip + j \in 1 .. n /\ skip + j <= last
      BY <1>3, <1>5, <1>6
    <3>. QED BY <1>6, <3>1, Zenon
  <2>. HIDE DEF m
  <2>3. m \in D
    BY <1>7, <2>2, Zenon
  <2>. HIDE DEF D
  <2>. QED BY <2>1, <2>3, MaxIs, Zenon
<1>. HIDE DEF D
<1>9. ASSUME NEW r
      PROVE r \in Range(q) <=> \E l \in skip + 1 .. last : r = Reported(runs, l)
  <2>0. q = [j \in 1 .. m |-> Reported(runs, skip + j)]
    BY <1>2, <1>8, Zenon DEF Reported
  <2>. HIDE DEF m
  <2>1. r \in Range(q) <=> \E j \in 1 .. m : r = Reported(runs, skip + j)
    BY <2>0, Zenon DEF Range
  <2>2. ASSUME NEW j \in 1 .. m PROVE skip + j \in skip + 1 .. last
    BY <1>5, <1>6 DEF m
  <2>3. ASSUME NEW l \in skip + 1 .. last PROVE \E j \in 1 .. m : l = skip + j
    <3>1. l - skip \in 1 .. m /\ l = skip + (l - skip)
      BY <1>5, <1>6 DEF m
    <3>. QED BY <3>1, Zenon
  <2>. QED BY <2>1, <2>2, <2>3, Zenon
<1>10. Answer(runs, t0, t1, skip, last, q)
  BY <1>5, <1>6, <1>9, Zenon DEF Answer, n
<1>. QED BY <1>10, Zenon DEF runs, q

\* The values of an answer at time t.
ValuesAt(q, t) == {r.v : r \in {x \in Range(q) : x.s <= t /\ t < x.e}}

\* A run is reported with its begin and value.
LEMMA ReportedRun ==
  ASSUME NEW runs \in Seq(Run), NEW l \in 1 .. Len(runs)
  PROVE /\ Reported(runs, l).s = runs[l].s /\ Reported(runs, l).v = runs[l].v
        /\ Reported(runs, l).e = EffectiveEnd(runs, l)
<1>. DEFINE x == runs[l]
            y == EffectiveEnd(runs, l)
<1>1. x \in [s : Times, e : Times, v : Nat]
  BY RunsAre, Zenon DEF Run
<1>2. Reported(runs, l) = [x EXCEPT !.e = y]
  BY Zenon DEF Reported
<1>. HIDE DEF x, y
<1>3. [x EXCEPT !.e = y].s = x.s /\ [x EXCEPT !.e = y].v = x.v /\ [x EXCEPT !.e = y].e = y
  BY <1>1, Zenon
<1>. QED BY <1>2, <1>3, Zenon DEF x, y

\* The values of query_state at time t are the one the channel held, if any.
AgreesAt(c, t0, t1, t) == ValuesAt(QueryState(c, t0, t1), t) = {LastAt(c, t)} \ {Missing}

\* query_state answers at every instant of its window what the channel held.
LEMMA AnswerAgrees ==
  ASSUME StoreInv, NEW c \in Of("state"), Sorted(c), NEW t0 \in Nat, NEW t1 \in Nat,
         NEW t \in Nat, t0 <= t, t < t1, t < Forever
  PROVE AgreesAt(c, t0, t1, t)
<1>. DEFINE runs == series[c]
            n    == Len(runs)
            q    == QueryState(c, t0, t1)
<1>1. runs \in Seq(Run) /\ Follows(runs, pushed[c])
  BY StateChannel, Zenon
<1>2. PICK i : Reached(runs, t, i) /\ LastAt(c, t) = IF i = 0 THEN Missing ELSE runs[i].v
  BY HeldState, Zenon
<1>3. n \in Nat /\ i \in 0 .. n /\ \A j \in 1 .. n : runs[j].s <= t <=> j <= i
  BY <1>1, <1>2, LenProperties, Zenon DEF Reached
<1>4. CASE runs = <<>>
  <2>1. q = <<>>
    BY <1>4, Zenon DEF QueryState
  <2>. HIDE DEF q
  <2>2. Range(q) = {}
    BY <2>1 DEF Range
  <2>3. i = 0
    BY <1>3, <1>4
  <2>4. ValuesAt(q, t) = {}
    BY <2>2, Zenon DEF ValuesAt
  <2>. QED BY <1>2, <2>3, <2>4, Zenon DEF q, AgreesAt
<1>5. CASE runs # <<>>
  <2>1. PICK skip, last : Answer(runs, t0, t1, skip, last, q)
    BY <1>5, QueryStateIs, Zenon
  <2>. HIDE DEF runs, q
  <2>2. /\ skip \in 0 .. n - 1 /\ last \in 0 .. n
        /\ \A l \in 1 .. n - 1 : runs[l].e <= t0 <=> l <= skip
        /\ \A l \in 1 .. n : runs[l].s < t1 <=> l <= last
    BY <2>1, Zenon DEF Answer
  <2>3. \A r : r \in Range(q) <=> \E l \in skip + 1 .. last : r = Reported(runs, l)
    BY <2>1, Zenon DEF Answer
  <2>4. \A l \in 1 .. n : runs[l].s <= t /\ t < EffectiveEnd(runs, l) <=> l = i
    BY <1>1, <1>2, SpannedRun, Zenon
  <2>5. ASSUME NEW r \in Range(q), r.s <= t, t < r.e PROVE i # 0 /\ r.v = runs[i].v
    <3>1. PICK l \in skip + 1 .. last : r = Reported(runs, l)
      BY <2>3, Zenon
    <3>2. l \in 1 .. n /\ l # 0
      BY <1>3, <2>2, <3>1
    <3>3. r.s = runs[l].s /\ r.e = EffectiveEnd(runs, l) /\ r.v = runs[l].v
      BY <1>1, <3>1, <3>2, ReportedRun, Zenon
    <3>4. l = i
      BY <2>4, <2>5, <3>2, <3>3, Zenon
    <3>. QED BY <3>2, <3>3, <3>4, Zenon
  <2>6. ASSUME i # 0 PROVE \E r \in Range(q) : r.s <= t /\ t < r.e /\ r.v = runs[i].v
    <3>1. i \in 1 .. n
      BY <1>3, <2>6
    <3>2. runs[i].s <= t /\ t < EffectiveEnd(runs, i)
      BY <2>4, <3>1, Zenon
    <3>3. i <= last
      <4>1. runs[i].s \in Nat
        BY <1>1, <3>1, RunsAre, Zenon
      <4>2. runs[i].s < t1
        BY <3>2, <4>1
      <4>. QED BY <2>2, <3>1, <4>2, Zenon
    <3>4. ~(i <= skip)
      <4>1. CASE i = n
        BY <1>3, <2>2, <4>1
      <4>2. CASE i # n
        <5>1. i \in 1 .. n - 1 /\ runs[i].e \in Nat
          <6>1. runs[i].e \in Nat
            BY <1>1, <3>1, RunsAre, Zenon
          <6>2. i \in 1 .. n - 1
            BY <1>3, <3>1, <4>2
          <6>. QED BY <6>1, <6>2, Zenon
        <5>2. t < runs[i].e
          BY <3>2, <4>2, Zenon DEF EffectiveEnd
        <5>3. ~(runs[i].e <= t0)
          BY <5>1, <5>2
        <5>. QED BY <2>2, <5>1, <5>3, Zenon
      <4>. QED BY <4>1, <4>2, Zenon
    <3>5. i \in skip + 1 .. last
      BY <1>3, <2>2, <3>3, <3>4
    <3>. DEFINE r == Reported(runs, i)
    <3>6. r \in Range(q)
      BY <2>3, <3>5, Zenon
    <3>7. r.s = runs[i].s /\ r.e = EffectiveEnd(runs, i) /\ r.v = runs[i].v
      BY <1>1, <3>1, ReportedRun, Zenon
    <3>. HIDE DEF r
    <3>. QED BY <3>2, <3>6, <3>7, Zenon
  <2>7. CASE i = 0
    <3>1. ValuesAt(q, t) = {}
      BY <2>5, <2>7, Zenon DEF ValuesAt
    <3>. QED BY <1>2, <2>7, <3>1, Zenon DEF q, AgreesAt
  <2>8. CASE i # 0
    <3>1. i \in 1 .. n
      BY <1>3, <2>8
    <3>2. runs[i].v # Missing
      <4>1. runs[i].v \in Nat
        BY <1>1, <3>1, RunsAre, Zenon
      <4>. QED BY <4>1 DEF Missing
    <3>3. ValuesAt(q, t) = {runs[i].v}
      <4>. DEFINE w == runs[i].v
      <4>1. ASSUME NEW x \in ValuesAt(q, t) PROVE x = w
        BY <2>5, Zenon DEF ValuesAt
      <4>2. w \in ValuesAt(q, t)
        <5>1. PICK r \in Range(q) : r.s <= t /\ t < r.e /\ r.v = runs[i].v
          BY <2>6, <2>8, Zenon
        <5>. QED BY <5>1, Zenon DEF ValuesAt
      <4>. HIDE DEF w
      <4>3. ValuesAt(q, t) = {w}
        BY <4>1, <4>2, Zenon
      <4>. QED BY <4>3, Zenon DEF w
    <3>. DEFINE w == runs[i].v
    <3>4. LastAt(c, t) = w /\ w # Missing /\ ValuesAt(q, t) = {w}
      BY <1>2, <2>8, <3>2, <3>3, Zenon DEF runs
    <3>. HIDE DEF w
    <3>. QED BY <3>4, Zenon DEF q, AgreesAt
  <2>. QED BY <2>7, <2>8, Zenon
<1>. QED BY <1>4, <1>5, Zenon

\* sample_at and query_state of a state channel agree with the samples pushed in
\* order: at every instant the value observed last, held for ever.
THEOREM StoreStatesAgree == Spec => []StateAgrees
<1>1. StoreInv => StateAgrees
  <2>. SUFFICES ASSUME StoreInv, NEW c \in Of("state"), Sorted(c)
                PROVE /\ \A t \in Ends : StateAt(c, t) = LastAt(c, t)
                      /\ \A w \in Windows : \A t \in w[1] .. w[2] - 1 :
                           AgreesAt(c, w[1], w[2], t)
    BY Zenon DEF StateAgrees, AgreesAt, ValuesAt
  <2>1. ASSUME NEW t \in Ends PROVE StateAt(c, t) = LastAt(c, t)
    BY EndsAre, StateAtIs, Zenon
  <2>2. ASSUME NEW w \in Windows, NEW t \in w[1] .. w[2] - 1
        PROVE AgreesAt(c, w[1], w[2], t)
    <3>1. w[1] \in Ends /\ w[2] \in Ends
      BY Zenon DEF Windows
    <3>2. w[1] \in Nat /\ w[2] \in Nat /\ w[2] < Forever /\ Forever \in Nat
      BY <3>1, EndsAre DEF Forever
    <3>3. t \in Nat /\ w[1] <= t /\ t < w[2] /\ t < Forever
      BY <3>2
    <3>. QED BY <3>2, <3>3, AnswerAgrees, Zenon
  <2>. QED BY <2>1, <2>2, Zenon
<1>. QED BY <1>1, StoreInvariant, PTL

-----------------------------------------------------------------------------
(* Buckets, of samples in order *)

\* Integer division rounds down.
LEMMA DivIs ==
  ASSUME NEW a \in Nat, NEW b \in Nat, b > 0
  PROVE a \div b \in Nat /\ (a \div b) * b <= a /\ a < (a \div b) * b + b
OBVIOUS

\* Products grow with a factor.
LEMMA ProductGrows ==
  ASSUME NEW a \in Nat, NEW c \in Nat, NEW b \in Nat, a <= c
  PROVE a * b \in Nat /\ c * b \in Nat /\ a * b <= c * b
<1>. DEFINE d == c - a
<1>1. d \in Nat /\ c = a + d
  OBVIOUS
<1>. HIDE DEF d
<1>2. (a + d) * b = a * b + d * b /\ d * b \in Nat /\ a * b \in Nat
  BY <1>1
<1>. QED BY <1>1, <1>2

\* So do quotients with what is divided.
LEMMA QuotientGrows ==
  ASSUME NEW a \in Nat, NEW c \in Nat, NEW b \in Nat, b > 0, a <= c
  PROVE a \div b <= c \div b
<1>. DEFINE x == a \div b
            y == c \div b
<1>1. x \in Nat /\ x * b <= a /\ y \in Nat /\ c < y * b + b
  BY DivIs, Zenon
<1>. HIDE DEF x, y
<1>2. ASSUME y + 1 <= x PROVE FALSE
  <2>1. y + 1 \in Nat
    BY <1>1
  <2>2. (y + 1) * b <= x * b /\ (y + 1) * b \in Nat /\ x * b \in Nat
    BY <1>1, <1>2, <2>1, ProductGrows, Zenon
  <2>3. (y + 1) * b = y * b + b /\ y * b \in Nat
    BY <1>1
  <2>. QED BY <1>1, <2>2, <2>3
<1>3. x <= y
  BY <1>1, <1>2
<1>. QED BY <1>3, Zenon DEF x, y

\* The index of a bucket grows with the time and stays below their number.
LEMMA IndexGrows ==
  ASSUME NEW t0 \in Nat, NEW t1 \in Nat, NEW max \in Nat, NEW t \in t0 .. t1 - 1, NEW u \in t .. t1 - 1
  PROVE /\ BucketIndex(t, t0, t1, max) \in Nat
        /\ BucketIndex(t, t0, t1, max) <= BucketIndex(u, t0, t1, max)
        /\ max > 0 => BucketIndex(t, t0, t1, max) < max
<1>. DEFINE a == (t - t0) * max
            c == (u - t0) * max
            b == t1 - t0
<1>1. b \in Nat /\ b > 0 /\ t - t0 \in Nat /\ u - t0 \in Nat /\ t - t0 <= u - t0 /\ t - t0 + 1 <= b
  OBVIOUS
<1>2. a \in Nat /\ c \in Nat /\ a <= c
  BY <1>1, ProductGrows, Zenon
<1>3. BucketIndex(t, t0, t1, max) = a \div b /\ BucketIndex(u, t0, t1, max) = c \div b
  BY Zenon DEF BucketIndex
<1>4. a + max <= b * max /\ b * max \in Nat /\ b * max = max * b
  <2>1. t - t0 + 1 \in Nat
    BY <1>1
  <2>2. (t - t0 + 1) * max <= b * max /\ b * max \in Nat
    BY <1>1, <2>1, ProductGrows, Zenon
  <2>3. (t - t0 + 1) * max = (t - t0) * max + max
    BY <1>1
  <2>4. b * max = max * b
    BY <1>1
  <2>. QED BY <2>2, <2>3, <2>4, Zenon
<1>. HIDE DEF a, b, c
<1>5. a \div b \in Nat /\ a \div b <= c \div b
  BY <1>1, <1>2, DivIs, QuotientGrows, Zenon
<1>6. ASSUME max > 0, max <= a \div b PROVE FALSE
  <2>1. (a \div b) * b <= a /\ a \div b \in Nat
    BY <1>1, <1>2, DivIs, Zenon
  <2>2. max * b <= (a \div b) * b
    BY <1>1, <1>6, <2>1, ProductGrows, Zenon
  <2>. DEFINE x == a \div b
  <2>3. x * b \in Nat /\ x * b <= a /\ max * b <= x * b
    BY <1>1, <2>1, <2>2, ProductGrows
  <2>. HIDE DEF x
  <2>. QED BY <1>1, <1>2, <1>4, <1>6, <2>3
<1>7. max > 0 => a \div b < max
  BY <1>5, <1>6
<1>. QED BY <1>3, <1>5, <1>7, Zenon

\* The slice q of the samples s that fall in [t0, t1): samples a + 1 .. b.
Slice(s, t0, t1, a, b, q) ==
  /\ a \in 0 .. Len(s) /\ b \in a .. Len(s)
  /\ q \in Seq(Sample) /\ Len(q) = b - a
  /\ \A k \in 1 .. b - a : q[k] = s[a + k]
  /\ \A i \in 1 .. Len(s) : i \in a + 1 .. b <=> t0 <= s[i][1] /\ s[i][1] < t1

\* The search for the first sample not before t counts those before, in order.
LEMMA FirstNotBeforeCounts ==
  ASSUME NEW s \in Seq(Sample), NonDecreasing(s), NEW t \in Nat, NEW i \in 1 .. Len(s)
  PROVE s[i][1] < t <=> i <= FirstNotBefore(s, t)
<1>. DEFINE n == Len(s)
            f == FirstNotBefore(s, t)
<1>1. f \in 0 .. n /\ (f # 0 => s[f][1] < t) /\ (f # n => ~(s[f + 1][1] < t))
  BY FirstNotBeforeAt, Zenon
<1>2. n \in Nat /\ i \in 1 .. n
  OBVIOUS
<1>. HIDE DEF n, f
<1>3. ASSUME i <= f PROVE s[i][1] < t
  <2>1. f # 0 /\ f \in 1 .. n /\ f \in i .. n
    BY <1>1, <1>2, <1>3
  <2>2. s[i][1] <= s[f][1]
    BY <2>1, SortedAll, Zenon DEF n
  <2>3. s[i][1] \in Nat /\ s[f][1] \in Nat /\ s[f][1] < t
    BY <1>1, <2>1, SamplesAre, Zenon DEF n
  <2>. QED BY <2>2, <2>3
<1>4. ASSUME ~(i <= f) PROVE ~(s[i][1] < t)
  <2>1. f # n /\ f + 1 \in 1 .. n /\ i \in f + 1 .. n
    BY <1>1, <1>2, <1>4
  <2>2. s[f + 1][1] <= s[i][1]
    BY <2>1, SortedAll, Zenon DEF n
  <2>3. s[i][1] \in Nat /\ s[f + 1][1] \in Nat /\ ~(s[f + 1][1] < t)
    BY <1>1, <2>1, SamplesAre, Zenon DEF n
  <2>. QED BY <2>2, <2>3
<1>. QED BY <1>3, <1>4, Zenon DEF f

\* The samples in range are a slice.
LEMMA InRangeIs ==
  ASSUME NEW s \in Seq(Sample), NonDecreasing(s), NEW t0 \in Nat, NEW t1 \in Nat, t0 <= t1
  PROVE \E a, b : Slice(s, t0, t1, a, b, InRange(s, t0, t1))
<1>. DEFINE a == FirstNotBefore(s, t0)
            b == FirstNotBefore(s, t1)
            q == InRange(s, t0, t1)
<1>1. Len(s) \in Nat
  OBVIOUS
<1>2. a \in 0 .. Len(s) /\ b \in 0 .. Len(s) /\ a <= b
  BY FirstNotBeforeAt, SearchesInOrder, Zenon
<1>3. q = SubSeq(s, a + 1, b)
  BY Zenon DEF InRange, SliceEnds
<1>4. ASSUME NEW i \in 1 .. Len(s) PROVE (s[i][1] < t0 <=> i <= a) /\ (s[i][1] < t1 <=> i <= b)
  BY FirstNotBeforeCounts, Zenon
<1>. HIDE DEF a, b, q
<1>5. q \in Seq(Sample) /\ Len(q) = b - a /\ \A k \in 1 .. b - a : q[k] = s[a + k]
  <2>1. a + 1 \in Int /\ b \in Int
    BY <1>1, <1>2
  <2>2. ASSUME NEW i \in a + 1 .. b PROVE s[i] \in Sample
    <3>1. i \in 1 .. Len(s)
      BY <1>1, <1>2
    <3>. QED BY <3>1, SamplesAre, Zenon
  <2>3. q \in Seq(Sample) /\ Len(q) = IF a + 1 <= b THEN b - (a + 1) + 1 ELSE 0
    BY <1>1, <1>2, <1>3, <2>1, <2>2
  <2>4. Len(q) = b - a
    BY <1>1, <1>2, <2>3
  <2>5. ASSUME NEW k \in 1 .. b - a PROVE q[k] = s[a + k]
    BY <1>1, <1>2, <1>3
  <2>. QED BY <2>3, <2>4, <2>5, Zenon
<1>6. ASSUME NEW i \in 1 .. Len(s) PROVE i \in a + 1 .. b <=> t0 <= s[i][1] /\ s[i][1] < t1
  <2>1. s[i][1] \in Nat
    BY SamplesAre, Zenon
  <2>2. t0 <= s[i][1] <=> ~(i <= a)
    BY <1>4, <2>1
  <2>3. i \in a + 1 .. b <=> ~(i <= a) /\ i <= b
    BY <1>1, <1>2
  <2>. QED BY <1>4, <2>2, <2>3, Zenon
<1>7. b \in a .. Len(s)
  BY <1>1, <1>2
<1>8. Slice(s, t0, t1, a, b, q)
  BY <1>2, <1>5, <1>6, <1>7, Zenon DEF Slice
<1>. QED BY <1>8, Zenon DEF q

\* The samples q are those of s in the window, all of them and no others.
Selects(q, s, t0, t1) ==
  /\ \A k \in 1 .. Len(q) : t0 <= q[k][1] /\ q[k][1] < t1 /\ q[k] \in Range(s)
  /\ \A x \in Range(s) : t0 <= x[1] /\ x[1] < t1 => \E k \in 1 .. Len(q) : q[k] = x

\* A slice of samples in order: in order, in the window, and all that are in it.
LEMMA SliceIs ==
  ASSUME NEW s \in Seq(Sample), NonDecreasing(s), NEW t0 \in Nat, NEW t1 \in Nat,
         NEW a, NEW b, NEW q, Slice(s, t0, t1, a, b, q)
  PROVE q \in Seq(Sample) /\ Len(q) \in Nat /\ NonDecreasing(q) /\ Selects(q, s, t0, t1)
<1>1. /\ a \in 0 .. Len(s) /\ b \in a .. Len(s) /\ Len(s) \in Nat
      /\ q \in Seq(Sample) /\ Len(q) = b - a
      /\ \A k \in 1 .. b - a : q[k] = s[a + k]
      /\ \A i \in 1 .. Len(s) : i \in a + 1 .. b <=> t0 <= s[i][1] /\ s[i][1] < t1
  BY LenProperties, Zenon DEF Slice
<1>2. DOMAIN s = 1 .. Len(s)
  BY LenProperties, Zenon
<1>3. ASSUME NEW k \in 1 .. Len(q)
      PROVE /\ q[k] = s[a + k] /\ a + k \in 1 .. Len(s)
            /\ t0 <= q[k][1] /\ q[k][1] < t1 /\ q[k] \in Range(s)
  <2>1. k \in 1 .. b - a /\ a + k \in 1 .. Len(s) /\ a + k \in a + 1 .. b
    BY <1>1
  <2>2. q[k] = s[a + k] /\ t0 <= s[a + k][1] /\ s[a + k][1] < t1
    BY <1>1, <2>1, Zenon
  <2>3. s[a + k] \in Range(s)
    BY <1>2, <2>1, Zenon DEF Range
  <2>. QED BY <2>1, <2>2, <2>3, Zenon
<1>4. ASSUME NEW k \in 1 .. Len(q) - 1 PROVE q[k][1] <= q[k + 1][1]
  <2>1. k \in 1 .. Len(q) /\ k + 1 \in 1 .. Len(q) /\ a + k + 1 = a + (k + 1) /\ a + (k + 1) \in Int
    BY <1>1
  <2>2. /\ q[k] = s[a + k] /\ q[k + 1] = s[a + (k + 1)]
        /\ a + k \in 1 .. Len(s) /\ a + (k + 1) \in 1 .. Len(s)
    BY <1>3, <2>1, Zenon
  <2>3. a + (k + 1) \in a + k .. Len(s)
    BY <1>1, <2>1, <2>2
  <2>4. s[a + k][1] <= s[a + (k + 1)][1]
    BY <2>2, <2>3, SortedAll, Zenon
  <2>. QED BY <2>2, <2>4, Zenon
<1>5. ASSUME NEW x \in Range(s), t0 <= x[1], x[1] < t1 PROVE \E k \in 1 .. Len(q) : q[k] = x
  <2>1. PICK i \in 1 .. Len(s) : x = s[i]
    BY <1>2, Zenon DEF Range
  <2>2. i \in a + 1 .. b
    BY <1>1, <1>5, <2>1, Zenon
  <2>3. i - a \in 1 .. b - a /\ a + (i - a) = i /\ i - a \in 1 .. Len(q)
    BY <1>1, <2>2
  <2>4. q[i - a] = s[i]
    BY <1>1, <2>3, Zenon
  <2>. QED BY <2>1, <2>3, <2>4, Zenon
<1>6. Len(q) \in Nat
  BY <1>1, LenProperties, Zenon
<1>. QED BY <1>1, <1>3, <1>4, <1>5, <1>6, Zenon DEF NonDecreasing, Selects

Bucket == [i : Nat, t : Times, min : Nat, max : Nat]

\* Bucket b of index i takes in sample x.
Covers(b, i, x) == b.i = i /\ b.t <= x[1] /\ b.min <= x[2] /\ x[2] <= b.max

\* What bucket b shows is the time, the least and the greatest value of samples
\* of its index ix among the first k.
Shows(b, in, ix, k) ==
  \E j, l, m \in 1 .. k : /\ ix[j] = b.i /\ in[j][1] = b.t
                          /\ ix[l] = b.i /\ in[l][2] = b.min
                          /\ ix[m] = b.i /\ in[m][2] = b.max

\* The buckets made of the first k samples, which have the indexes ix.
Filled(out, in, ix, k) ==
  /\ out \in Seq(Bucket)
  /\ out = <<>> <=> k = 0
  /\ k # 0 => out[Len(out)].i = ix[k]
  /\ \A a \in 1 .. Len(out) : out[a].i >= a - 1 /\ Shows(out[a], in, ix, k)
  /\ \A a, b \in 1 .. Len(out) : a < b => out[a].i < out[b].i
  /\ \A j \in 1 .. k : \E a \in 1 .. Len(out) : Covers(out[a], ix[j], in[j])

\* The smaller and the greater of two naturals.
LEMMA PairEnds ==
  ASSUME NEW a \in Nat, NEW b \in Nat
  PROVE /\ Min({a, b}) \in {a, b} /\ Min({a, b}) <= a /\ Min({a, b}) <= b /\ Min({a, b}) \in Nat
        /\ Max({a, b}) \in {a, b} /\ Max({a, b}) >= a /\ Max({a, b}) >= b /\ Max({a, b}) \in Nat
<1>1. \E x \in {a, b} : \A y \in {a, b} : x <= y
  OBVIOUS
<1>2. \E x \in {a, b} : \A y \in {a, b} : x >= y
  OBVIOUS
<1>3. Min({a, b}) \in {a, b} /\ \A y \in {a, b} : Min({a, b}) <= y
  BY <1>1, Zenon DEF Min
<1>4. Max({a, b}) \in {a, b} /\ \A y \in {a, b} : Max({a, b}) >= y
  BY <1>2, Zenon DEF Max
<1>. QED BY <1>3, <1>4, Zenon

\* Bucket b with the value v taken in.
Widened(b, v) == [b EXCEPT !.min = Min({b.min, v}), !.max = Max({b.max, v})]

\* It stays a bucket of its index and its time, and grows on both sides.
LEMMA WidenedIs ==
  ASSUME NEW b \in Bucket, NEW v \in Nat
  PROVE LET w == Widened(b, v)
        IN /\ w \in Bucket /\ w.i = b.i /\ w.t = b.t
           /\ w.min \in {b.min, v} /\ w.min <= b.min /\ w.min <= v
           /\ w.max \in {b.max, v} /\ b.max <= w.max /\ v <= w.max
<1>. DEFINE lo == Min({b.min, v})  hi == Max({b.max, v})
<1>1. b.min \in Nat /\ b.max \in Nat /\ b.i \in Nat /\ b.t \in Times
  BY Zenon DEF Bucket
<1>2. lo \in {b.min, v} /\ lo <= b.min /\ lo <= v /\ lo \in Nat
  BY <1>1, PairEnds, Zenon
<1>3. hi \in {b.max, v} /\ hi >= b.max /\ hi >= v /\ hi \in Nat
  BY <1>1, PairEnds, Zenon
<1>. HIDE DEF lo, hi
<1>4. Widened(b, v) = [b EXCEPT !.min = lo, !.max = hi]
  BY Zenon DEF Widened, lo, hi
<1>. QED BY <1>1, <1>2, <1>3, <1>4, Zenon DEF Bucket

\* The last of the buckets widened.
WidenedLast(out, v) == [out EXCEPT ![Len(out)] = Widened(out[Len(out)], v)]

\* A sample of the last bucket's index widens that one.
LEMMA BucketedJoins ==
  ASSUME NEW out \in Seq(Bucket), out # <<>>, NEW x \in Sample, NEW i \in Nat, out[Len(out)].i = i
  PROVE Bucketed(out, i, x) = WidenedLast(out, x[2])
<1>1. Len(out) \in 1 .. Len(out) /\ out[Len(out)] \in Bucket
  OBVIOUS
<1>. DEFINE n == Len(out)  b == out[n]
            lo == Min({b.min, x[2]})  hi == Max({b.max, x[2]})
<1>2. Bucketed(out, i, x) = [out EXCEPT ![n].min = Min({@, x[2]}), ![n].max = Max({@, x[2]})]
  BY Zenon DEF Bucketed
<1>3. [out EXCEPT ![n].min = Min({@, x[2]}), ![n].max = Max({@, x[2]})]
        = [out EXCEPT ![n] = [b EXCEPT !.min = lo, !.max = hi]]
  <2>1. n \in DOMAIN out /\ b \in [i : Nat, t : Times, min : Nat, max : Nat]
    BY <1>1 DEF Bucket
  <2>. QED BY <2>1, Zenon
<1>. QED BY <1>2, <1>3, Zenon DEF Widened, WidenedLast

\* A sample more does not change what a bucket shows.
LEMMA ShowsMore ==
  ASSUME NEW b, NEW in, NEW ix, NEW k \in Nat, Shows(b, in, ix, k)
  PROVE Shows(b, in, ix, k + 1)
<1>1. \A j \in 1 .. k : j \in 1 .. k + 1
  OBVIOUS
<1>. QED BY <1>1, Zenon DEF Shows

\* The first sample of an index later than the others opens a bucket.
LEMMA FilledOpens ==
  ASSUME NEW in \in Seq(Sample), NEW ix \in [1 .. Len(in) -> Nat], NEW k \in Nat, k + 1 \in 1 .. Len(in),
         NEW out, Filled(out, in, ix, k), k # 0 => out[Len(out)].i < ix[k + 1]
  PROVE Filled(Append(out, [i |-> ix[k + 1], t |-> in[k + 1][1],
                            min |-> in[k + 1][2], max |-> in[k + 1][2]]), in, ix, k + 1)
<1>. DEFINE n  == Len(out)
            x  == in[k + 1]
            nb == [i |-> ix[k + 1], t |-> x[1], min |-> x[2], max |-> x[2]]
            r  == Append(out, nb)
<1>1. /\ out \in Seq(Bucket) /\ (out = <<>> <=> k = 0)
      /\ \A a \in 1 .. n : out[a].i >= a - 1 /\ Shows(out[a], in, ix, k)
      /\ \A a, b \in 1 .. n : a < b => out[a].i < out[b].i
      /\ \A j \in 1 .. k : \E a \in 1 .. n : Covers(out[a], ix[j], in[j])
  BY Zenon DEF Filled
<1>2. x \in Sample /\ x[1] \in Times /\ x[2] \in Nat /\ x[1] \in Nat
  BY SamplesAre, Zenon
<1>3. ix[k + 1] \in Nat
  BY Zenon
<1>4. nb \in Bucket /\ nb.i = ix[k + 1] /\ nb.t = x[1] /\ nb.min = x[2] /\ nb.max = x[2]
  BY <1>2, <1>3, Zenon DEF Bucket
<1>. HIDE DEF x, nb
<1>5. r \in Seq(Bucket) /\ Len(r) = n + 1 /\ n \in Nat /\ r # <<>> /\ r[n + 1] = nb
  <2>1. out \in Seq(Bucket) /\ nb \in Bucket
    BY <1>1, <1>4, Zenon
  <2>. QED BY <2>1, AppendIs, ZenonT(30)
<1>6. \A a \in 1 .. n : r[a] = out[a]
  BY <1>1, <1>4, AppendKeeps, ZenonT(30)
<1>7. \A a \in 1 .. n : out[a].i \in Nat /\ out[a].i < ix[k + 1]
  <2>. SUFFICES ASSUME NEW a \in 1 .. n PROVE out[a].i \in Nat /\ out[a].i < ix[k + 1]
    BY Zenon
  <2>1. n \in 1 .. n /\ out # <<>>
    BY <1>1
  <2>2. out[a] \in Bucket /\ out[n] \in Bucket
    BY <1>1, <2>1, SMTT(30)
  <2>3. out[a].i \in Nat /\ out[n].i \in Nat
    BY <2>2, Zenon DEF Bucket
  <2>4. out[n].i < ix[k + 1]
    BY <1>1, <2>1, Zenon
  <2>5. CASE a = n
    BY <2>3, <2>4, <2>5, Zenon
  <2>6. CASE a # n
    <3>1. a < n
      BY <1>5, <2>6
    <3>2. out[a].i < out[n].i
      BY <1>1, <2>1, <3>1, Zenon
    <3>. QED BY <1>3, <2>3, <2>4, <3>2
  <2>. QED BY <2>5, <2>6, Zenon
<1>. HIDE DEF r, n
<1>8. \A a \in 1 .. n + 1 : a \in 1 .. n \/ a = n + 1
  BY <1>5
<1>9. ASSUME NEW a \in 1 .. n + 1 PROVE r[a].i >= a - 1 /\ Shows(r[a], in, ix, k + 1)
  <2>1. CASE a \in 1 .. n
    BY <1>1, <1>6, <2>1, ShowsMore, Zenon
  <2>2. CASE a = n + 1
    <3>1. Shows(nb, in, ix, k + 1)
      <4>1. k + 1 \in 1 .. k + 1
        OBVIOUS
      <4>. QED BY <1>4, <4>1, Zenon DEF Shows, x
    <3>2. ix[k + 1] >= n
      <4>1. CASE n = 0
        BY <1>3, <4>1
      <4>2. CASE n # 0
        <5>1. n \in 1 .. n
          BY <1>5, <4>2
        <5>2. out[n].i >= n - 1 /\ out[n].i \in Nat /\ out[n].i < ix[k + 1]
          BY <1>1, <1>7, <5>1, Zenon
        <5>. QED BY <1>3, <1>5, <5>2
      <4>. QED BY <4>1, <4>2, Zenon
    <3>3. a - 1 = n
      BY <1>5, <2>2
    <3>. QED BY <1>4, <1>5, <2>2, <3>1, <3>2, <3>3, Zenon
  <2>. QED BY <1>8, <2>1, <2>2, Zenon
<1>10. ASSUME NEW a \in 1 .. n + 1, NEW b \in 1 .. n + 1, a < b PROVE r[a].i < r[b].i
  <2>1. a \in 1 .. n
    BY <1>5, <1>10
  <2>2. CASE b \in 1 .. n
    BY <1>1, <1>6, <1>10, <2>1, <2>2, Zenon
  <2>3. CASE b = n + 1
    BY <1>4, <1>5, <1>6, <1>7, <2>1, <2>3, Zenon
  <2>. QED BY <1>8, <2>2, <2>3, Zenon
<1>11. ASSUME NEW j \in 1 .. k + 1 PROVE \E a \in 1 .. n + 1 : Covers(r[a], ix[j], in[j])
  <2>1. n + 1 \in 1 .. n + 1 /\ \A a \in 1 .. n : a \in 1 .. n + 1
    BY <1>5
  <2>2. CASE j \in 1 .. k
    BY <1>1, <1>6, <2>1, <2>2, Zenon
  <2>3. CASE j = k + 1
    <3>1. x[1] <= x[1] /\ x[2] <= x[2]
      BY <1>2
    <3>2. Covers(nb, ix[k + 1], x)
      BY <1>4, <3>1, Zenon DEF Covers
    <3>. QED BY <1>5, <2>1, <2>3, <3>2, Zenon DEF x
  <2>4. j \in 1 .. k \/ j = k + 1
    OBVIOUS
  <2>. QED BY <2>2, <2>3, <2>4, Zenon
<1>12. k + 1 # 0 /\ r[Len(r)].i = ix[k + 1]
  BY <1>4, <1>5
<1>13. Filled(r, in, ix, k + 1)
  BY <1>5, <1>9, <1>10, <1>11, <1>12, Zenon DEF Filled
<1>. QED BY <1>13, Zenon DEF r, nb, x

\* A later sample of the last bucket's index widens it.
LEMMA FilledJoins ==
  ASSUME NEW in \in Seq(Sample), NonDecreasing(in), NEW ix \in [1 .. Len(in) -> Nat],
         NEW k \in Nat, k # 0, k + 1 \in 1 .. Len(in),
         NEW out, Filled(out, in, ix, k), out[Len(out)].i = ix[k + 1]
  PROVE Filled(WidenedLast(out, in[k + 1][2]), in, ix, k + 1)
<1>. DEFINE n == Len(out)
            x == in[k + 1]
            b == out[n]
            w == Widened(b, x[2])
            r == [out EXCEPT ![n] = w]
<1>1. /\ out \in Seq(Bucket) /\ (out = <<>> <=> k = 0)
      /\ \A a \in 1 .. n : out[a].i >= a - 1 /\ Shows(out[a], in, ix, k)
      /\ \A a, d \in 1 .. n : a < d => out[a].i < out[d].i
      /\ \A j \in 1 .. k : \E a \in 1 .. n : Covers(out[a], ix[j], in[j])
  BY Zenon DEF Filled
<1>2. x \in Sample /\ x[1] \in Times /\ x[2] \in Nat /\ x[1] \in Nat
  BY SamplesAre, Zenon
<1>3. n \in 1 .. n /\ n \in Nat /\ b \in Bucket
  BY <1>1
<1>4. /\ w \in Bucket /\ w.i = b.i /\ w.t = b.t
      /\ w.min \in {b.min, x[2]} /\ w.min <= b.min /\ w.min <= x[2]
      /\ w.max \in {b.max, x[2]} /\ b.max <= w.max /\ x[2] <= w.max
  BY <1>2, <1>3, WidenedIs, Zenon
<1>5. b.i = ix[k + 1] /\ b.i \in Nat /\ b.t \in Nat /\ b.min \in Nat /\ b.max \in Nat
  BY <1>3, TimesAre, Zenon DEF Bucket
<1>. HIDE DEF x, w
<1>6. r \in Seq(Bucket) /\ Len(r) = n /\ r # <<>> /\ r[n] = w /\ \A a \in 1 .. n : a # n => r[a] = out[a]
  BY <1>1, <1>3, <1>4
<1>. HIDE DEF r, n, b
<1>7. \A a \in 1 .. n : r[a].i = out[a].i
  BY <1>4, <1>6, Zenon DEF b
<1>8. \A j \in 1 .. k : j \in 1 .. k + 1
  OBVIOUS
<1>9. Shows(b, in, ix, k)
  BY <1>1, <1>3, Zenon DEF b
<1>10. Shows(w, in, ix, k + 1)
  <2>1. PICK j \in 1 .. k, l \in 1 .. k, m \in 1 .. k :
          /\ ix[j] = b.i /\ in[j][1] = b.t
          /\ ix[l] = b.i /\ in[l][2] = b.min
          /\ ix[m] = b.i /\ in[m][2] = b.max
    BY <1>9, Zenon DEF Shows
  <2>2. k + 1 \in 1 .. k + 1
    OBVIOUS
  <2>3. \E e \in 1 .. k + 1 : ix[e] = w.i /\ in[e][2] = w.min
    BY <1>4, <1>5, <1>8, <2>1, <2>2, Zenon DEF x
  <2>4. \E e \in 1 .. k + 1 : ix[e] = w.i /\ in[e][2] = w.max
    BY <1>4, <1>5, <1>8, <2>1, <2>2, Zenon DEF x
  <2>5. ix[j] = w.i /\ in[j][1] = w.t /\ j \in 1 .. k + 1
    BY <1>4, <1>8, <2>1, Zenon
  <2>. QED BY <2>3, <2>4, <2>5, Zenon DEF Shows
<1>11. ASSUME NEW a \in 1 .. n PROVE r[a].i >= a - 1 /\ Shows(r[a], in, ix, k + 1)
  <2>1. CASE a = n
    BY <1>1, <1>6, <1>7, <1>10, <2>1, Zenon
  <2>2. CASE a # n
    BY <1>1, <1>6, <2>2, ShowsMore, Zenon
  <2>. QED BY <2>1, <2>2, Zenon
<1>12. \A a, d \in 1 .. n : a < d => r[a].i < r[d].i
  BY <1>1, <1>7, Zenon
<1>13. ASSUME NEW j \in 1 .. k + 1 PROVE \E a \in 1 .. n : Covers(r[a], ix[j], in[j])
  <2>1. CASE j \in 1 .. k
    <3>1. PICK a \in 1 .. n : Covers(out[a], ix[j], in[j])
      BY <1>1, <2>1, Zenon
    <3>2. CASE a # n
      BY <1>6, <3>1, <3>2, Zenon
    <3>3. CASE a = n
      <4>1. b.i = ix[j] /\ b.t <= in[j][1] /\ b.min <= in[j][2] /\ in[j][2] <= b.max
        BY <3>1, <3>3, Zenon DEF Covers, b
      <4>2. in[j][2] \in Nat /\ j \in 1 .. Len(in)
        <5>1. j \in 1 .. Len(in)
          OBVIOUS
        <5>. QED BY <5>1, SamplesAre, Zenon
      <4>3. w.min \in Nat /\ w.max \in Nat
        BY <1>2, <1>4, <1>5, Zenon
      <4>. DEFINE v == in[j][2]  p == w.min  q == w.max  e == b.min  f == b.max
      <4>4. v \in Nat /\ p \in Nat /\ q \in Nat /\ e \in Nat /\ f \in Nat
            /\ e <= v /\ v <= f /\ p <= e /\ f <= q
        BY <1>4, <1>5, <4>1, <4>2, <4>3, Zenon
      <4>. HIDE DEF v, p, q, e, f
      <4>5. p <= v /\ v <= q
        BY <4>4
      <4>6. Covers(w, ix[j], in[j])
        BY <1>4, <4>1, <4>5, Zenon DEF Covers, v, p, q
      <4>. QED BY <1>3, <1>6, <4>6, Zenon
    <3>. QED BY <3>2, <3>3, Zenon
  <2>2. CASE j = k + 1
    <3>1. PICK e \in 1 .. k : in[e][1] = b.t
      BY <1>9, Zenon DEF Shows
    <3>2. e \in 1 .. Len(in) /\ k + 1 \in e .. Len(in)
      OBVIOUS
    <3>3. b.t <= x[1]
      BY <3>1, <3>2, SortedAll, Zenon DEF x
    <3>4. Covers(w, ix[k + 1], x)
      BY <1>4, <1>5, <3>3, Zenon DEF Covers
    <3>. QED BY <1>3, <1>6, <2>2, <3>4, Zenon DEF x
  <2>3. j \in 1 .. k \/ j = k + 1
    OBVIOUS
  <2>. QED BY <2>1, <2>2, <2>3, Zenon
<1>14. k + 1 # 0 /\ r[Len(r)].i = ix[k + 1]
  BY <1>4, <1>5, <1>6
<1>15. Filled(r, in, ix, k + 1)
  BY <1>6, <1>11, <1>12, <1>13, <1>14, Zenon DEF Filled
<1>. QED BY <1>15, Zenon DEF WidenedLast, r, n, w, x, b

\* Samples in a window.
Within(in, t0, t1) == \A k \in 1 .. Len(in) : t0 <= in[k][1] /\ in[k][1] < t1

\* The indexes of samples.
Indexes(in, t0, t1, max) == [k \in 1 .. Len(in) |-> BucketIndex(in[k][1], t0, t1, max)]

\* What downsampling shows of its buckets: not their index.
Shown(out) == [j \in DOMAIN out |-> [t |-> out[j].t, min |-> out[j].min, max |-> out[j].max]]

\* A sample more, of an index no smaller, goes to its bucket.
LEMMA FilledStep ==
  ASSUME NEW in \in Seq(Sample), NonDecreasing(in), NEW ix \in [1 .. Len(in) -> Nat],
         NEW k \in Nat, k + 1 \in 1 .. Len(in), k # 0 => ix[k] <= ix[k + 1],
         NEW out, Filled(out, in, ix, k)
  PROVE Filled(Bucketed(out, ix[k + 1], in[k + 1]), in, ix, k + 1)
<1>1. out \in Seq(Bucket) /\ (out = <<>> <=> k = 0) /\ (k # 0 => out[Len(out)].i = ix[k])
  BY Zenon DEF Filled
<1>2. ix[k + 1] \in Nat /\ in[k + 1] \in Sample
  BY SamplesAre, Zenon
<1>3. CASE k # 0 /\ ix[k] = ix[k + 1]
  <2>1. out[Len(out)].i = ix[k + 1]
    BY <1>1, <1>3, Zenon
  <2>2. Bucketed(out, ix[k + 1], in[k + 1]) = WidenedLast(out, in[k + 1][2])
    BY <1>1, <1>2, <1>3, <2>1, BucketedJoins, Zenon
  <2>. QED BY <1>3, <2>1, <2>2, FilledJoins, Zenon
<1>4. CASE k = 0 \/ ix[k] # ix[k + 1]
  <2>1. Bucketed(out, ix[k + 1], in[k + 1])
          = Append(out, [i |-> ix[k + 1], t |-> in[k + 1][1], min |-> in[k + 1][2], max |-> in[k + 1][2]])
    BY <1>1, <1>4, Zenon DEF Bucketed
  <2>2. k # 0 => out[Len(out)].i < ix[k + 1]
    <3>. SUFFICES ASSUME k # 0 PROVE out[Len(out)].i < ix[k + 1]
      BY Zenon
    <3>1. k \in 1 .. Len(in)
      OBVIOUS
    <3>2. ix[k] \in Nat /\ ix[k] <= ix[k + 1] /\ ix[k] # ix[k + 1]
      BY <1>4, <3>1, Zenon
    <3>3. ix[k] < ix[k + 1]
      BY <1>2, <3>2
    <3>. QED BY <1>1, <3>3, Zenon
  <2>. QED BY <2>1, <2>2, FilledOpens, Zenon
<1>. QED BY <1>3, <1>4, Zenon

\* The index ix[j] of one sample, and of a later one.
Indexed(ix, in, t0, t1, max, j, k) ==
  /\ ix \in [1 .. Len(in) -> Nat]
  /\ ix[j] = BucketIndex(in[j][1], t0, t1, max)
  /\ ix[j] <= ix[k]
  /\ max > 0 => ix[j] < max

\* The indexes of samples in order and in the window: naturals, in order, in range.
LEMMA IndexesAre ==
  ASSUME NEW t0 \in Nat, NEW t1 \in Nat, NEW max \in Nat,
         NEW in \in Seq(Sample), NonDecreasing(in), Within(in, t0, t1),
         NEW j \in 1 .. Len(in), NEW k \in j .. Len(in)
  PROVE Indexed(Indexes(in, t0, t1, max), in, t0, t1, max, j, k)
<1>. DEFINE ix == Indexes(in, t0, t1, max)
            Ix(i) == BucketIndex(in[i][1], t0, t1, max)
<1>1. ASSUME NEW a \in 1 .. Len(in), NEW b \in a .. Len(in)
      PROVE Ix(a) \in Nat /\ Ix(a) <= Ix(b) /\ (max > 0 => Ix(a) < max)
  <2>1. b \in 1 .. Len(in)
    OBVIOUS
  <2>2. in[a][1] \in Nat /\ in[b][1] \in Nat /\ in[a][1] <= in[b][1]
    BY <2>1, SamplesAre, SortedAll, Zenon
  <2>3. t0 <= in[a][1] /\ in[b][1] < t1 /\ in[a][1] < t1 /\ t0 <= in[b][1]
    BY <2>1, Zenon DEF Within
  <2>4. in[a][1] \in t0 .. t1 - 1 /\ in[b][1] \in in[a][1] .. t1 - 1
    BY <2>2, <2>3, SMTT(30)
  <2>. QED BY <2>4, IndexGrows, Zenon
<1>2. \A a \in 1 .. Len(in) : a \in a .. Len(in)
  OBVIOUS
<1>3. \A a \in 1 .. Len(in) : Ix(a) \in Nat
  BY <1>1, <1>2, Zenon
<1>. HIDE DEF Ix
<1>4. ix = [a \in 1 .. Len(in) |-> Ix(a)]
  BY Zenon DEF Indexes, Ix
<1>5. ix \in [1 .. Len(in) -> Nat]
  BY <1>3, <1>4, Zenon
<1>6. k \in 1 .. Len(in)
  OBVIOUS
<1>7. ix[j] = Ix(j) /\ ix[k] = Ix(k)
  BY <1>4, <1>6, Zenon
<1>8. Ix(j) <= Ix(k) /\ (max > 0 => Ix(j) < max)
  BY <1>1, Zenon
<1>. QED BY <1>5, <1>7, <1>8, Zenon DEF Ix, Indexed

\* A bucket list stays one.
LEMMA BucketedIs ==
  ASSUME NEW out \in Seq(Bucket), NEW i \in Nat, NEW x \in Sample
  PROVE Bucketed(out, i, x) \in Seq(Bucket)
<1>1. x[1] \in Times /\ x[2] \in Nat
  BY Zenon DEF Sample
<1>2. CASE out # <<>> /\ out[Len(out)].i = i
  <2>1. Len(out) \in DOMAIN out /\ out[Len(out)] \in Bucket
    BY <1>2
  <2>. DEFINE w == Widened(out[Len(out)], x[2])
  <2>2. w \in Bucket
    BY <1>1, <2>1, WidenedIs, Zenon
  <2>3. Bucketed(out, i, x) = [out EXCEPT ![Len(out)] = w]
    BY <1>2, BucketedJoins, Zenon DEF WidenedLast
  <2>. HIDE DEF w
  <2>. QED BY <2>1, <2>2, <2>3
<1>3. CASE ~(out # <<>> /\ out[Len(out)].i = i)
  <2>. DEFINE nb == [i |-> i, t |-> x[1], min |-> x[2], max |-> x[2]]
  <2>1. nb \in Bucket
    BY <1>1, Zenon DEF Bucket
  <2>2. Bucketed(out, i, x) = Append(out, nb)
    BY <1>3, Zenon DEF Bucketed
  <2>. HIDE DEF nb
  <2>. QED BY <2>1, <2>2, AppendIs, Zenon
<1>. QED BY <1>2, <1>3, Zenon

\* Downsampling goes through its samples once and shows the buckets it fills.
LEMMA DownsampledIs ==
  ASSUME NEW t0 \in Nat, NEW t1 \in Nat, NEW max \in Nat,
         NEW in \in Seq(Sample), NonDecreasing(in), Within(in, t0, t1)
  PROVE \E out : /\ Filled(out, in, Indexes(in, t0, t1, max), Len(in))
                 /\ Downsampled(in, t0, t1, max) = Shown(out)
<1>. DEFINE n  == Len(in)
            ix == Indexes(in, t0, t1, max)
            S  == Seq(Bucket)
            G  == [k \in Nat |-> [o \in S |-> IF k \in 1 .. n THEN Bucketed(o, ix[k], in[k]) ELSE o]]
            Steps(f) == f = [k \in 0 .. n |-> IF k = 0 THEN <<>>
                               ELSE Bucketed(f[k - 1], BucketIndex(in[k][1], t0, t1, max), in[k])]
<1>1. n \in Nat
  OBVIOUS
<1>2. ASSUME NEW k \in 1 .. n
      PROVE ix \in [1 .. n -> Nat] /\ ix[k] = BucketIndex(in[k][1], t0, t1, max) /\ ix[k] \in Nat /\ in[k] \in Sample
  <2>1. k \in k .. n
    BY <1>1
  <2>2. Indexed(ix, in, t0, t1, max, k, k)
    BY <2>1, IndexesAre, Zenon
  <2>3. ix \in [1 .. n -> Nat] /\ ix[k] = BucketIndex(in[k][1], t0, t1, max)
    BY <2>2, Zenon DEF Indexed
  <2>. QED BY <2>3, SamplesAre, Zenon
<1>3. ASSUME NEW k \in Nat, k # 0, k + 1 \in 1 .. n PROVE ix[k] <= ix[k + 1]
  <2>1. k \in 1 .. n /\ k + 1 \in k .. n
    BY <1>3
  <2>. QED BY <2>1, IndexesAre, Zenon DEF Indexed
<1>. HIDE DEF ix, S
<1>4. ASSUME NEW k \in 1 .. n, NEW o \in S PROVE Bucketed(o, ix[k], in[k]) \in S
  BY <1>2, BucketedIs, Zenon DEF S
<1>5. G \in [Nat -> [S -> S]]
  BY <1>4, Zenon
<1>6. <<>> \in S
  BY DEF S
<1>7. PICK f \in [0 .. n -> S] : f[0] = <<>> /\ \A k \in 1 .. n : f[k] = G[k][f[k - 1]]
  <2>. HIDE DEF G
  <2>1. PICK f : Turns(S, <<>>, G, n, f)
    BY <1>1, <1>5, <1>6, Iterated, Zenon
  <2>. QED BY <2>1, Zenon DEF Turns
<1>8. ASSUME NEW k \in 1 .. n PROVE f[k] = Bucketed(f[k - 1], ix[k], in[k])
  <2>1. k - 1 \in 0 .. n /\ k \in Nat
    OBVIOUS
  <2>2. f[k - 1] \in S
    BY <1>7, <2>1, Zenon
  <2>. QED BY <1>7, <2>1, <2>2, Zenon
<1>. HIDE DEF n
<1>9. Steps(f)
  <2>1. ASSUME NEW k \in 0 .. n
        PROVE f[k] = IF k = 0 THEN <<>> ELSE Bucketed(f[k - 1], BucketIndex(in[k][1], t0, t1, max), in[k])
    <3>1. k # 0 => k \in 1 .. n
      BY <1>1
    <3>. QED BY <1>2, <1>7, <1>8, <3>1, Zenon
  <2>. QED BY <1>7, <2>1, Zenon
<1>10. \A g : Steps(g) => g = f
  <2>. SUFFICES ASSUME NEW g, Steps(g) PROVE g = f
    BY Zenon
  <2>1. \A k \in 0 .. n : g[k] = IF k = 0 THEN <<>>
                                 ELSE Bucketed(g[k - 1], BucketIndex(in[k][1], t0, t1, max), in[k])
    BY Zenon
  <2>. DEFINE T == {k \in Nat : k \in 0 .. n => g[k] = f[k]}
  <2>2. 0 \in T
    <3>1. 0 \in 0 .. n
      BY <1>1
    <3>. QED BY <1>7, <2>1, <3>1, Zenon
  <2>3. ASSUME NEW k \in Nat, k \in T PROVE k + 1 \in T
    <3>. SUFFICES ASSUME k + 1 \in 0 .. n PROVE g[k + 1] = f[k + 1]
      OBVIOUS
    <3>1. k \in 0 .. n /\ k + 1 \in 1 .. n /\ k + 1 # 0 /\ (k + 1) - 1 = k
      BY <1>1
    <3>2. g[k] = f[k]
      BY <2>3, <3>1, Zenon
    <3>3. g[k + 1] = Bucketed(g[k], ix[k + 1], in[k + 1])
      BY <1>2, <2>1, <3>1, Zenon
    <3>4. f[k + 1] = Bucketed(f[k], ix[k + 1], in[k + 1])
      BY <1>8, <3>1, Zenon
    <3>. QED BY <3>2, <3>3, <3>4, Zenon
  <2>4. \A k \in Nat : k \in T
    <3>. HIDE DEF T
    <3>. QED BY <2>2, <2>3, SetInduction, Zenon
  <2>5. ASSUME NEW k \in 0 .. n PROVE g[k] = f[k]
    <3>1. k \in Nat
      BY <1>1
    <3>. QED BY <2>4, <3>1, Zenon
  <2>6. g = [k \in 0 .. n |-> g[k]] /\ f = [k \in 0 .. n |-> f[k]]
    BY <1>9, Zenon
  <2>. HIDE DEF Steps
  <2>. QED BY <2>5, <2>6, Zenon
<1>11. Downsampled(in, t0, t1, max) = Shown(f[n])
  <2>1. Downsampled(in, t0, t1, max) = Shown((CHOOSE g : Steps(g))[n])
    BY Zenon DEF Downsampled, Shown, n
  <2>. HIDE DEF Steps
  <2>. QED BY <1>9, <1>10, <2>1, Zenon
<1>. DEFINE T == {k \in Nat : k \in 0 .. n => Filled(f[k], in, ix, k)}
<1>12. 0 \in T
  <2>1. Filled(<<>>, in, ix, 0)
    BY DEF Filled
  <2>. QED BY <1>7, <2>1, Zenon
<1>13. ASSUME NEW k \in Nat, k \in T PROVE k + 1 \in T
  <2>. SUFFICES ASSUME k + 1 \in 0 .. n PROVE Filled(f[k + 1], in, ix, k + 1)
    OBVIOUS
  <2>1. k \in 0 .. n /\ k + 1 \in 1 .. n /\ (k + 1) - 1 = k
    BY <1>1
  <2>2. Filled(f[k], in, ix, k)
    BY <1>13, <2>1, Zenon
  <2>3. f[k + 1] = Bucketed(f[k], ix[k + 1], in[k + 1])
    BY <1>8, <2>1, Zenon
  <2>4. ix \in [1 .. n -> Nat] /\ (k # 0 => ix[k] <= ix[k + 1])
    BY <1>2, <1>3, <2>1, Zenon
  <2>5. Filled(Bucketed(f[k], ix[k + 1], in[k + 1]), in, ix, k + 1)
    BY <2>1, <2>2, <2>4, FilledStep, Zenon DEF n
  <2>. QED BY <2>3, <2>5, Zenon
<1>14. \A k \in Nat : k \in T
  <2>. HIDE DEF T
  <2>. QED BY <1>12, <1>13, SetInduction, Zenon
<1>15. Filled(f[n], in, ix, n)
  <2>1. n \in 0 .. n
    BY <1>1
  <2>. QED BY <1>1, <1>14, <2>1, Zenon
<1>. QED BY <1>11, <1>15, Zenon DEF n, ix

\* Time t falls to answer a of q: it is the last to begin at or before t.
Falls(q, a, t) == q[a].t <= t /\ \A d \in 1 .. Len(q) : q[d].t <= q[a].t \/ q[d].t > t

\* Value v of a sample at t is one that answer a of q stands for.
Stands(q, a, in, v) == \E j \in 1 .. Len(in) : in[j][2] = v /\ Falls(q, a, in[j][1])

\* At most max answers, in order of time, that show the samples in and no others.
Renders(q, in, max) ==
  /\ DOMAIN q = 1 .. Len(q) /\ Len(q) \in 0 .. max
  /\ \A a \in 1 .. Len(q) - 1 : q[a].t <= q[a + 1].t
  /\ \A j \in 1 .. Len(in) : \E a \in 1 .. Len(q) :
        Falls(q, a, in[j][1]) /\ q[a].min <= in[j][2] /\ in[j][2] <= q[a].max
  /\ \A a \in 1 .. Len(q) : Stands(q, a, in, q[a].min) /\ Stands(q, a, in, q[a].max)

\* The samples as they are render themselves.
Plain(in) == [j \in DOMAIN in |-> [t |-> in[j][1], min |-> in[j][2], max |-> in[j][2]]]

\* When they fit, that is.
LEMMA PlainRenders ==
  ASSUME NEW in \in Seq(Sample), NonDecreasing(in), NEW max \in Nat, Len(in) <= max
  PROVE Renders(Plain(in), in, max)
<1>. DEFINE q == Plain(in)
            n == Len(in)
<1>1. n \in Nat /\ DOMAIN in = 1 .. n
  OBVIOUS
<1>2. q = [j \in 1 .. n |-> [t |-> in[j][1], min |-> in[j][2], max |-> in[j][2]]]
  BY <1>1, Zenon DEF Plain
<1>3. DOMAIN q = 1 .. n /\ Len(q) = n
  BY <1>1, <1>2
<1>4. ASSUME NEW j \in 1 .. n
      PROVE q[j].t = in[j][1] /\ q[j].min = in[j][2] /\ q[j].max = in[j][2]
            /\ in[j][1] \in Nat /\ in[j][2] \in Nat /\ in[j][1] <= in[j][1] /\ in[j][2] <= in[j][2]
  <2>1. q[j] = [t |-> in[j][1], min |-> in[j][2], max |-> in[j][2]]
    BY <1>2, Zenon
  <2>2. q[j].t = in[j][1] /\ q[j].min = in[j][2] /\ q[j].max = in[j][2]
    BY <2>1
  <2>3. in[j][1] \in Nat /\ in[j][2] \in Nat
    BY SamplesAre, Zenon
  <2>4. in[j][1] <= in[j][1] /\ in[j][2] <= in[j][2]
    BY <2>3
  <2>. QED BY <2>2, <2>3, <2>4, Zenon
<1>. HIDE DEF q, n
<1>5. ASSUME NEW j \in 1 .. n PROVE Falls(q, j, in[j][1])
  <2>1. ASSUME NEW d \in 1 .. n PROVE in[d][1] <= in[j][1] \/ in[d][1] > in[j][1]
    BY <1>4
  <2>. QED BY <1>3, <1>4, <2>1, Zenon DEF Falls
<1>6. ASSUME NEW a \in 1 .. n - 1 PROVE q[a].t <= q[a + 1].t
  <2>1. a \in 1 .. n /\ a + 1 \in 1 .. n
    BY <1>1
  <2>2. in[a][1] <= in[a + 1][1]
    BY Zenon DEF NonDecreasing, n
  <2>. QED BY <1>4, <2>1, <2>2, Zenon
<1>7. n \in 0 .. max
  BY <1>1 DEF n
<1>8. \A a \in 1 .. n : Stands(q, a, in, q[a].min) /\ Stands(q, a, in, q[a].max)
  BY <1>4, <1>5, Zenon DEF Stands, n
<1>9. \A j \in 1 .. n : \E a \in 1 .. n :
        Falls(q, a, in[j][1]) /\ q[a].min <= in[j][2] /\ in[j][2] <= q[a].max
  BY <1>4, <1>5, Zenon
<1>. QED BY <1>3, <1>6, <1>7, <1>8, <1>9, Zenon DEF Renders, q, n

\* A sample of a smaller index is an earlier one.
LEMMA SmallerIndexEarlier ==
  ASSUME NEW t0 \in Nat, NEW t1 \in Nat, NEW max \in Nat,
         NEW in \in Seq(Sample), NonDecreasing(in), Within(in, t0, t1),
         NEW j \in 1 .. Len(in), NEW k \in 1 .. Len(in),
         Indexes(in, t0, t1, max)[j] < Indexes(in, t0, t1, max)[k]
  PROVE in[j][1] < in[k][1]
<1>. DEFINE ix == Indexes(in, t0, t1, max)
<1>1. ix[j] = BucketIndex(in[j][1], t0, t1, max) /\ ix[k] = BucketIndex(in[k][1], t0, t1, max)
  BY Zenon DEF Indexes
<1>2. in[j][1] \in Nat /\ in[k][1] \in Nat
  BY SamplesAre, Zenon
<1>3. t0 <= in[j][1] /\ in[j][1] < t1 /\ t0 <= in[k][1]
  BY Zenon DEF Within
<1>. HIDE DEF ix
<1>4. ASSUME ~(in[j][1] < in[k][1]) PROVE FALSE
  <2>1. in[k][1] \in t0 .. t1 - 1 /\ in[j][1] \in in[k][1] .. t1 - 1 /\ in[j][1] \in t0 .. t1 - 1 /\ in[j][1] \in in[j][1] .. t1 - 1
    BY <1>2, <1>3, <1>4, SMTT(30)
  <2>. DEFINE tj == in[j][1]  tk == in[k][1]
  <2>2. ix[k] <= ix[j] /\ ix[k] \in Nat
    <3>1. tk \in t0 .. t1 - 1 /\ tj \in tk .. t1 - 1
      BY <2>1, Zenon
    <3>. HIDE DEF tj, tk
    <3>2. BucketIndex(tk, t0, t1, max) \in Nat /\ BucketIndex(tk, t0, t1, max) <= BucketIndex(tj, t0, t1, max)
      BY <3>1, IndexGrows, Zenon
    <3>. QED BY <1>1, <3>2, Zenon DEF tj, tk
  <2>3. ix[j] \in Nat
    <3>1. tj \in t0 .. t1 - 1 /\ tj \in tj .. t1 - 1
      BY <2>1, Zenon
    <3>. HIDE DEF tj
    <3>2. BucketIndex(tj, t0, t1, max) \in Nat
      BY <3>1, IndexGrows, Zenon
    <3>. QED BY <1>1, <3>2, Zenon DEF tj
  <2>4. ix[j] < ix[k]
    BY Zenon DEF ix
  <2>. QED BY <2>2, <2>3, <2>4
<1>. QED BY <1>4, Zenon

\* Buckets render the samples they were filled with.
LEMMA BucketsRender ==
  ASSUME NEW t0 \in Nat, NEW t1 \in Nat, NEW max \in Nat, max > 0,
         NEW in \in Seq(Sample), NonDecreasing(in), Within(in, t0, t1),
         NEW out, Filled(out, in, Indexes(in, t0, t1, max), Len(in))
  PROVE Renders(Shown(out), in, max)
<1>. DEFINE ix == Indexes(in, t0, t1, max)
            k  == Len(in)
            n  == Len(out)
            q  == Shown(out)
<1>1. /\ out \in Seq(Bucket) /\ (out = <<>> <=> k = 0)
      /\ \A a \in 1 .. n : out[a].i >= a - 1 /\ Shows(out[a], in, ix, k)
      /\ \A a, b \in 1 .. n : a < b => out[a].i < out[b].i
      /\ \A j \in 1 .. k : \E a \in 1 .. n : Covers(out[a], ix[j], in[j])
  BY Zenon DEF Filled
<1>2. n \in Nat /\ k \in Nat /\ DOMAIN out = 1 .. n
  BY <1>1
<1>3. q = [j \in 1 .. n |-> [t |-> out[j].t, min |-> out[j].min, max |-> out[j].max]]
  BY <1>2, Zenon DEF Shown
<1>4. DOMAIN q = 1 .. n /\ Len(q) = n
  BY <1>2, <1>3
<1>5. ASSUME NEW a \in 1 .. n
      PROVE /\ q[a].t = out[a].t /\ q[a].min = out[a].min /\ q[a].max = out[a].max
            /\ out[a].t \in Nat /\ out[a].i \in Nat
  <2>1. q[a] = [t |-> out[a].t, min |-> out[a].min, max |-> out[a].max]
    BY <1>3, Zenon
  <2>2. out[a] \in Bucket
    BY <1>1
  <2>3. out[a].t \in Times /\ out[a].i \in Nat
    BY <2>2, Zenon DEF Bucket
  <2>4. q[a].t = out[a].t /\ q[a].min = out[a].min /\ q[a].max = out[a].max
    BY <2>1
  <2>. QED BY <2>3, <2>4, TimesAre, Zenon
<1>6. ASSUME NEW j \in 1 .. k, NEW l \in 1 .. k, ix[j] < ix[l]
      PROVE in[j][1] \in Nat /\ in[l][1] \in Nat /\ in[j][1] < in[l][1]
  BY <1>6, SamplesAre, SmallerIndexEarlier, Zenon
<1>7. ASSUME NEW j \in 1 .. k PROVE ix[j] \in Nat /\ ix[j] < max
  <2>1. j \in j .. k
    BY <1>2
  <2>2. Indexed(ix, in, t0, t1, max, j, j)
    BY <2>1, IndexesAre, Zenon
  <2>. QED BY <2>2, Zenon DEF Indexed
<1>. HIDE DEF ix, k, n, q
<1>8. ASSUME NEW a \in 1 .. n, NEW b \in 1 .. n, a < b PROVE out[a].t <= out[b].t
  <2>1. PICK j \in 1 .. k : ix[j] = out[a].i /\ in[j][1] = out[a].t
    BY <1>1, Zenon DEF Shows
  <2>2. PICK l \in 1 .. k : ix[l] = out[b].i /\ in[l][1] = out[b].t
    BY <1>1, Zenon DEF Shows
  <2>3. out[a].i < out[b].i
    BY <1>1, <1>8, Zenon
  <2>4. ix[j] < ix[l]
    BY <2>1, <2>2, <2>3, Zenon
  <2>5. in[j][1] \in Nat /\ in[l][1] \in Nat /\ in[j][1] < in[l][1]
    BY <1>6, <2>4, Zenon
  <2>6. in[j][1] <= in[l][1]
    BY <2>5, SMTT(30)
  <2>. QED BY <2>1, <2>2, <2>6, Zenon
<1>9. ASSUME NEW a \in 1 .. n, NEW j \in 1 .. k, out[a].i = ix[j], out[a].t <= in[j][1]
      PROVE Falls(q, a, in[j][1])
  <2>1. ASSUME NEW d \in 1 .. n PROVE out[d].t <= out[a].t \/ out[d].t > in[j][1]
    <3>1. d < a \/ d = a \/ a < d
      BY <1>2
    <3>2. CASE d < a
      BY <1>8, <3>2, Zenon
    <3>3. CASE d = a
      BY <1>5, <3>3
    <3>4. CASE a < d
      <4>1. PICK l \in 1 .. k : ix[l] = out[d].i /\ in[l][1] = out[d].t
        BY <1>1, Zenon DEF Shows
      <4>2. out[a].i < out[d].i
        BY <1>1, <3>4, Zenon
      <4>3. ix[j] < ix[l]
        BY <1>9, <4>1, <4>2, Zenon
      <4>4. in[j][1] \in Nat /\ in[l][1] \in Nat /\ in[j][1] < in[l][1]
        BY <1>6, <4>3, Zenon
      <4>5. in[l][1] > in[j][1]
        BY <4>4, Zenon
      <4>. QED BY <4>1, <4>5, Zenon
    <3>. QED BY <3>1, <3>2, <3>3, <3>4, Zenon
  <2>. QED BY <1>4, <1>5, <1>9, <2>1, Zenon DEF Falls
<1>10. ASSUME NEW a \in 1 .. n, NEW j \in 1 .. k, out[a].i = ix[j] PROVE Falls(q, a, in[j][1])
  <2>1. PICK b \in 1 .. n : Covers(out[b], ix[j], in[j])
    BY <1>1, Zenon
  <2>2. out[b].i = out[a].i /\ out[b].t <= in[j][1]
    BY <1>10, <2>1, Zenon DEF Covers
  <2>3. ~(a < b) /\ ~(b < a)
    <3>1. a < b => out[a].i < out[b].i
      BY <1>1, Zenon
    <3>2. b < a => out[b].i < out[a].i
      BY <1>1, Zenon
    <3>3. out[a].i \in Nat
      BY <1>5, Zenon
    <3>. QED BY <2>2, <3>1, <3>2, <3>3
  <2>4. a = b
    BY <1>2, <2>3
  <2>. QED BY <1>9, <1>10, <2>2, <2>4, Zenon
<1>11. ASSUME NEW a \in 1 .. n PROVE Stands(q, a, in, q[a].min) /\ Stands(q, a, in, q[a].max)
  <2>1. PICK l \in 1 .. k : ix[l] = out[a].i /\ in[l][2] = out[a].min
    BY <1>1, Zenon DEF Shows
  <2>2. PICK m \in 1 .. k : ix[m] = out[a].i /\ in[m][2] = out[a].max
    BY <1>1, Zenon DEF Shows
  <2>3. Falls(q, a, in[l][1]) /\ Falls(q, a, in[m][1])
    BY <1>10, <2>1, <2>2, Zenon
  <2>. QED BY <1>5, <2>1, <2>2, <2>3, Zenon DEF Stands, k
<1>12. ASSUME NEW j \in 1 .. k
       PROVE \E a \in 1 .. n : Falls(q, a, in[j][1]) /\ q[a].min <= in[j][2] /\ in[j][2] <= q[a].max
  <2>1. PICK a \in 1 .. n : Covers(out[a], ix[j], in[j])
    BY <1>1, Zenon
  <2>2. /\ out[a].i = ix[j] /\ out[a].t <= in[j][1]
        /\ out[a].min <= in[j][2] /\ in[j][2] <= out[a].max
    BY <2>1, Zenon DEF Covers
  <2>. QED BY <1>5, <1>9, <2>2, Zenon
<1>13. ASSUME NEW a \in 1 .. n - 1 PROVE q[a].t <= q[a + 1].t
  <2>1. a \in 1 .. n /\ a + 1 \in 1 .. n /\ a < a + 1
    BY <1>2
  <2>. QED BY <1>5, <1>8, <2>1, Zenon
<1>14. n \in 0 .. max
  <2>1. CASE n = 0
    BY <2>1
  <2>2. CASE n # 0
    <3>1. n \in 1 .. n
      BY <1>2, <2>2
    <3>2. PICK j \in 1 .. k : ix[j] = out[n].i
      BY <1>1, <3>1, Zenon DEF Shows
    <3>3. out[n].i >= n - 1 /\ out[n].i \in Nat /\ out[n].i < max
      BY <1>1, <1>7, <3>1, <3>2, Zenon
    <3>. QED BY <1>2, <3>3
  <2>. QED BY <2>1, <2>2, Zenon
<1>. QED BY <1>4, <1>11, <1>12, <1>13, <1>14, Zenon DEF Renders, q, k

\* What query_scalar answers renders the samples of the window.
LEMMA QueryScalarRenders ==
  ASSUME StoreInv, NEW c \in Of("scalar"), Sorted(c),
         NEW t0 \in Nat, NEW t1 \in Nat, t0 < t1, NEW max \in Nat, max > 0
  PROVE \E a, b, in : /\ Slice(pushed[c], t0, t1, a, b, in)
                      /\ Renders(QueryScalar(c, t0, t1, max), in, max)
<1>. DEFINE in == InRange(series[c], t0, t1)
<1>1. c \in Known /\ Kinds[c] # "state"
  BY Zenon DEF Of
<1>2. series[c] = pushed[c] /\ pushed[c] \in Seq(Sample)
  BY <1>1, SeriesIsPushed, Zenon
<1>3. NonDecreasing(pushed[c])
  BY Zenon DEF Sorted
<1>4. t0 <= t1
  OBVIOUS
<1>5. PICK a, b : Slice(pushed[c], t0, t1, a, b, in)
  BY <1>2, <1>3, <1>4, InRangeIs, Zenon
<1>. HIDE DEF in
<1>6. in \in Seq(Sample) /\ Len(in) \in Nat /\ NonDecreasing(in) /\ Within(in, t0, t1)
  <2>1. in \in Seq(Sample) /\ Len(in) \in Nat /\ NonDecreasing(in) /\ Selects(in, pushed[c], t0, t1)
    BY <1>2, <1>3, <1>5, SliceIs, Zenon
  <2>. QED BY <2>1, Zenon DEF Within, Selects
<1>7. QueryScalar(c, t0, t1, max) = IF Len(in) <= max THEN Plain(in) ELSE Downsampled(in, t0, t1, max)
  BY Zenon DEF QueryScalar, Queryable, Plain, in
<1>8. CASE Len(in) <= max
  BY <1>5, <1>6, <1>7, <1>8, PlainRenders, Zenon
<1>9. CASE ~(Len(in) <= max)
  <2>1. PICK out : /\ Filled(out, in, Indexes(in, t0, t1, max), Len(in))
                   /\ Downsampled(in, t0, t1, max) = Shown(out)
    <3>1. in \in Seq(Sample) /\ NonDecreasing(in) /\ Within(in, t0, t1)
      BY <1>6, Zenon
    <3>. QED BY <3>1, DownsampledIs, ZenonT(30)
  <2>2. Renders(Shown(out), in, max)
    BY <1>6, <2>1, BucketsRender, Zenon
  <2>. QED BY <1>5, <1>7, <1>9, <2>1, <2>2, Zenon
<1>. QED BY <1>8, <1>9, Zenon

\* Sample x belongs to bucket b of the answer q, as BucketsExact says it.
Belongs(q, b, x) == b.t <= x[1] /\ \A d \in Range(q) : d.t <= b.t \/ d.t > x[1]

\* BucketsExact of one query.
Exactly(q, xs, max) ==
  /\ Len(q) <= max
  /\ \A i \in 1 .. Len(q) - 1 : q[i].t <= q[i + 1].t
  /\ \A x \in xs : \E b \in Range(q) : Belongs(q, b, x) /\ b.min <= x[2] /\ x[2] <= b.max
  /\ \A b \in Range(q) : \A v \in {b.min, b.max} : \E x \in xs : Belongs(q, b, x) /\ x[2] = v

\* An answer that renders the slice of a window is exact for the samples of it.
LEMMA RendersExactly ==
  ASSUME NEW s \in Seq(Sample), NonDecreasing(s), NEW t0 \in Nat, NEW t1 \in Nat, NEW max \in Nat,
         NEW a, NEW b, NEW in, Slice(s, t0, t1, a, b, in), NEW q, Renders(q, in, max)
  PROVE Exactly(q, {x \in Range(s) : t0 <= x[1] /\ x[1] < t1}, max)
<1>. DEFINE xs == {x \in Range(s) : t0 <= x[1] /\ x[1] < t1}
<1>1. /\ \A k \in 1 .. Len(in) : t0 <= in[k][1] /\ in[k][1] < t1 /\ in[k] \in Range(s)
      /\ \A x \in Range(s) : t0 <= x[1] /\ x[1] < t1 => \E k \in 1 .. Len(in) : in[k] = x
  <2>1. Selects(in, s, t0, t1)
    BY SliceIs, Zenon
  <2>. QED BY <2>1, Zenon DEF Selects
<1>2. /\ DOMAIN q = 1 .. Len(q) /\ Len(q) \in 0 .. max
      /\ \A i \in 1 .. Len(q) - 1 : q[i].t <= q[i + 1].t
      /\ \A j \in 1 .. Len(in) : \E i \in 1 .. Len(q) :
            Falls(q, i, in[j][1]) /\ q[i].min <= in[j][2] /\ in[j][2] <= q[i].max
      /\ \A i \in 1 .. Len(q) : Stands(q, i, in, q[i].min) /\ Stands(q, i, in, q[i].max)
  BY Zenon DEF Renders
<1>3. Len(q) <= max
  BY <1>2
<1>4. ASSUME NEW i \in 1 .. Len(q), NEW x, Falls(q, i, x[1]) PROVE Belongs(q, q[i], x)
  BY <1>2, <1>4, Zenon DEF Falls, Belongs, Range
<1>5. \A i \in 1 .. Len(q) : q[i] \in Range(q)
  BY <1>2, Zenon DEF Range
<1>6. ASSUME NEW x \in xs
      PROVE \E d \in Range(q) : Belongs(q, d, x) /\ d.min <= x[2] /\ x[2] <= d.max
  <2>1. PICK j \in 1 .. Len(in) : in[j] = x
    BY <1>1, Zenon
  <2>. QED BY <1>2, <1>4, <1>5, <2>1, Zenon
<1>7. ASSUME NEW d \in Range(q), NEW v \in {d.min, d.max}
      PROVE \E x \in xs : Belongs(q, d, x) /\ x[2] = v
  <2>1. PICK i \in 1 .. Len(q) : d = q[i]
    BY <1>2, Zenon DEF Range
  <2>2. Stands(q, i, in, v)
    BY <1>2, <2>1, Zenon
  <2>3. PICK j \in 1 .. Len(in) : in[j][2] = v /\ Falls(q, i, in[j][1])
    BY <2>2, Zenon DEF Stands
  <2>4. in[j] \in xs
    BY <1>1, Zenon
  <2>. QED BY <1>4, <2>1, <2>3, <2>4, Zenon
<1>. QED BY <1>2, <1>3, <1>6, <1>7, Zenon DEF Exactly

\* Over samples in time order query_scalar answers at most max_buckets buckets, in
\* order; every sample of the window lies within the min and max of its bucket and
\* every min and max is the value of such a sample: no spike is lost or made up.
THEOREM StoreBucketsExact == Spec => []BucketsExact
<1>1. StoreInv => BucketsExact
  <2>1. ASSUME StoreInv, NEW c \in Of("scalar"), NEW w \in Windows, NEW max \in BucketBudgets, Sorted(c)
        PROVE Exactly(QueryScalar(c, w[1], w[2], max), Seen(c, w), max)
    <3>1. w[1] \in Ends /\ w[2] \in Ends /\ w[1] < w[2]
      BY Zenon DEF Windows
    <3>2. w[1] \in Nat /\ w[2] \in Nat /\ max \in Nat /\ max > 0
      BY <3>1, EndsAre, BudgetsAssumption
    <3>3. c \in Known /\ Kinds[c] # "state"
      BY Zenon DEF Of
    <3>4. pushed[c] \in Seq(Sample) /\ NonDecreasing(pushed[c])
      BY <2>1, <3>3, SeriesIsPushed, Zenon DEF Sorted
    <3>5. PICK a, b, in : /\ Slice(pushed[c], w[1], w[2], a, b, in)
                          /\ Renders(QueryScalar(c, w[1], w[2], max), in, max)
      BY <2>1, <3>1, <3>2, QueryScalarRenders, Zenon
    <3>. QED BY <3>2, <3>4, <3>5, RendersExactly, Zenon DEF Seen
  <2>. QED BY <2>1, Zenon DEF BucketsExact, Exactly, Belongs
<1>. QED BY <1>1, StoreInvariant, PTL

-----------------------------------------------------------------------------
(* Bounds *)

\* The least of a set of naturals.
LEMMA MinIs ==
  ASSUME NEW S \in SUBSET Nat, NEW m \in S, \A y \in S : m <= y
  PROVE Min(S) = m
<1>1. \A x \in S : (\A y \in S : x <= y) => x = m
  OBVIOUS
<1>. QED BY <1>1, Zenon DEF Min

\* A set of naturals below a bound that is not empty has a maximum.
LEMMA MaxOfNats ==
  ASSUME NEW n \in Nat, NEW S \in SUBSET (0 .. n), S # {}
  PROVE \E m \in S : \A y \in S : y <= m
<1>. DEFINE D == {n - x : x \in S}
<1>1. D \in SUBSET Nat /\ D # {}
  <2>1. \A x \in S : n - x \in Nat
    OBVIOUS
  <2>. QED BY <2>1, Zenon
<1>2. PICK d \in D : \A e \in D : d <= e
  <2>. HIDE DEF D
  <2>. QED BY <1>1, MinOfNats, Zenon
<1>3. PICK m \in S : d = n - m
  BY Zenon
<1>4. ASSUME NEW y \in S PROVE y <= m
  <2>1. n - y \in D
    BY Zenon
  <2>2. n - m <= n - y
    BY <1>2, <1>3, <2>1, Zenon
  <2>3. m \in 0 .. n /\ y \in 0 .. n
    BY Zenon
  <2>. QED BY <2>2, <2>3
<1>. QED BY <1>4, Zenon

\* The values of finitely many samples are below a bound.
LEMMA ValuesBounded ==
  ASSUME NEW p \in Seq(Sample)
  PROVE \E n \in Nat : \A i \in 1 .. Len(p) : p[i][2] \in 0 .. n
<1>. DEFINE Below(k, n) == \A i \in 1 .. Len(p) : i <= k => p[i][2] \in 0 .. n
            T == {k \in Nat : \E n \in Nat : Below(k, n)}
<1>0. \A i \in 1 .. Len(p) : p[i][2] \in Nat
  BY SamplesAre, Zenon
<1>1. 0 \in T
  <2>1. Below(0, 0)
    OBVIOUS
  <2>. HIDE DEF Below
  <2>. QED BY <2>1, Zenon
<1>2. ASSUME NEW k \in Nat, k \in T PROVE k + 1 \in T
  <2>1. PICK n \in Nat : Below(k, n)
    <3>. HIDE DEF Below
    <3>. QED BY <1>2, Zenon
  <2>2. \E m \in Nat : Below(k + 1, m)
    <3>1. CASE k + 1 \in 1 .. Len(p)
      <4>. DEFINE v == p[k + 1][2]
      <4>1. v \in Nat
        BY <1>0, <3>1, Zenon
      <4>2. ASSUME NEW i \in 1 .. Len(p), i <= k + 1 PROVE p[i][2] \in 0 .. n + v
        <5>1. CASE i = k + 1
          BY <4>1, <5>1
        <5>2. CASE i # k + 1
          <6>1. i <= k
            BY <4>2, <5>2
          <6>2. p[i][2] \in 0 .. n
            BY <2>1, <6>1, Zenon
          <6>. HIDE DEF v
          <6>. QED BY <4>1, <6>2
        <5>. QED BY <5>1, <5>2, Zenon
      <4>3. n + v \in Nat
        BY <4>1
      <4>. QED BY <4>2, <4>3, Zenon
    <3>2. CASE k + 1 \notin 1 .. Len(p)
      <4>1. \A i \in 1 .. Len(p) : i <= k + 1 => i <= k
        BY <3>2
      <4>. QED BY <2>1, <4>1, Zenon
    <3>. QED BY <3>1, <3>2, Zenon
  <2>3. k + 1 \in Nat
    OBVIOUS
  <2>. HIDE DEF Below
  <2>. QED BY <2>2, <2>3, Zenon
<1>3. \A k \in Nat : k \in T
  <2>. HIDE DEF T
  <2>. QED BY <1>1, <1>2, SetInduction, Zenon
<1>4. PICK n \in Nat : Below(Len(p), n)
  <2>. HIDE DEF Below
  <2>1. Len(p) \in Nat
    OBVIOUS
  <2>. QED BY <1>3, <2>1, Zenon
<1>5. \A i \in 1 .. Len(p) : i <= Len(p)
  OBVIOUS
<1>. QED BY <1>4, <1>5, Zenon

\* The ends of a channel that has samples, in order: its first and its last.
LEMMA EndsOfSeries ==
  ASSUME StoreInv, NEW c \in Known, Sorted(c)
  PROVE /\ c \in Ids /\ pushed[c] \in Seq(Sample) /\ NonDecreasing(pushed[c])
        /\ series[c] = <<>> <=> pushed[c] = <<>>
        /\ pushed[c] # <<>> => /\ Times1(c, 1) = pushed[c][1][1]
                               /\ TimesN(c, Len(series[c])) = pushed[c][Len(pushed[c])][1]
<1>1. c \in Ids
  BY KindsAre DEF Known, StoreInv
<1>2. pushed[c] \in Seq(Sample) /\ NonDecreasing(pushed[c])
  BY <1>1, Zenon DEF StoreInv, Sorted
<1>3. CASE Kinds[c] = "state"
  <2>1. Follows(series[c], pushed[c])
    BY <1>1, <1>3, Zenon DEF StoreInv
  <2>. QED BY <1>1, <1>2, <1>3, <2>1, Zenon DEF Follows, Times1, TimesN
<1>4. CASE Kinds[c] # "state"
  <2>1. series[c] = pushed[c]
    BY <1>1, <1>4, Zenon DEF StoreInv
  <2>. QED BY <1>1, <1>2, <1>4, <2>1, Zenon DEF Times1, TimesN
<1>. QED BY <1>3, <1>4, Zenon

\* The times of all samples.
AllTimes == UNION {{x[1] : x \in Range(pushed[c])} : c \in Known}

\* Samples are at the times of samples.
LEMMA AllTimesAre ==
  ASSUME StoreInv, NEW t
  PROVE t \in AllTimes <=> \E c \in Known : \E k \in 1 .. Len(pushed[c]) : t = pushed[c][k][1]
<1>1. ASSUME NEW c \in Known PROVE DOMAIN pushed[c] = 1 .. Len(pushed[c])
  <2>1. c \in Ids
    BY KindsAre DEF Known, StoreInv
  <2>2. pushed[c] \in Seq(Sample)
    BY <2>1, Zenon DEF StoreInv
  <2>. QED BY <2>2, LenProperties, Zenon
<1>. DEFINE Ts(c) == {x[1] : x \in Range(pushed[c])}
<1>2. ASSUME NEW c \in Known PROVE t \in Ts(c) <=> \E k \in 1 .. Len(pushed[c]) : t = pushed[c][k][1]
  <2>1. t \in Ts(c) <=> \E k \in DOMAIN pushed[c] : t = pushed[c][k][1]
    BY Zenon DEF Range
  <2>. QED BY <1>1, <2>1, Zenon
<1>3. AllTimes = UNION {Ts(c) : c \in Known}
  BY Zenon DEF AllTimes
<1>. HIDE DEF Ts
<1>4. t \in AllTimes <=> \E c \in Known : t \in Ts(c)
  BY <1>3, Zenon
<1>. QED BY <1>2, <1>4, Zenon

\* What time_bounds answers: the first and the last time of all samples.
TimesSpan(lo, hi) ==
  /\ TimeBounds = <<lo, hi>>
  /\ lo \in AllTimes /\ hi \in AllTimes /\ AllTimes \subseteq Times
  /\ \A t \in AllTimes : lo <= t /\ t <= hi

\* time_bounds looks at the ends of every series and finds those of all samples.
LEMMA TimeBoundsSpan ==
  ASSUME StoreInv, \A c \in Known : Sorted(c), Live # {}
  PROVE \E lo, hi : TimesSpan(lo, hi)
<1>. DEFINE A == {Times1(c, 1) : c \in Live}
            B == {TimesN(c, Len(series[c])) : c \in Live}
            First(c) == pushed[c][1][1]
            Final(c) == pushed[c][Len(pushed[c])][1]
<1>1. ASSUME NEW c \in Known
      PROVE /\ pushed[c] \in Seq(Sample) /\ NonDecreasing(pushed[c])
            /\ series[c] = <<>> <=> pushed[c] = <<>>
            /\ pushed[c] # <<>> => Times1(c, 1) = First(c) /\ TimesN(c, Len(series[c])) = Final(c)
  BY EndsOfSeries, Zenon
<1>2. ASSUME NEW c \in Live
      PROVE /\ c \in Known /\ pushed[c] \in Seq(Sample)
            /\ 1 \in 1 .. Len(pushed[c]) /\ Len(pushed[c]) \in 1 .. Len(pushed[c])
            /\ Times1(c, 1) = First(c) /\ TimesN(c, Len(series[c])) = Final(c)
            /\ First(c) \in Times /\ Final(c) \in Times /\ First(c) \in AllTimes /\ Final(c) \in AllTimes
  <2>1. c \in Known /\ series[c] # <<>>
    BY Zenon DEF Live
  <2>2. pushed[c] \in Seq(Sample) /\ pushed[c] # <<>>
    BY <1>1, <2>1, Zenon
  <2>3. 1 \in 1 .. Len(pushed[c]) /\ Len(pushed[c]) \in 1 .. Len(pushed[c])
    BY <2>2
  <2>4. Times1(c, 1) = First(c) /\ TimesN(c, Len(series[c])) = Final(c)
    BY <1>1, <2>1, <2>2, Zenon
  <2>5. First(c) \in Times /\ Final(c) \in Times
    BY <2>2, <2>3, SamplesAre, Zenon
  <2>6. First(c) \in AllTimes /\ Final(c) \in AllTimes
    <3>. DEFINE Sampled(t) == \E d \in Known : \E k \in 1 .. Len(pushed[d]) : t = pushed[d][k][1]
    <3>1. Sampled(First(c)) /\ Sampled(Final(c))
      BY <2>1, <2>3, Zenon
    <3>2. \A t : Sampled(t) => t \in AllTimes
      BY AllTimesAre, Zenon
    <3>. HIDE DEF Sampled
    <3>. QED BY <3>1, <3>2, Zenon
  <2>. QED BY <2>1, <2>2, <2>3, <2>4, <2>5, <2>6, Zenon
<1>3. ASSUME NEW t \in AllTimes
      PROVE t \in Times /\ \E c \in Live : First(c) <= t /\ t <= Final(c)
  <2>1. PICK c \in Known : \E k \in 1 .. Len(pushed[c]) : t = pushed[c][k][1]
    BY AllTimesAre, ZenonT(30)
  <2>2. PICK k \in 1 .. Len(pushed[c]) : t = pushed[c][k][1]
    BY <2>1, Zenon
  <2>3. pushed[c] \in Seq(Sample) /\ NonDecreasing(pushed[c])
    BY <1>1, Zenon
  <2>4. t \in Times
    BY <2>2, <2>3, SamplesAre, Zenon
  <2>5. /\ 1 \in 1 .. Len(pushed[c]) /\ k \in 1 .. Len(pushed[c]) /\ Len(pushed[c]) \in k .. Len(pushed[c])
        /\ pushed[c] # <<>>
    BY <2>3
  <2>6. First(c) <= t /\ t <= Final(c)
    BY <2>2, <2>3, <2>5, SortedAll, Zenon
  <2>7. c \in Live
    BY <1>1, <2>5, Zenon DEF Live
  <2>. QED BY <2>4, <2>6, <2>7, Zenon
<1>. HIDE DEF First, Final
<1>4. PICK n \in 0 .. Forever - 2 : Times = 0 .. n
  BY TimesAssumption, Zenon
<1>5. n \in Nat /\ \A t \in Times : t \in Nat
  BY <1>4 DEF Forever
<1>6. A \in SUBSET Nat /\ A # {} /\ B \in SUBSET Nat /\ B \in SUBSET (0 .. n) /\ B # {}
  BY <1>2, <1>4, <1>5, Zenon
<1>7. PICK lo \in A : \A y \in A : lo <= y
  <2>. HIDE DEF A
  <2>. QED BY <1>6, MinOfNats, Zenon
<1>8. PICK hi \in B : \A y \in B : y <= hi
  <2>. HIDE DEF B
  <2>. QED BY <1>5, <1>6, MaxOfNats, Zenon
<1>9. TimeBounds = <<lo, hi>>
  <2>1. Min(A) = lo
    <3>. HIDE DEF A
    <3>. QED BY <1>6, <1>7, MinIs, Zenon
  <2>2. Max(B) = hi
    <3>. HIDE DEF B
    <3>. QED BY <1>6, <1>8, MaxIs, Zenon
  <2>3. TimeBounds = <<Min(A), Max(B)>>
    BY Zenon DEF TimeBounds
  <2>. QED BY <2>1, <2>2, <2>3, Zenon
<1>10. lo \in AllTimes /\ hi \in AllTimes
  BY <1>2, <1>7, <1>8, Zenon
<1>11. lo \in Nat /\ hi \in Nat /\ AllTimes \subseteq Times
  BY <1>3, <1>6, Zenon
<1>12. ASSUME NEW t \in AllTimes PROVE lo <= t /\ t <= hi
  <2>1. PICK c \in Live : First(c) <= t /\ t <= Final(c)
    BY <1>3, Zenon
  <2>2. First(c) \in A /\ Final(c) \in B
    BY <1>2, Zenon
  <2>3. lo <= First(c) /\ Final(c) <= hi
    BY <1>7, <1>8, <2>2, Zenon
  <2>4. t \in Nat /\ First(c) \in Nat /\ Final(c) \in Nat
    BY <1>2, <1>3, <1>5, Zenon
  <2>. QED BY <1>11, <2>1, <2>3, <2>4
<1>. QED BY <1>9, <1>10, <1>11, <1>12, Zenon DEF TimesSpan

\* The values pushed to a channel, and those it shows at the times of samples.
Values(c)    == {x[2] : x \in Range(pushed[c])}
Sighted(c)   == IF Kinds[c] = "state" THEN {StateAt(c, t) : t \in AllTimes} \ {Missing} ELSE Values(c)
Encloses(b, c) == Range(b) \subseteq Values(c) /\ \A v \in Sighted(c) : b[1] <= v /\ v <= b[2]

\* A pair encloses the values if its ends are values and the least and the greatest.
LEMMA PairEncloses ==
  ASSUME NEW c, NEW u \in Values(c), NEW v \in Values(c), \A x \in Sighted(c) : u <= x /\ x <= v
  PROVE Encloses(<<u, v>>, c)
<1>1. Range(<<u, v>>) \subseteq Values(c)
  <2>1. DOMAIN <<u, v>> = {1, 2}
    OBVIOUS
  <2>2. \A i \in {1, 2} : <<u, v>>[i] \in Values(c)
    OBVIOUS
  <2>. QED BY <2>1, <2>2, Zenon DEF Range
<1>2. <<u, v>>[1] = u /\ <<u, v>>[2] = v
  BY Zenon
<1>. QED BY <1>1, <1>2, Zenon DEF Encloses

\* The values of a channel are those of its samples.
LEMMA ValuesAre ==
  ASSUME NEW c, pushed[c] \in Seq(Sample), NEW v
  PROVE v \in Values(c) <=> \E k \in 1 .. Len(pushed[c]) : v = pushed[c][k][2]
<1>1. DOMAIN pushed[c] = 1 .. Len(pushed[c])
  BY LenProperties, Zenon
<1>2. v \in Values(c) <=> \E k \in DOMAIN pushed[c] : v = pushed[c][k][2]
  BY Zenon DEF Values, Range
<1>. QED BY <1>1, <1>2, Zenon

\* value_bounds of a scalar channel: one bucket over all time.
LEMMA ScalarBounds ==
  ASSUME StoreInv, NEW c \in Of("scalar"), c \in Live, Sorted(c), NEW lo, NEW hi, TimesSpan(lo, hi)
  PROVE Encloses(ValueBounds(c), c)
<1>. DEFINE p == pushed[c]
            q == QueryScalar(c, lo, hi + 1, 1)
<1>1. /\ TimeBounds = <<lo, hi>> /\ lo \in Times /\ hi \in Times /\ lo <= hi
      /\ \A t \in AllTimes : lo <= t /\ t <= hi /\ t \in Times
  BY Zenon DEF TimesSpan
<1>2. lo \in Nat /\ hi \in Nat
  BY <1>1, TimesAre, Zenon
<1>3. hi + 1 \in Nat /\ lo < hi + 1 /\ 1 \in Nat /\ 1 > 0
  BY <1>1, <1>2
<1>4. c \in Known /\ Kinds[c] # "state"
  BY Zenon DEF Of
<1>5. p \in Seq(Sample) /\ series[c] = p /\ NonDecreasing(p)
  BY <1>4, SeriesIsPushed, Zenon DEF Sorted
<1>6. PICK a, b, in : Slice(p, lo, hi + 1, a, b, in) /\ Renders(q, in, 1)
  BY <1>2, <1>3, QueryScalarRenders, Zenon
<1>7. Selects(in, p, lo, hi + 1)
  BY <1>2, <1>3, <1>5, <1>6, SliceIs, Zenon
<1>8. p # <<>>
  BY <1>5, Zenon DEF Live
<1>9. DOMAIN p = 1 .. Len(p) /\ 1 \in 1 .. Len(p)
  BY <1>5, <1>8
<1>. HIDE DEF p, q
<1>10. ASSUME NEW k \in 1 .. Len(p) PROVE \E j \in 1 .. Len(in) : in[j] = p[k]
  <2>1. p[k][1] \in AllTimes
    BY <1>4, AllTimesAre, Zenon DEF p
  <2>2. p[k][1] \in Nat /\ lo <= p[k][1] /\ p[k][1] <= hi
    BY <1>1, <2>1, TimesAre, Zenon
  <2>3. p[k][1] < hi + 1
    BY <1>2, <2>2
  <2>4. p[k] \in Range(p)
    BY <1>9, Zenon DEF Range
  <2>. QED BY <1>7, <2>2, <2>3, <2>4, Zenon DEF Selects
<1>11. /\ DOMAIN q = 1 .. Len(q) /\ Len(q) \in 0 .. 1
       /\ \A j \in 1 .. Len(in) : \E i \in 1 .. Len(q) : q[i].min <= in[j][2] /\ in[j][2] <= q[i].max
       /\ \A i \in 1 .. Len(q) : Stands(q, i, in, q[i].min) /\ Stands(q, i, in, q[i].max)
  BY <1>6, Zenon DEF Renders
<1>12. PICK i \in 1 .. Len(q) : TRUE
  BY <1>9, <1>10, <1>11, Zenon
<1>13. Len(q) = 1 /\ 1 \in 1 .. Len(q) /\ \A j \in 1 .. Len(q) : j = 1
  BY <1>11, <1>12
<1>14. q # <<>>
  <2>1. Len(<<>>) = 0
    BY Zenon
  <2>. QED BY <1>13, <2>1
<1>15. ASSUME NEW v, Stands(q, 1, in, v) PROVE v \in Values(c)
  <2>1. PICK j \in 1 .. Len(in) : in[j][2] = v
    BY <1>15, Zenon DEF Stands
  <2>2. in[j] \in Range(p)
    BY <1>7, Zenon DEF Selects
  <2>. QED BY <2>1, <2>2, Zenon DEF Values, p
<1>16. q[1].min \in Values(c) /\ q[1].max \in Values(c)
  BY <1>11, <1>13, <1>15, Zenon
<1>17. ASSUME NEW x \in Sighted(c) PROVE q[1].min <= x /\ x <= q[1].max
  <2>1. x \in Values(c)
    BY <1>4, Zenon DEF Sighted
  <2>2. PICK k \in 1 .. Len(p) : x = p[k][2]
    BY <1>5, <2>1, ValuesAre, ZenonT(30) DEF p
  <2>3. PICK j \in 1 .. Len(in) : in[j] = p[k]
    BY <1>10, Zenon
  <2>4. PICK d \in 1 .. Len(q) : q[d].min <= in[j][2] /\ in[j][2] <= q[d].max
    BY <1>11, Zenon
  <2>. QED BY <1>13, <2>2, <2>3, <2>4, Zenon
<1>18. ValueBounds(c) = <<q[1].min, q[1].max>>
  <2>1. TimeBounds[1] = lo /\ TimeBounds[2] + 1 = hi + 1
    BY <1>1, Zenon
  <2>2. Live # {}
    BY Zenon
  <2>. QED BY <1>14, <2>1, <2>2, Zenon DEF ValueBounds, q
<1>. QED BY <1>16, <1>17, <1>18, PairEncloses, Zenon

\* value_bounds of a state channel: the runs over all time.
LEMMA StateBounds ==
  ASSUME StoreInv, NEW c \in Of("state"), c \in Live, Sorted(c), NEW lo, NEW hi, TimesSpan(lo, hi)
  PROVE Encloses(ValueBounds(c), c)
<1>. DEFINE p  == pushed[c]
            q  == QueryState(c, lo, hi + 1)
            vs == {r.v : r \in Range(q)}
<1>1. /\ TimeBounds = <<lo, hi>> /\ lo \in Times /\ hi \in Times /\ lo <= hi
      /\ \A t \in AllTimes : lo <= t /\ t <= hi /\ t \in Times
  BY Zenon DEF TimesSpan
<1>2. lo \in Nat /\ hi \in Nat
  BY <1>1, TimesAre, Zenon
<1>3. hi + 1 \in Nat
  BY <1>2
<1>4. c \in Known /\ Kinds[c] = "state" /\ c \notin Of("scalar")
  BY Zenon DEF Of
<1>5. /\ series[c] \in Seq(Run) /\ p \in Seq(Sample) /\ Follows(series[c], p)
      /\ series[c] # <<>>
  BY StateChannel, Zenon DEF Live
<1>6. PICK skip, last : Answer(series[c], lo, hi + 1, skip, last, q)
  BY <1>2, <1>3, <1>5, QueryStateIs, Zenon
<1>7. vs \in SUBSET Values(c)
  <2>. SUFFICES ASSUME NEW r \in Range(q) PROVE r.v \in Values(c)
    BY Zenon
  <2>1. PICK l \in skip + 1 .. last : r = Reported(series[c], l)
    BY <1>6, Zenon DEF Answer
  <2>2. skip \in 0 .. Len(series[c]) - 1 /\ last \in 0 .. Len(series[c])
    BY <1>6, Zenon DEF Answer
  <2>3. l \in 1 .. Len(series[c])
    BY <1>5, <2>2
  <2>4. r.v = series[c][l].v
    BY <1>5, <2>1, <2>3, ReportedRun, Zenon
  <2>5. \E k \in 1 .. Len(p) : series[c][l].v = p[k][2]
    BY <1>5, <2>3, Zenon DEF Follows
  <2>. QED BY <1>5, <2>4, <2>5, ValuesAre, Zenon
<1>8. ASSUME NEW t \in AllTimes
      PROVE /\ StateAt(c, t) = LastAt(c, t)
            /\ LastAt(c, t) # Missing => LastAt(c, t) \in vs
  <2>1. t \in Nat /\ t < Forever /\ lo <= t /\ t < hi + 1
    <3>1. t \in Nat /\ t + 1 < Forever /\ lo <= t /\ t <= hi
      BY <1>1, TimesAre, Zenon
    <3>. QED BY <1>2, <3>1 DEF Forever
  <2>2. StateAt(c, t) = LastAt(c, t)
    BY <2>1, StateAtIs, Zenon
  <2>3. AgreesAt(c, lo, hi + 1, t)
    BY <1>2, <1>3, <2>1, AnswerAgrees, Zenon
  <2>4. ValuesAt(q, t) = {LastAt(c, t)} \ {Missing}
    BY <2>3, Zenon DEF AgreesAt
  <2>5. ASSUME LastAt(c, t) # Missing PROVE LastAt(c, t) \in vs
    <3>1. LastAt(c, t) \in ValuesAt(q, t)
      BY <2>4, <2>5, Zenon
    <3>. QED BY <3>1, Zenon DEF ValuesAt
  <2>. QED BY <2>2, <2>5, Zenon
<1>9. p # <<>>
  BY <1>5, Zenon DEF Follows
<1>10. Len(p) \in 1 .. Len(p) /\ Len(p) \in Nat
  BY <1>5, <1>9
<1>11. vs # {}
  <2>. DEFINE t == p[Len(p)][1]
  <2>1. t \in AllTimes
    BY <1>4, <1>10, AllTimesAre, Zenon
  <2>2. t \in Nat /\ t <= t
    <3>1. t \in Nat
      BY <1>5, <1>10, SamplesAre, Zenon
    <3>. HIDE DEF t
    <3>. QED BY <3>1
  <2>3. PICK k : UpTo(p, t, k) /\ LastAt(c, t) = IF k = 0 THEN Missing ELSE p[k][2]
    BY <1>5, <2>2, LastAtIs, Zenon
  <2>4. k \in 0 .. Len(p) /\ Len(p) <= k
    BY <1>10, <2>2, <2>3, Zenon DEF UpTo
  <2>5. k = Len(p) /\ k # 0
    BY <1>10, <2>4
  <2>6. LastAt(c, t) = p[k][2] /\ p[k][2] \in Nat
    BY <1>5, <1>10, <2>3, <2>5, SamplesAre, Zenon
  <2>7. LastAt(c, t) # Missing
    BY <2>6 DEF Missing
  <2>. HIDE DEF vs, t
  <2>. QED BY <1>8, <2>1, <2>7, Zenon
<1>12. PICK n \in Nat : \A i \in 1 .. Len(p) : p[i][2] \in 0 .. n
  BY <1>5, ValuesBounded, Zenon
<1>13. vs \in SUBSET (0 .. n)
  <2>1. ASSUME NEW v \in Values(c) PROVE v \in 0 .. n
    <3>1. p \in Seq(Sample) /\ v \in Values(c)
      BY <1>5, Zenon
    <3>2. \E k \in 1 .. Len(p) : v = p[k][2]
      BY <3>1, ValuesAre
    <3>. QED BY <1>12, <3>2, Zenon
  <2>. HIDE DEF vs
  <2>. QED BY <1>7, <2>1, Zenon
<1>14. ValueBounds(c) = <<Min(vs), Max(vs)>>
  <2>1. TimeBounds[1] = lo /\ TimeBounds[2] + 1 = hi + 1
    BY <1>1, Zenon
  <2>2. QueryScalar(c, lo, hi + 1, 1) = <<>>
    BY <1>4, Zenon DEF QueryScalar, Queryable
  <2>3. Live # {}
    BY Zenon
  <2>. QED BY <1>11, <2>1, <2>2, <2>3, Zenon DEF ValueBounds
<1>. HIDE DEF vs
<1>15. vs \in SUBSET Nat
  BY <1>13
<1>16. PICK u \in vs : \A y \in vs : u <= y
  BY <1>11, <1>15, MinOfNats, Zenon
<1>17. PICK w \in vs : \A y \in vs : y <= w
  BY <1>11, <1>13, MaxOfNats, Zenon
<1>18. ValueBounds(c) = <<u, w>>
  BY <1>14, <1>15, <1>16, <1>17, MinIs, MaxIs, Zenon
<1>19. u \in Values(c) /\ w \in Values(c)
  BY <1>7, <1>16, <1>17, Zenon
<1>20. ASSUME NEW x \in Sighted(c) PROVE u <= x /\ x <= w
  <2>1. PICK t \in AllTimes : x = StateAt(c, t) /\ x # Missing
    BY <1>4, Zenon DEF Sighted
  <2>2. x \in vs
    BY <1>8, <2>1, Zenon
  <2>. QED BY <1>16, <1>17, <2>2, Zenon
<1>. QED BY <1>18, <1>19, <1>20, PairEncloses, Zenon

\* time_bounds spans the samples of all channels though it looks only at the ends of
\* each series, and value_bounds encloses the values of a channel though it asks for
\* one bucket, or for the runs of a state.
THEOREM StoreBoundsExact == Spec => []BoundsExact
<1>1. StoreInv => BoundsExact
  <2>1. ASSUME StoreInv, \A c \in Known : Sorted(c), Live # {}
        PROVE /\ TimeBounds = <<Min(AllTimes), Max(AllTimes)>>
              /\ \A c \in Live \ Of("text") : Encloses(ValueBounds(c), c)
    <3>1. PICK lo, hi : TimesSpan(lo, hi)
      BY <2>1, TimeBoundsSpan, Zenon
    <3>2. /\ TimeBounds = <<lo, hi>> /\ lo \in AllTimes /\ hi \in AllTimes
          /\ AllTimes \subseteq Times /\ \A t \in AllTimes : lo <= t /\ t <= hi
      BY <3>1, Zenon DEF TimesSpan
    <3>3. AllTimes \in SUBSET Nat
      BY <3>2, TimesAre, Zenon
    <3>4. Min(AllTimes) = lo
      BY <3>2, <3>3, MinIs, Zenon
    <3>5. Max(AllTimes) = hi
      BY <3>2, <3>3, MaxIs, Zenon
    <3>6. ASSUME NEW c \in Live \ Of("text") PROVE Encloses(ValueBounds(c), c)
      <4>1. c \in Known /\ c \in Live /\ c \notin Of("text") /\ Sorted(c)
        BY <2>1, Zenon DEF Live
      <4>2. c \in Ids
        BY <2>1, <4>1, KindsAre DEF Known, StoreInv
      <4>3. Kinds[c] \in {"scalar", "state", "text"}
        BY <4>2, KindsAssumption DEF Ids
      <4>4. c \in Of("scalar") \/ c \in Of("state")
        BY <4>1, <4>3, Zenon DEF Of
      <4>. QED BY <2>1, <3>1, <4>1, <4>4, ScalarBounds, StateBounds, Zenon
    <3>. QED BY <3>2, <3>4, <3>5, <3>6, Zenon
  <2>. QED BY <2>1, Zenon DEF BoundsExact, AllTimes, Encloses, Sighted, Values
<1>. QED BY <1>1, StoreInvariant, PTL
=============================================================================
