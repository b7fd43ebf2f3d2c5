---------------------------- MODULE FileReadProofs ----------------------------
(***************************************************************************)
(* The readers of the .btlm file find what its writer wrote, in a closed   *)
(* file and in what a crash left of one, for any packets and queries.      *)
(***************************************************************************)
EXTENDS FileProofs

-----------------------------------------------------------------------------
(* Scanning *)

\* A walk from n - m up to n that takes every pos it comes to, but those of C.
Walk(n, C, nx, g) ==
  g = [pos \in 0 .. n |-> IF pos \in C THEN <<>> ELSE <<pos>> \o g[nx[pos]]]

\* The part of it from n - m on.
WalkFrom(n, m, C, nx, g) ==
  \A pos \in n - m .. n : g[pos] = IF pos \in C THEN <<>> ELSE <<pos>> \o g[nx[pos]]

\* There is such a walk if each step goes on to a later position, up to n.
LEMMA WalkRuns ==
  ASSUME NEW n \in Nat, NEW C, NEW nx, \A pos \in 0 .. n : pos \notin C => nx[pos] \in pos + 1 .. n
  PROVE \E g : Walk(n, C, nx, g)
<1>. DEFINE H == {m \in Nat : m <= n => \E g : WalkFrom(n, m, C, nx, g) /\ DOMAIN g = n - m .. n}
<1>1. 0 \in H
  <2>. DEFINE g == [pos \in n .. n |-> <<>>]
  <2>1. n - 0 = n /\ \A pos \in n .. n : pos \in 0 .. n /\ \A k : k \notin pos + 1 .. n
    OBVIOUS
  <2>2. \A pos \in n .. n : pos \in C
    BY <2>1, Zenon
  <2>3. WalkFrom(n, 0, C, nx, g) /\ DOMAIN g = n - 0 .. n
    BY <2>1, <2>2, Zenon DEF WalkFrom
  <2>. QED BY <2>3, Zenon
<1>2. ASSUME NEW m \in Nat, m \in H PROVE m + 1 \in H
  <2>1. m + 1 \in Nat
    OBVIOUS
  <2>. SUFFICES ASSUME m + 1 <= n
                PROVE \E g : WalkFrom(n, m + 1, C, nx, g) /\ DOMAIN g = n - (m + 1) .. n
    BY <2>1, Zenon
  <2>2. m <= n
    OBVIOUS
  <2>3. PICK h : WalkFrom(n, m, C, nx, h) /\ DOMAIN h = n - m .. n
    BY <1>2, <2>2, Zenon
  <2>. DEFINE q == n - (m + 1)
              v == IF q \in C THEN <<>> ELSE <<q>> \o h[nx[q]]
              g == [pos \in q .. n |-> IF pos = q THEN v ELSE h[pos]]
  <2>4. q \in 0 .. n /\ q \in q .. n /\ q + 1 = n - m /\ q \in Nat
    OBVIOUS
  <2>. HIDE DEF q
  <2>5. ASSUME NEW pos \in q .. n PROVE pos = q \/ pos \in n - m .. n
    BY <2>4
  <2>6. ASSUME NEW pos \in q .. n, pos \notin C PROVE nx[pos] \in q .. n /\ nx[pos] # q
    <3>1. pos \in 0 .. n
      BY <2>4
    <3>2. nx[pos] \in pos + 1 .. n
      BY <2>6, <3>1, Zenon
    <3>. QED BY <2>4, <3>2
  <2>7. ASSUME NEW pos \in q .. n PROVE g[pos] = IF pos \in C THEN <<>> ELSE <<pos>> \o g[nx[pos]]
    <3>1. g[pos] = IF pos = q THEN v ELSE h[pos]
      BY Zenon
    <3>2. pos \notin C => g[nx[pos]] = h[nx[pos]]
      BY <2>6, Zenon
    <3>3. pos # q => h[pos] = IF pos \in C THEN <<>> ELSE <<pos>> \o h[nx[pos]]
      BY <2>3, <2>5, Zenon DEF WalkFrom
    <3>. HIDE DEF g
    <3>4. CASE pos = q
      BY <3>1, <3>2, <3>4, Zenon
    <3>5. CASE pos # q
      BY <3>1, <3>2, <3>3, <3>5, Zenon
    <3>. QED BY <3>4, <3>5, Zenon
  <2>8. DOMAIN g = q .. n
    BY Zenon
  <2>. HIDE DEF g
  <2>9. WalkFrom(n, m + 1, C, nx, g) /\ DOMAIN g = n - (m + 1) .. n
    BY <2>7, <2>8, Zenon DEF WalkFrom, q
  <2>. QED BY <2>9, Zenon
<1>3. \A m \in Nat : m \in H
  <2>. HIDE DEF H
  <2>. QED BY <1>1, <1>2, SetInduction, Zenon
<1>4. n <= n /\ n - n = 0
  OBVIOUS
<1>5. PICK g : WalkFrom(n, n, C, nx, g) /\ DOMAIN g = n - n .. n
  BY <1>3, <1>4, Zenon
<1>. DEFINE k == [pos \in 0 .. n |-> g[pos]]
<1>6. \A pos \in 0 .. n : g[pos] = IF pos \in C THEN <<>> ELSE <<pos>> \o g[nx[pos]]
  BY <1>4, <1>5, Zenon DEF WalkFrom
<1>7. \A pos \in 0 .. n : pos \notin C => nx[pos] \in 0 .. n
  <2>. TAKE pos \in 0 .. n
  <2>. HAVE pos \notin C
  <2>1. nx[pos] \in pos + 1 .. n
    BY Zenon
  <2>. QED BY <2>1
<1>8. \A pos \in 0 .. n : k[pos] = IF pos \in C THEN <<>> ELSE <<pos>> \o k[nx[pos]]
  BY <1>6, <1>7, Zenon
<1>9. k = [pos \in 0 .. n |-> k[pos]]
  BY Zenon
<1>. HIDE DEF k
<1>10. k = [pos \in 0 .. n |-> IF pos \in C THEN <<>> ELSE <<pos>> \o k[nx[pos]]]
  BY <1>8, <1>9, Zenon
<1>. QED BY <1>10, Zenon DEF Walk

\* Where the scan of f up to end stops.
Stops(f, end) == {pos \in 0 .. Len(f) : pos >= end \/ ~Whole(f, pos)}

\* The offsets found from each position on.
Scanned(f, end, g) ==
  \A pos \in 0 .. Len(f) :
    g[pos] = IF pos \in Stops(f, end) THEN <<>> ELSE <<pos>> \o g[pos + Size(f, pos)]

\* Scan goes through them: it always moves on, and never past the end of f.
LEMMA ScanRuns ==
  ASSUME NEW f \in Seq(Nat), NEW end
  PROVE \E g : Scanned(f, end, g) /\ Scan(f, end) = g[DataStart]
<1>. DEFINE n == Len(f)
            C == Stops(f, end)
            nx == [pos \in 0 .. n |-> pos + Size(f, pos)]
            Steps(g) == g = [pos \in 0 .. n |-> IF pos >= end \/ ~Whole(f, pos) THEN <<>>
                                                ELSE <<pos>> \o g[pos + Size(f, pos)]]
<1>1. n \in Nat
  OBVIOUS
<1>2. ASSUME NEW pos \in 0 .. n, pos \notin C PROVE nx[pos] \in pos + 1 .. n
  <2>1. Whole(f, pos)
    BY <1>2, Zenon DEF Stops
  <2>2. pos + 4 <= n /\ pos + Size(f, pos) <= n
    BY <2>1, Zenon DEF Whole, HeaderWords
  <2>3. Size(f, pos) = 4 + 4 * (f[pos + 1] % U16) + f[pos + 2]
    BY Zenon DEF Size, HeaderWords, EntryWords
  <2>4. pos + 1 \in 1 .. n /\ pos + 2 \in 1 .. n
    BY <1>1, <2>2
  <2>5. f[pos + 1] \in Nat /\ f[pos + 2] \in Nat
    BY <2>4
  <2>. DEFINE a == f[pos + 1]
              b == f[pos + 2]
  <2>6. a % U16 \in Nat
    <3>1. U16 \in Nat /\ U16 > 0
      BY U16Is
    <3>2. a \in Nat
      BY <2>5, Zenon
    <3>. HIDE DEF a
    <3>. QED BY <3>1, <3>2
  <2>7. Size(f, pos) \in Nat /\ Size(f, pos) >= 4
    <3>. DEFINE c == a % U16
    <3>1. c \in Nat /\ b \in Nat /\ Size(f, pos) = 4 + 4 * c + b
      BY <2>3, <2>5, <2>6, Zenon
    <3>. HIDE DEF c, b
    <3>. QED BY <3>1
  <2>8. nx[pos] = pos + Size(f, pos)
    BY Zenon
  <2>. QED BY <1>1, <2>2, <2>7, <2>8, SMTT(30)
<1>3. PICK h : Walk(n, C, nx, h)
  <2>. HIDE DEF nx
  <2>. QED BY <1>1, <1>2, WalkRuns, Zenon
<1>4. Steps(h)
  <2>1. h = [pos \in 0 .. n |-> IF pos \in C THEN <<>> ELSE <<pos>> \o h[nx[pos]]]
    BY <1>3, Zenon DEF Walk
  <2>2. ASSUME NEW pos \in 0 .. n
        PROVE h[pos] = IF pos >= end \/ ~Whole(f, pos) THEN <<>> ELSE <<pos>> \o h[pos + Size(f, pos)]
    <3>1. nx[pos] = pos + Size(f, pos)
      BY Zenon
    <3>2. pos \in C <=> pos >= end \/ ~Whole(f, pos)
      BY Zenon DEF Stops
    <3>3. h[pos] = IF pos \in C THEN <<>> ELSE <<pos>> \o h[nx[pos]]
      BY <2>1, Zenon
    <3>. QED BY <3>1, <3>2, <3>3, Zenon
  <2>3. h = [pos \in 0 .. n |-> h[pos]]
    BY <2>1, Zenon
  <2>. QED BY <2>2, <2>3, Zenon
<1>. DEFINE g == CHOOSE g : Steps(g)
<1>5. Scan(f, end) = g[DataStart]
  BY Zenon DEF Scan
<1>6. Steps(g)
  <2>. HIDE DEF Steps
  <2>. QED BY <1>4, Zenon
<1>. HIDE DEF g
<1>7. Scanned(f, end, g)
  <2>1. ASSUME NEW pos \in 0 .. n
        PROVE g[pos] = IF pos >= end \/ ~Whole(f, pos) THEN <<>> ELSE <<pos>> \o g[pos + Size(f, pos)]
    BY <1>6, Zenon
  <2>2. ASSUME NEW pos \in 0 .. n PROVE pos \in C <=> pos >= end \/ ~Whole(f, pos)
    BY Zenon DEF Stops
  <2>. QED BY <2>1, <2>2, Zenon DEF Scanned
<1>. QED BY <1>5, <1>7, Zenon

\* The first m of the packets ps stand in f before end, and there is no further one.
Standing(f, end, ps, m) ==
  /\ m \in 0 .. Len(ps)
  /\ \A k \in 1 .. m : At(f, PacketStart(ps, k), PacketWords(ps[k])) /\ ~(PacketStart(ps, k) >= end)
  /\ PacketStart(ps, m + 1) \in 0 .. Len(f)
  /\ PacketStart(ps, m + 1) >= end \/ ~Whole(f, PacketStart(ps, m + 1))

\* Where they start.
StartsOf(ps, m) == [k \in 1 .. m |-> PacketStart(ps, k)]

\* The first packet starts after the preamble.
LEMMA FirstStart ==
  ASSUME NEW ps \in Seq(Packet)
  PROVE PacketStart(ps, 1) = DataStart
<1>1. 1 - 1 = 0 /\ 1 \in 1 .. Len(ps) + 1 /\ DataStart + 0 = DataStart
  BY PreambleIs
<1>2. Before(Words(ps), 1) = 0
  BY <1>1, TotalNone, Zenon DEF Before
<1>. QED BY <1>1, <1>2, StartIs, Zenon

\* Scan finds those m packets.
LEMMA ScanFinds ==
  ASSUME NEW ps \in Seq(Packet), NEW f \in Seq(Nat), NEW end, NEW m, Standing(f, end, ps, m)
  PROVE Scan(f, end) = StartsOf(ps, m)
<1>. DEFINE S(k) == PacketStart(ps, k)
            N == Len(ps)
<1>1. m \in Nat /\ m <= N /\ N \in Nat
  BY DEF Standing
<1>2. PICK g : Scanned(f, end, g) /\ Scan(f, end) = g[DataStart]
  BY ScanRuns, Zenon
<1>3. S(m + 1) \in 0 .. Len(f) /\ S(m + 1) \in Stops(f, end)
  BY Zenon DEF Standing, Stops
<1>4. g[S(m + 1)] = <<>>
  BY <1>2, <1>3, Zenon DEF Scanned
<1>5. ASSUME NEW k \in 1 .. m PROVE S(k) \in Nat /\ g[S(k)] = <<S(k)>> \o g[S(k + 1)]
  <2>. DEFINE w == PacketWords(ps[k])
  <2>1. At(f, S(k), w) /\ ~(S(k) >= end)
    BY Zenon DEF Standing
  <2>2. k \in 1 .. N
    BY <1>1
  <2>3. ps[k] \in Packet
    BY <2>2
  <2>4. Whole(f, S(k)) /\ Size(f, S(k)) = Len(w)
    BY <2>1, <2>3, PacketRead, Zenon
  <2>5. S(k) \in Nat /\ S(k + 1) = S(k) + Len(w) /\ Len(w) \in Nat
    BY <2>2, PacketStarts, Zenon DEF Starts
  <2>6. S(k) \in 0 .. Len(f)
    <3>1. S(k) + Len(w) <= Len(f)
      BY <2>1, Zenon DEF At
    <3>2. Len(f) \in Nat
      OBVIOUS
    <3>. HIDE DEF S, w
    <3>. QED BY <2>5, <3>1, <3>2
  <2>7. S(k) \notin Stops(f, end)
    BY <2>1, <2>4, Zenon DEF Stops
  <2>8. g[S(k)] = <<S(k)>> \o g[S(k) + Size(f, S(k))]
    BY <1>2, <2>6, <2>7, Zenon DEF Scanned
  <2>. QED BY <2>4, <2>5, <2>8, Zenon
<1>. DEFINE from(d) == [j \in 1 .. d |-> S(m - d + j)]
            H == {d \in Nat : d <= m => g[S(m + 1 - d)] = from(d)}
<1>. HIDE DEF S
<1>6. 0 \in H
  <2>1. m + 1 - 0 = m + 1 /\ from(0) = <<>>
    BY <1>1
  <2>. QED BY <1>4, <2>1, Zenon
<1>7. ASSUME NEW d \in Nat, d \in H PROVE d + 1 \in H
  <2>1. d + 1 \in Nat
    OBVIOUS
  <2>. SUFFICES ASSUME d + 1 <= m PROVE g[S(m + 1 - (d + 1))] = from(d + 1)
    BY <2>1, Zenon
  <2>. DEFINE k == m - d
  <2>2. d <= m /\ k \in 1 .. m /\ m + 1 - d = k + 1 /\ m + 1 - (d + 1) = k
    BY <1>1
  <2>3. g[S(k + 1)] = from(d)
    BY <1>7, <2>2, Zenon
  <2>4. g[S(k)] = <<S(k)>> \o from(d)
    BY <1>5, <2>2, <2>3, Zenon
  <2>5. \A i \in 1 .. m : S(i) \in Nat
    BY <1>5, Zenon
  <2>6. from(d) \in Seq(Nat) /\ Len(from(d)) = d
    <3>1. \A j \in 1 .. d : m - d + j \in 1 .. m
      BY <1>1, <2>2
    <3>2. \A j \in 1 .. d : S(m - d + j) \in Nat
      BY <2>5, <3>1, Zenon
    <3>. QED BY <3>2
  <2>7. from(d + 1) \in Seq(Nat) /\ Len(from(d + 1)) = d + 1
    <3>1. \A j \in 1 .. d + 1 : m - (d + 1) + j \in 1 .. m
      BY <1>1, <2>2
    <3>2. \A j \in 1 .. d + 1 : S(m - (d + 1) + j) \in Nat
      BY <2>5, <3>1, Zenon
    <3>. QED BY <2>1, <3>2
  <2>8. <<S(k)>> \o from(d) = from(d + 1)
    <3>. DEFINE x == <<S(k)>> \o from(d)
                y == from(d + 1)
    <3>1. S(k) \in Nat
      BY <2>2, <2>5, Zenon
    <3>2. x \in Seq(Nat) /\ Len(x) = d + 1
      <4>. DEFINE z == from(d)
                  s == S(k)
      <4>1. z \in Seq(Nat) /\ Len(z) = d /\ s \in Nat
        BY <2>6, <3>1, Zenon
      <4>. HIDE DEF z, s
      <4>2. <<s>> \o z \in Seq(Nat) /\ Len(<<s>> \o z) = d + 1
        BY <4>1
      <4>. QED BY <4>2, Zenon DEF z, s
    <3>3. ASSUME NEW i \in 1 .. d + 1 PROVE x[i] = y[i]
      <4>1. y[i] = S(m - (d + 1) + i)
        BY Zenon
      <4>. DEFINE z == from(d)
                  s == S(k)
      <4>2. z \in Seq(Nat) /\ Len(z) = d /\ s \in Nat
        BY <2>6, <3>1, Zenon
      <4>3. ASSUME i # 1 PROVE z[i - 1] = S(m - d + (i - 1)) /\ m - d + (i - 1) = m - (d + 1) + i
        <5>1. i - 1 \in 1 .. d /\ m - d + (i - 1) = m - (d + 1) + i
          BY <1>1, <4>3
        <5>. QED BY <5>1, Zenon
      <4>4. i = 1 => m - (d + 1) + i = k
        BY <1>1
      <4>. HIDE DEF z, s, k
      <4>5. (<<s>> \o z)[i] = IF i = 1 THEN s ELSE z[i - 1]
        BY <4>2
      <4>6. CASE i = 1
        BY <4>1, <4>4, <4>5, <4>6, Zenon DEF z, s
      <4>7. CASE i # 1
        BY <4>1, <4>3, <4>5, <4>7, Zenon DEF z, s
      <4>. QED BY <4>6, <4>7, Zenon
    <3>4. y \in Seq(Nat) /\ Len(y) = d + 1
      BY <2>7, Zenon
    <3>. HIDE DEF x, y
    <3>5. x = y
      BY <3>2, <3>3, <3>4, SeqEqual, Zenon
    <3>. QED BY <3>5, Zenon DEF x, y
  <2>. QED BY <2>2, <2>4, <2>8, Zenon
<1>8. \A d \in Nat : d \in H
  <2>. HIDE DEF H
  <2>. QED BY <1>6, <1>7, SetInduction, Zenon
<1>9. m <= m /\ m + 1 - m = 1 /\ \A j \in 1 .. m : m - m + j = j
  BY <1>1
<1>10. g[S(1)] = from(m)
  BY <1>1, <1>8, <1>9, Zenon
<1>11. from(m) = [j \in 1 .. m |-> S(j)]
  BY <1>9, Zenon
<1>12. S(1) = DataStart
  BY FirstStart, Zenon DEF S
<1>. QED BY <1>2, <1>10, <1>11, <1>12, Zenon DEF StartsOf, S

-----------------------------------------------------------------------------
(* Reading back *)

\* What was logged in the first m packets, packet by packet.
Contents(ps, m) == [i \in 1 .. m |-> Content(ps[i])]

\* They are sequences of items.
LEMMA ContentsAre ==
  ASSUME NEW ps \in Seq(Packet), NEW m \in 0 .. Len(ps)
  PROVE /\ Contents(ps, m) \in Seq(Seq(Item)) /\ Len(Contents(ps, m)) = m
        /\ \A i \in 1 .. m : Contents(ps, m)[i] = Content(ps[i]) /\ ps[i] \in Packet
<1>. DEFINE c == Contents(ps, m)
            Q == Seq(Item)
<1>1. m \in Nat /\ \A i \in 1 .. m : ps[i] \in Packet
  OBVIOUS
<1>2. \A i \in 1 .. m : Content(ps[i]) \in Q
  BY <1>1, ContentIs, Zenon
<1>. HIDE DEF Q
<1>3. c \in Seq(Q) /\ Len(c) = m
  BY <1>1, <1>2 DEF Contents
<1>4. \A i \in 1 .. m : c[i] = Content(ps[i])
  BY Zenon DEF Contents
<1>. QED BY <1>1, <1>3, <1>4, Zenon DEF Q

\* What was logged, filtered packet by packet.
PacketByPacket(ps, m, ids, t0, t1) ==
  Within(Concat(Contents(ps, m)), ids, t0, t1)
    = Concat([k \in 1 .. m |-> Within(Content(ps[k]), ids, t0, t1)])

\* It is filtered as a whole.
LEMMA LoggedWithin ==
  ASSUME NEW ps \in Seq(Packet), NEW m \in 0 .. Len(ps), NEW ids, NEW t0, NEW t1
  PROVE PacketByPacket(ps, m, ids, t0, t1)
<1>. DEFINE c == Contents(ps, m)
<1>1. c \in Seq(Seq(Item)) /\ Len(c) = m /\ \A i \in 1 .. m : c[i] = Content(ps[i])
  BY ContentsAre, Zenon
<1>. HIDE DEF c
<1>2. WithinAllOf(c, ids, t0, t1)
  BY <1>1, WithinConcat, Zenon
<1>3. Filtered(c, ids, t0, t1) = [k \in 1 .. m |-> Within(Content(ps[k]), ids, t0, t1)]
  BY <1>1, Zenon DEF Filtered
<1>. QED BY <1>2, <1>3, Zenon DEF WithinAllOf, PacketByPacket, c

\* _entries_sequential gives all that was logged in the packets it comes to.
LEMMA SequentialReads ==
  ASSUME NEW ps \in Seq(Packet), NEW f \in Seq(Nat), NEW m, NEW ids,
         Standing(f, IF FooterOK(f) THEN FooterOffset(f) ELSE Len(f), ps, m)
  PROVE Sequential(f, ids) = Within(Concat(Contents(ps, m)), ids, NoTime, NoTime)
<1>. DEFINE end == IF FooterOK(f) THEN FooterOffset(f) ELSE Len(f)
            s == StartsOf(ps, m)
<1>1. m \in 0 .. Len(ps) /\ \A k \in 1 .. m : At(f, PacketStart(ps, k), PacketWords(ps[k]))
  BY Zenon DEF Standing
<1>2. Scan(f, end) = s
  BY ScanFinds, Zenon
<1>3. DOMAIN s = 1 .. m /\ \A k \in 1 .. m : s[k] = PacketStart(ps, k)
  BY Zenon DEF StartsOf
<1>4. Sequential(f, ids) = Concat([i \in DOMAIN Scan(f, end) |->
                                     Within(Decode(PacketAt(f, Scan(f, end)[i])), ids, NoTime, NoTime)])
  BY Zenon DEF Sequential
<1>. HIDE DEF s, end
<1>5. Sequential(f, ids)
        = Concat([i \in 1 .. m |-> Within(Decode(PacketAt(f, PacketStart(ps, i))), ids, NoTime, NoTime)])
  BY <1>2, <1>3, <1>4, Zenon
<1>6. \A k \in 1 .. m : ps[k] \in Packet
  BY <1>1, ContentsAre, Zenon
<1>7. \A k \in 1 .. m : Decode(PacketAt(f, PacketStart(ps, k))) = Content(ps[k])
  BY <1>1, <1>6, PacketRead, Zenon
<1>8. Sequential(f, ids) = Concat([i \in 1 .. m |-> Within(Content(ps[i]), ids, NoTime, NoTime)])
  BY <1>5, <1>7, Zenon
<1>9. PacketByPacket(ps, m, ids, NoTime, NoTime)
  BY <1>1, LoggedWithin, Zenon
<1>. QED BY <1>8, <1>9, Zenon DEF PacketByPacket

\* A bound of a time range: a time, or none.
Bound == Nat \cup {NoTime}

\* A packet whose range lies outside has nothing to give.
LEMMA OutsideGivesNothing ==
  ASSUME NEW ps \in Seq(Packet), NEW k \in 1 .. Len(ps), NEW ids, NEW t0 \in Bound, NEW t1 \in Bound,
         Outside(RustEntry(ps, k), t0, t1)
  PROVE Within(Content(ps[k]), ids, t0, t1) = <<>>
<1>. DEFINE p == ps[k]
            c == Content(p)
            r == TsRange(p)
            e == RustEntry(ps, k)
<1>1. p \in Packet
  OBVIOUS
<1>2. c \in Seq(Item) /\ Len(c) = Len(p) /\ \A i \in 1 .. Len(p) : c[i].ts = p[i].ts /\ p[i].ts \in Nat
  BY <1>1, ContentIs, EntriesAre, Zenon DEF Fields
<1>3. r.min \in Nat /\ r.max \in Nat /\ \A i \in 1 .. Len(p) : r.min <= p[i].ts /\ p[i].ts <= r.max
  BY <1>1, PacketSpans, Zenon DEF Spans
<1>4. e.min = r.min /\ e.max = r.max
  BY DEF RustEntry
<1>5. (t1 # NoTime /\ r.min > t1) \/ (t0 # NoTime /\ r.max < t0)
  BY <1>4, Zenon DEF Outside
<1>6. NoTime \notin Nat /\ (t0 # NoTime => t0 \in Nat) /\ (t1 # NoTime => t1 \in Nat)
  BY FileAssumption, Zenon DEF Bound
<1>7. ASSUME NEW i \in 1 .. Len(c) PROVE ~Asked(c[i], ids, t0, t1)
  <2>. DEFINE t == c[i].ts
              lo == r.min
              hi == r.max
  <2>1. t \in Nat /\ lo <= t /\ t <= hi /\ lo \in Nat /\ hi \in Nat
    BY <1>2, <1>3, Zenon
  <2>2. (t1 # NoTime /\ lo > t1) \/ (t0 # NoTime /\ hi < t0)
    BY <1>5, Zenon
  <2>. HIDE DEF t, lo, hi
  <2>3. (t1 # NoTime /\ ~(t <= t1)) \/ (t0 # NoTime /\ ~(t >= t0))
    <3>1. CASE t1 # NoTime /\ lo > t1
      BY <1>6, <2>1, <3>1
    <3>2. CASE t0 # NoTime /\ hi < t0
      BY <1>6, <2>1, <3>2
    <3>. QED BY <2>2, <3>1, <3>2, Zenon
  <2>. QED BY <2>3, Zenon DEF Asked, InRange, t
<1>. HIDE DEF c
<1>8. Within(c, ids, t0, t1) = <<>>
  BY <1>2, <1>7, WithinNone, Zenon
<1>. QED BY <1>8, Zenon DEF c

\* The indexed reader gives what was logged, filtered.
IndexedGives(f, ps, ids, t0, t1) ==
  Indexed(f, ids, t0, t1) = Within(Concat(Contents(ps, Len(ps))), ids, t0, t1)

\* _entries_indexed skips only packets without an entry that is asked for.
LEMMA IndexedReads ==
  ASSUME NEW ps \in Seq(Packet), NEW f, InClosed(f, ps), NEW ids, NEW t0 \in Bound, NEW t1 \in Bound
  PROVE IndexedGives(f, ps, ids, t0, t1)
<1>. DEFINE n == Len(ps)
            X(k) == IF Outside(IndexEntry(f, k), t0, t1) THEN <<>>
                    ELSE Within(Decode(PacketAt(f, IndexEntry(f, k).offset)), ids, t0, t1)
<1>1. n \in Nat /\ n \in 0 .. n /\ f \in Seq(Nat)
  BY DEF InClosed
<1>2. FooterCount(f) = n
  BY FooterRead, Zenon
<1>3. Indexed(f, ids, t0, t1) = Concat([k \in 1 .. n |-> X(k)])
  BY <1>2, Zenon DEF Indexed
<1>4. ASSUME NEW k \in 1 .. n PROVE X(k) = Within(Content(ps[k]), ids, t0, t1)
  <2>1. IndexEntry(f, k) = RustEntry(ps, k)
    BY IndexRead, Zenon
  <2>2. RustEntry(ps, k).offset = PacketStart(ps, k)
    BY DEF RustEntry
  <2>3. ps[k] \in Packet
    OBVIOUS
  <2>4. Decode(PacketAt(f, PacketStart(ps, k))) = Content(ps[k])
    BY <1>1, <2>3, PacketRead, Zenon DEF InClosed
  <2>5. CASE Outside(RustEntry(ps, k), t0, t1)
    BY <2>1, <2>5, OutsideGivesNothing, Zenon
  <2>6. CASE ~Outside(RustEntry(ps, k), t0, t1)
    BY <2>1, <2>2, <2>4, <2>6, Zenon
  <2>. QED BY <2>5, <2>6, Zenon
<1>. HIDE DEF X
<1>5. Indexed(f, ids, t0, t1) = Concat([k \in 1 .. n |-> Within(Content(ps[k]), ids, t0, t1)])
  BY <1>3, <1>4, Zenon
<1>6. PacketByPacket(ps, n, ids, t0, t1)
  BY <1>1, LoggedWithin, Zenon
<1>. QED BY <1>5, <1>6, Zenon DEF PacketByPacket, IndexedGives

\* All packets of a closed file stand before its index.
LEMMA ClosedStanding ==
  ASSUME NEW ps \in Seq(Packet), NEW f, InClosed(f, ps)
  PROVE Standing(f, PacketStart(ps, Len(ps) + 1), ps, Len(ps))
<1>. DEFINE n == Len(ps)
            S(k) == PacketStart(ps, k)
            W == Words(ps)
            E == S(n + 1)
<1>1. n \in Nat /\ n \in 0 .. n /\ n + 1 \in 1 .. n + 1
  OBVIOUS
<1>2. W \in Seq(Seq(Nat)) /\ Len(W) = n
  BY WordsAre, Zenon
<1>3. \A k \in 1 .. n + 1 : S(k) = DataStart + Before(W, k) /\ Before(W, k) \in Nat
  BY StartIs, Zenon
<1>4. DataStart \in Nat
  BY PreambleIs, Zenon
<1>5. E \in Nat /\ Len(f) = E + 7 * n + 4
  <2>1. E = DataStart + Before(W, n + 1) /\ Before(W, n + 1) \in Nat
    BY <1>1, <1>3, Zenon
  <2>2. E \in Nat
    <3>. HIDE DEF W, E
    <3>. QED BY <1>4, <2>1
  <2>. QED BY <2>2, Zenon DEF InClosed
<1>6. ASSUME NEW k \in 1 .. n PROVE At(f, S(k), PacketWords(ps[k])) /\ ~(S(k) >= E)
  <2>1. At(f, S(k), PacketWords(ps[k]))
    BY Zenon DEF InClosed
  <2>2. k \in 1 .. n + 1 /\ k + 1 \in 1 .. n + 1 /\ n + 1 \in k + 1 .. n + 1
    BY <1>1
  <2>3. Before(W, k + 1) <= Before(W, n + 1)
    BY <1>2, <2>2, BeforeGrows, Zenon
  <2>. DEFINE a == Before(W, k + 1)
              b == Before(W, n + 1)
              l == Len(PacketWords(ps[k]))
              s == S(k)
              z == S(k + 1)
  <2>4. a <= b /\ a \in Nat /\ b \in Nat /\ z = DataStart + a /\ E = DataStart + b
    BY <1>1, <1>3, <2>2, <2>3, Zenon
  <2>5. s \in Nat /\ l \in Nat /\ 4 <= l /\ z = s + l
    BY PacketStarts, Zenon DEF Starts
  <2>6. ~(s >= E)
    <3>. HIDE DEF a, b, l, s, z, E
    <3>. QED BY <1>4, <2>4, <2>5
  <2>. QED BY <2>1, <2>6, Zenon
<1>7. E \in 0 .. Len(f) /\ E >= E
  <2>. HIDE DEF E
  <2>. QED BY <1>1, <1>5
<1>. QED BY <1>1, <1>6, <1>7, Zenon DEF Standing

\* LogReader.entries gives back what was logged: after every run of LogWriter that
\* ended with close, for every set of ids and every time range, in the order it was
\* written.
THEOREM FileReadsBack == Spec => []ClosedReadsBack
<1>1. FileInv => ClosedReadsBack
  <2>. SUFFICES ASSUME FileInv, mode = "closed", NEW ids \in SUBSET Ids, NEW t0 \in Bounds, NEW t1 \in Bounds
                PROVE Entries(file, ids, t0, t1) = Within(Logged(Len(written)), ids, t0, t1)
    BY Zenon DEF ClosedReadsBack
  <2>. DEFINE n == Len(written)
  <2>1. written \in Seq(Packet) /\ file = ClosedFile(written)
    BY Zenon DEF FileInv
  <2>2. InClosed(file, written)
    BY <2>1, ClosedLaid, Zenon
  <2>3. file \in Seq(Nat)
    BY <2>2, Zenon DEF InClosed
  <2>4. Logged(n) = Concat(Contents(written, n))
    BY Zenon DEF Logged, Contents
  <2>5. FooterOK(file) /\ FooterOffset(file) = PacketStart(written, n + 1)
    BY <2>1, <2>2, FooterRead, Zenon
  <2>6. t0 \in Bound /\ t1 \in Bound
    BY FileAssumption, Zenon DEF Bounds, Bound
  <2>7. CASE t0 # NoTime \/ t1 # NoTime
    <3>1. Entries(file, ids, t0, t1) = Indexed(file, ids, t0, t1)
      BY <2>5, <2>7, Zenon DEF Entries
    <3>2. IndexedGives(file, written, ids, t0, t1)
      BY <2>1, <2>2, <2>6, IndexedReads, Zenon
    <3>. QED BY <2>4, <3>1, <3>2, Zenon DEF IndexedGives
  <2>8. CASE ~(t0 # NoTime \/ t1 # NoTime)
    <3>1. Entries(file, ids, t0, t1) = Sequential(file, ids) /\ t0 = NoTime /\ t1 = NoTime
      BY <2>8, Zenon DEF Entries
    <3>2. Standing(file, PacketStart(written, n + 1), written, n)
      BY <2>1, <2>2, ClosedStanding, Zenon
    <3>3. Standing(file, IF FooterOK(file) THEN FooterOffset(file) ELSE Len(file), written, n)
      BY <2>5, <3>2, Zenon
    <3>4. Sequential(file, ids) = Within(Concat(Contents(written, n)), ids, NoTime, NoTime)
      BY <2>1, <2>3, <3>3, SequentialReads, Zenon
    <3>. QED BY <2>4, <3>1, <3>4, Zenon
  <2>. QED BY <2>7, <2>8, Zenon
<1>. QED BY <1>1, FileInvariant, PTL

-----------------------------------------------------------------------------
(* After a crash *)

\* Only packets that were given are written.
Given == written \in Seq(Packets)

\* So it is.
LEMMA GivenPackets == Spec => []Given
<1>1. Init => Given
  BY DEF Init, Given
<1>2. Given /\ [Next]_vars => Given'
  <2>. SUFFICES ASSUME written \in Seq(Packets), [Next]_vars PROVE written' \in Seq(Packets)
    BY Zenon DEF Given
  <2>1. ASSUME NEW p \in Packets, WritePacket(p) PROVE written' \in Seq(Packets)
    <3>1. written' = Append(written, p)
      BY <2>1, Zenon DEF WritePacket
    <3>. QED BY <3>1
  <2>2. CASE Flush \/ CloseBegin \/ CloseEnd \/ Crash \/ UNCHANGED vars
    <3>1. written' = written
      BY <2>2, Zenon DEF Flush, CloseBegin, CloseEnd, Crash, vars
    <3>. QED BY <3>1, Zenon
  <2>. QED BY <2>1, <2>2, Zenon DEF Next
<1>. QED BY <1>1, <1>2, PTL DEF Spec

\* A set of naturals up to N has a greatest element.
LEMMA Greatest ==
  ASSUME NEW N \in Nat, NEW T \in SUBSET (0 .. N), NEW y \in T
  PROVE Max(T) \in T /\ \A z \in T : z <= Max(T)
<1>. DEFINE Top(d, m) == m \in T /\ \A z \in T : z <= d => z <= m
            H == {d \in Nat : y <= d => \E m : Top(d, m)}
<1>1. \A z \in T : z \in Nat /\ z <= N
  OBVIOUS
<1>2. 0 \in H
  <2>1. ASSUME y <= 0 PROVE Top(0, y)
    <3>1. y = 0
      BY <1>1, <2>1
    <3>. QED BY <3>1, Zenon
  <2>2. 0 \in Nat
    OBVIOUS
  <2>. HIDE DEF Top
  <2>. QED BY <2>1, <2>2, Zenon
<1>3. ASSUME NEW d \in Nat, d \in H PROVE d + 1 \in H
  <2>1. d + 1 \in Nat
    OBVIOUS
  <2>. SUFFICES ASSUME y <= d + 1 PROVE \E m : Top(d + 1, m)
    <3>. HIDE DEF Top
    <3>. QED BY <2>1, Zenon
  <2>2. CASE d + 1 \in T
    <3>1. Top(d + 1, d + 1)
      BY <2>2, Zenon
    <3>. HIDE DEF Top
    <3>. QED BY <3>1, Zenon
  <2>3. CASE d + 1 \notin T
    <3>1. \A z \in T : z <= d + 1 => z <= d
      <4>. TAKE z \in T
      <4>1. z \in Nat /\ z # d + 1
        BY <1>1, <2>3, Zenon
      <4>. QED BY <4>1
    <3>2. PICK m : Top(d, m)
      <4>1. y <= d
        BY <3>1, Zenon
      <4>. HIDE DEF Top
      <4>. QED BY <1>3, <4>1, Zenon
    <3>3. Top(d + 1, m)
      BY <3>1, <3>2, Zenon
    <3>. HIDE DEF Top
    <3>. QED BY <3>3, Zenon
  <2>. QED BY <2>2, <2>3, Zenon
<1>4. \A d \in Nat : d \in H
  <2>. HIDE DEF H
  <2>. QED BY <1>2, <1>3, SetInduction, Zenon
<1>5. PICK m : Top(N, m)
  <2>1. y <= N
    BY <1>1, Zenon
  <2>. HIDE DEF Top
  <2>. QED BY <1>4, <2>1, Zenon
<1>6. m \in T /\ \A z \in T : m >= z
  <2>1. m \in T /\ \A z \in T : z <= m
    BY <1>1, <1>5, Zenon
  <2>2. \A z \in T : m >= z
    <3>. TAKE z \in T
    <3>1. z \in Nat /\ m \in Nat /\ z <= m
      BY <1>1, <2>1, Zenon
    <3>. QED BY <3>1
  <2>. QED BY <2>1, <2>2, Zenon
<1>7. Max(T) \in T /\ \A z \in T : Max(T) >= z
  BY <1>6, Zenon DEF Max
<1>8. \A z \in T : z <= Max(T)
  <2>. TAKE z \in T
  <2>1. z \in Nat /\ Max(T) \in Nat /\ Max(T) >= z
    BY <1>1, <1>7, Zenon
  <2>. QED BY <2>1
<1>. QED BY <1>7, <1>8, Zenon

\* The packets that are given are packets.
LEMMA GivenAre ==
  ASSUME NEW ps \in Seq(Packets)
  PROVE ps \in Seq(Packet) /\ \A k \in 1 .. Len(ps) : ps[k] \in Packets
<1>1. \A p \in Packets : p \in Packet
  BY FileAssumption, Zenon DEF Packet
<1>. QED BY <1>1

\* A sequence whose elements are all in S is one over S.
LEMMA SeqOver ==
  ASSUME NEW S, NEW T, NEW s \in Seq(T), \A k \in 1 .. Len(s) : s[k] \in S
  PROVE s \in Seq(S)
<1>. DEFINE n == Len(s)
<1>1. n \in Nat /\ s \in [1 .. n -> T]
  BY LenProperties, Zenon
<1>2. s \in [1 .. n -> S]
  BY <1>1, Zenon
<1>. HIDE DEF n
<1>. QED BY <1>1, <1>2

\* INDEX_MAGIC is not to be found before the index.
LEMMA BodyPlain ==
  ASSUME NEW ps \in Seq(Packets), NEW i \in 1 .. Len(Body(ps))
  PROVE Body(ps)[i] # Magic
<1>. DEFINE P == Nat \ {Magic}
            Q == Seq(P)
            W == Words(ps)
<1>1. ps \in Seq(Packet) /\ \A k \in 1 .. Len(ps) : ps[k] \in Packets
  BY GivenAre, Zenon
<1>2. ASSUME NEW k \in 1 .. Len(ps) PROVE W[k] \in Q
  <2>. DEFINE w == PacketWords(ps[k])
  <2>1. W[k] = w /\ ps[k] \in Packet /\ ps[k] \in Packets
    BY <1>1, WordsAre, Zenon
  <2>2. w \in Seq(Nat)
    BY <2>1, PacketLaid, Zenon DEF Laid
  <2>3. \A j \in DOMAIN w : w[j] # Magic
    BY <2>1, MagicAssumption, Zenon
  <2>. HIDE DEF w
  <2>4. DOMAIN w = 1 .. Len(w) /\ \A j \in 1 .. Len(w) : w[j] \in Nat
    BY <2>2, LenProperties, ElementOfSeq, Zenon
  <2>5. \A j \in 1 .. Len(w) : w[j] \in P
    BY <2>3, <2>4, Zenon
  <2>6. w \in Q
    BY <2>2, <2>5, SeqOver, Zenon
  <2>. QED BY <2>1, <2>6, Zenon
<1>3. W \in Seq(Seq(Nat)) /\ Len(W) = Len(ps)
  BY <1>1, WordsAre, Zenon
<1>4. W \in Seq(Q)
  <2>1. \A k \in 1 .. Len(W) : W[k] \in Q
    BY <1>2, <1>3, Zenon
  <2>. HIDE DEF W, Q
  <2>. QED BY <1>3, <2>1, SeqOver, Zenon
<1>5. Concat(W) \in Seq(P)
  <2>. HIDE DEF P
  <2>. QED BY <1>4, ConcatIs, Zenon
<1>6. Preamble \in Seq(P)
  <2>1. 0 \in Nat \ {Magic}
    BY SMT DEF Magic
  <2>2. DataStart \in Nat
    BY PreambleIs, Zenon
  <2>3. Preamble = [j \in 1 .. DataStart |-> 0]
    BY Zenon DEF Preamble, Filler
  <2>. HIDE DEF P
  <2>4. [j \in 1 .. DataStart |-> 0] \in Seq(P)
    <3>1. 0 \in P
      BY <2>1, Zenon DEF P
    <3>. QED BY <2>2, <3>1
  <2>. QED BY <2>3, <2>4, Zenon
<1>7. Body(ps) \in Seq(P)
  <2>. HIDE DEF P
  <2>. QED BY <1>5, <1>6, JoinIs, Zenon DEF Body
<1>8. Body(ps)[i] \in P
  <2>. HIDE DEF P
  <2>. QED BY <1>7
<1>. QED BY <1>8, Zenon

\* What a crash left of the packets ps: the first c words, behind the preamble and
\* before the index.
Cut(f, ps, c) ==
  /\ f = SubSeq(ClosedFile(ps), 1, c) /\ c \in Nat
  /\ DataStart <= c /\ c <= PacketStart(ps, Len(ps) + 1)

\* The words of a cut.
LEMMA CutWords ==
  ASSUME NEW ps \in Seq(Packet), NEW f, NEW c, Cut(f, ps, c)
  PROVE /\ f \in Seq(Nat) /\ Len(f) = c /\ c <= Len(ClosedFile(ps)) /\ c <= Len(Body(ps))
        /\ \A i \in 1 .. c : f[i] = Body(ps)[i]
<1>. DEFINE F == ClosedFile(ps)
            B == Body(ps)
<1>1. /\ B \in Seq(Nat) /\ F \in Seq(Nat) /\ Len(B) \in Nat /\ Len(F) \in Nat /\ Len(B) <= Len(F)
      /\ \A i \in 1 .. Len(B) : F[i] = B[i]
  BY ClosedParts, Zenon
<1>2. Len(B) = PacketStart(ps, Len(ps) + 1)
  BY BodyLaid, Zenon DEF InBody
<1>3. f = SubSeq(F, 1, c) /\ c \in Nat /\ c <= Len(B)
  BY <1>2, Zenon DEF Cut
<1>. HIDE DEF F, B
<1>4. c <= Len(F) /\ \A i \in 1 .. c : i \in 1 .. Len(B)
  BY <1>1, <1>3
<1>5. f \in Seq(Nat) /\ Len(f) = c /\ \A i \in 1 .. c : f[i] = F[i]
  BY <1>1, <1>3, <1>4
<1>. QED BY <1>1, <1>3, <1>4, <1>5, Zenon DEF F, B

\* No footer is found at the end of a cut.
LEMMA CutNoFooter ==
  ASSUME NEW ps \in Seq(Packets), NEW f, NEW c, Cut(f, ps, c)
  PROVE ~FooterOK(f)
<1>1. ps \in Seq(Packet)
  BY GivenAre, Zenon
<1>2. Len(f) = c /\ c <= Len(Body(ps)) /\ \A i \in 1 .. c : f[i] = Body(ps)[i]
  BY <1>1, CutWords, Zenon
<1>3. c \in Nat /\ DataStart <= c /\ DataStart \in Nat /\ DataStart > 0 /\ Len(Body(ps)) \in Nat
  BY <1>1, PreambleIs, ClosedParts, Zenon DEF Cut
<1>4. c \in 1 .. c /\ c \in 1 .. Len(Body(ps))
  BY <1>2, <1>3
<1>5. f[c] # Magic
  BY <1>2, <1>4, BodyPlain, Zenon
<1>. QED BY <1>2, <1>5, Zenon DEF FooterOK

\* The packets that end before the cut are there, and the next one is not whole.
LEMMA CutStanding ==
  ASSUME NEW ps \in Seq(Packet), NEW f, NEW c, Cut(f, ps, c), NEW m \in 0 .. Len(ps),
         PacketStart(ps, m + 1) <= c,
         m < Len(ps) => ~(PacketStart(ps, (m + 1) + 1) <= c)
  PROVE Standing(f, c, ps, m)
<1>. DEFINE S(k) == PacketStart(ps, k)
            n == Len(ps)
            F == ClosedFile(ps)
            W == Words(ps)
<1>11. f \in Seq(Nat) /\ Len(f) = c /\ c <= Len(F) /\ F \in Seq(Nat)
  BY CutWords, ClosedParts, Zenon
<1>12. f = SubSeq(F, 1, c) /\ c \in Nat
  BY Zenon DEF Cut
<1>1. f \in Seq(Nat) /\ Len(f) = c /\ c <= Len(F) /\ F \in Seq(Nat) /\ f = SubSeq(F, 1, c) /\ c \in Nat
  BY <1>11, <1>12, Zenon
<1>13. \A i \in 1 .. c : f[i] = F[i]
  <2>. HIDE DEF F
  <2>. QED BY <1>11, <1>12
<1>2. n \in Nat /\ m \in Nat /\ m <= n
  OBVIOUS
<1>3. W \in Seq(Seq(Nat)) /\ Len(W) = n
  BY WordsAre, Zenon
<1>4. \A k \in 1 .. n + 1 : S(k) = DataStart + Before(W, k) /\ Before(W, k) \in Nat
  BY StartIs, Zenon
<1>5. DataStart \in Nat
  BY PreambleIs, Zenon
<1>6. ASSUME NEW k \in 1 .. n PROVE /\ S(k) \in Nat /\ S(k + 1) \in Nat /\ Len(PacketWords(ps[k])) \in Nat
                                    /\ 4 <= Len(PacketWords(ps[k]))
                                    /\ S(k + 1) = S(k) + Len(PacketWords(ps[k]))
                                    /\ At(F, S(k), PacketWords(ps[k]))
                                    /\ PacketWords(ps[k]) \in Seq(Nat) /\ ps[k] \in Packet
  BY PacketStarts, ClosedLaid, WordsAre, PacketLaid, Zenon DEF Starts, InClosed, Laid
<1>7. ASSUME NEW k \in 1 .. m PROVE At(f, S(k), PacketWords(ps[k])) /\ ~(S(k) >= c)
  <2>. DEFINE w == PacketWords(ps[k])
              l == Len(w)
              a == Before(W, k + 1)
              b == Before(W, m + 1)
              s == S(k)
              z == S(k + 1)
              e == S(m + 1)
  <2>1. k \in 1 .. n /\ k + 1 \in 1 .. n + 1 /\ m + 1 \in k + 1 .. n + 1 /\ m + 1 \in 1 .. n + 1
    BY <1>2
  <2>2. k + 1 \in 1 .. Len(W) + 1 /\ m + 1 \in k + 1 .. Len(W) + 1
    BY <1>3, <2>1, Zenon
  <2>3. a <= b
    <3>. HIDE DEF W
    <3>. QED BY <1>3, <2>2, BeforeGrows, Zenon
  <2>4. a \in Nat /\ b \in Nat /\ z = DataStart + a /\ e = DataStart + b
    BY <1>4, <2>1, Zenon
  <2>5. s \in Nat /\ l \in Nat /\ 4 <= l /\ z = s + l /\ w \in Seq(Nat) /\ At(F, s, w)
    BY <1>6, <2>1, Zenon
  <2>6. e <= c
    OBVIOUS
  <2>7. s + l <= c /\ ~(s >= c)
    <3>. HIDE DEF a, b, l, s, z, e
    <3>. QED BY <1>1, <1>5, <2>3, <2>4, <2>5, <2>6
  <2>8. At(f, s, w)
    <3>. HIDE DEF s, w, F
    <3>1. At(SubSeq(F, 1, c), s, w)
      BY <1>1, <2>5, <2>7, AtCut, Zenon DEF l
    <3>. QED BY <1>1, <3>1, Zenon
  <2>. QED BY <2>7, <2>8, Zenon
<1>8. S(m + 1) \in 0 .. Len(f)
  <2>1. m + 1 \in 1 .. n + 1
    BY <1>2
  <2>. DEFINE b == Before(W, m + 1)
              e == S(m + 1)
  <2>2. e = DataStart + b /\ b \in Nat
    BY <1>4, <2>1, Zenon
  <2>3. e <= c
    OBVIOUS
  <2>. HIDE DEF b, e
  <2>4. e \in 0 .. c
    BY <1>1, <1>5, <2>2, <2>3
  <2>. QED BY <1>1, <2>4, Zenon DEF e
<1>9. CASE m = n
  <2>. DEFINE e == S(n + 1)
  <2>1. e <= c /\ c <= e /\ e \in 0 .. c
    BY <1>1, <1>8, <1>9, Zenon DEF Cut
  <2>2. e >= c
    <3>. HIDE DEF e
    <3>. QED BY <1>1, <2>1
  <2>. QED BY <1>7, <1>8, <1>9, <2>2, Zenon DEF Standing
<1>10. CASE m # n
  <2>. DEFINE k == m + 1
              w == PacketWords(ps[k])
              s == S(k)
              z == S(k + 1)
              l == Len(w)
  <2>1. k \in 1 .. n /\ m < n
    BY <1>2, <1>10
  <2>2. s \in Nat /\ z \in Nat /\ l \in Nat /\ 4 <= l /\ z = s + l /\ At(F, s, w) /\ ps[k] \in Packet
    BY <1>6, <2>1, Zenon
  <2>3. ~(z <= c)
    BY <2>1, Zenon
  <2>4. ~Whole(f, s)
    <3>. SUFFICES ASSUME s + 4 <= Len(f) PROVE ~(s + Size(f, s) <= Len(f))
      BY Zenon DEF Whole, HeaderWords
    <3>. HIDE DEF s, l, z
    <3>1. s + 1 \in 1 .. c /\ s + 2 \in 1 .. c /\ 1 \in 1 .. l /\ 2 \in 1 .. l
      BY <1>1, <2>2
    <3>2. F[s + 1] = w[1] /\ F[s + 2] = w[2]
      BY <2>2, <3>1, Zenon DEF At, l
    <3>. HIDE DEF F
    <3>3. f[s + 1] = F[s + 1] /\ f[s + 2] = F[s + 2]
      BY <1>13, <3>1, Zenon
    <3>6. f[s + 1] = w[1] /\ f[s + 2] = w[2]
      BY <3>2, <3>3, Zenon
    <3>4. Size(f, s) = l
      BY <2>2, <3>6, SizeRead, Zenon DEF l
    <3>5. ~(s + l <= c)
      BY <2>2, <2>3, Zenon
    <3>. QED BY <1>1, <3>4, <3>5, Zenon
  <2>. QED BY <1>7, <1>8, <2>4, Zenon DEF Standing
<1>. QED BY <1>9, <1>10, Zenon

\* An id that is in a given packet is one of Ids.
LEMMA IdsAre ==
  ASSUME NEW p \in Packets, p \in Packet, NEW i \in 1 .. Len(p)
  PROVE p[i].id \in Ids
<1>1. i \in DOMAIN p
  BY EntriesAre, Zenon
<1>. DEFINE of(q) == {q[j].id : j \in DOMAIN q}
<1>2. p[i].id \in of(p)
  BY <1>1, Zenon
<1>. HIDE DEF of
<1>3. p[i].id \in UNION {of(q) : q \in Packets}
  BY <1>2, Zenon
<1>. QED BY <1>3, Zenon DEF Ids, of

\* Nothing is filtered out by Ids.
LEMMA IdsKeepAll ==
  ASSUME NEW ps \in Seq(Packets), NEW m \in 0 .. Len(ps)
  PROVE Within(Concat(Contents(ps, m)), Ids, NoTime, NoTime) = Concat(Contents(ps, m))
<1>1. ps \in Seq(Packet) /\ \A k \in 1 .. Len(ps) : ps[k] \in Packets
  BY GivenAre, Zenon
<1>2. PacketByPacket(ps, m, Ids, NoTime, NoTime)
  BY <1>1, LoggedWithin, Zenon
<1>3. \A k \in 1 .. m : k \in 1 .. Len(ps)
  OBVIOUS
<1>4. ASSUME NEW k \in 1 .. m PROVE Within(Content(ps[k]), Ids, NoTime, NoTime) = Content(ps[k])
  <2>. DEFINE c == Content(ps[k])
  <2>1. ps[k] \in Packets /\ ps[k] \in Packet
    BY <1>1, <1>3, ContentsAre, Zenon
  <2>2. c \in Seq(Item) /\ Len(c) = Len(ps[k]) /\ \A i \in 1 .. Len(c) : c[i].id = ps[k][i].id
    BY <2>1, ContentIs, Zenon
  <2>3. \A i \in 1 .. Len(c) : ps[k][i].id \in Ids
    BY <2>1, <2>2, IdsAre, Zenon
  <2>4. \A i \in 1 .. Len(c) : Asked(c[i], Ids, NoTime, NoTime)
    BY <2>2, <2>3, Zenon DEF Asked, InRange
  <2>. HIDE DEF c
  <2>5. Within(c, Ids, NoTime, NoTime) = c
    BY <2>2, <2>4, WithinAll, Zenon
  <2>. QED BY <2>5, Zenon DEF c
<1>5. [k \in 1 .. m |-> Within(Content(ps[k]), Ids, NoTime, NoTime)] = Contents(ps, m)
  BY <1>4, Zenon DEF Contents
<1>. QED BY <1>2, <1>5, Zenon DEF PacketByPacket

-----------------------------------------------------------------------------
(* Series of the native Capture *)

\* The sequences xs between the a-th and the b-th.
Trimmed(xs, a, b) == [k \in 1 .. b - a |-> xs[a + k]]

\* Sequences that are empty can be left out.
LEMMA ConcatTrimmed ==
  ASSUME NEW S, NEW xs \in Seq(Seq(S)), NEW a \in Nat, NEW b \in Nat, a <= b, b <= Len(xs),
         \A k \in 1 .. Len(xs) : k <= a \/ ~(k <= b) => xs[k] = <<>>
  PROVE Concat(Trimmed(xs, a, b)) = Concat(xs)
<1>. DEFINE n == Len(xs)
            ys == Trimmed(xs, a, b)
            d == b - a
            Q == Seq(S)
<1>1. n \in Nat /\ d \in Nat /\ (\A k \in 1 .. n : xs[k] \in Q) /\ \A k \in 1 .. d : a + k \in 1 .. n
  BY SMTT(30)
<1>2. \A k \in 1 .. d : xs[a + k] \in Q
  BY <1>1, Zenon
<1>3. ys \in Seq(Q) /\ Len(ys) = d
  <2>. HIDE DEF Q, d
  <2>. QED BY <1>1, <1>2 DEF Trimmed, d
<1>4. \A k \in 1 .. d : ys[k] = xs[a + k]
  BY Zenon DEF Trimmed
<1>. HIDE DEF ys
<1>5. PICK f : Joined(S, xs, f) /\ Concat(xs) = f[n]
  BY ConcatJoins, Zenon
<1>6. PICK g : Joined(S, ys, g) /\ Concat(ys) = g[d]
  BY <1>3, ConcatJoins, Zenon
<1>7. f[0] = <<>> /\ \A k \in 1 .. n : f[k] = f[k - 1] \o xs[k]
  BY <1>5, Zenon DEF Joined
<1>8. g[0] = <<>> /\ (\A k \in 1 .. d : g[k] = g[k - 1] \o ys[k]) /\ \A k \in 0 .. d : g[k] \in Q
  BY <1>3, <1>6, Zenon DEF Joined
<1>. DEFINE at(k) == IF k <= a THEN 0 ELSE IF k <= b THEN k - a ELSE d
            H == {k \in Nat : k <= n => f[k] = g[at(k)]}
<1>9. 0 \in H
  <2>1. at(0) = 0 /\ 0 \in Nat
    OBVIOUS
  <2>. HIDE DEF at
  <2>. QED BY <1>7, <1>8, <2>1, Zenon
<1>10. ASSUME NEW k \in Nat, k \in H PROVE k + 1 \in H
  <2>1. k + 1 \in Nat
    OBVIOUS
  <2>. SUFFICES ASSUME k + 1 <= n PROVE f[k + 1] = g[at(k + 1)]
    <3>. HIDE DEF at
    <3>. QED BY <2>1, Zenon
  <2>2. k <= n /\ k + 1 \in 1 .. n /\ (k + 1) - 1 = k
    BY <1>1
  <2>3. f[k] = g[at(k)]
    <3>. HIDE DEF at
    <3>. QED BY <1>10, <2>2, Zenon
  <2>4. f[k + 1] = f[k] \o xs[k + 1]
    BY <1>7, <2>2, Zenon
  <2>5. at(k) \in 0 .. d
    BY <1>1
  <2>6. g[at(k)] \in Q
    <3>. HIDE DEF at
    <3>. QED BY <1>8, <2>5, Zenon
  <2>7. CASE k + 1 <= a \/ ~(k + 1 <= b)
    <3>1. xs[k + 1] = <<>>
      BY <2>2, <2>7, Zenon
    <3>2. at(k + 1) = at(k)
      BY <1>1, <2>7
    <3>3. g[at(k)] \o <<>> = g[at(k)]
      <4>. HIDE DEF at
      <4>. QED BY <2>6
    <3>. HIDE DEF at
    <3>. QED BY <2>3, <2>4, <3>1, <3>2, <3>3, Zenon
  <2>8. CASE ~(k + 1 <= a) /\ k + 1 <= b
    <3>. DEFINE j == at(k + 1)
    <3>1. j \in 1 .. d /\ j - 1 = at(k) /\ a + j = k + 1
      BY <1>1, <2>8
    <3>2. g[j] = g[j - 1] \o ys[j] /\ ys[j] = xs[a + j]
      <4>. HIDE DEF j
      <4>. QED BY <1>4, <1>8, <3>1, Zenon
    <3>. HIDE DEF at, j
    <3>3. g[j] = f[k] \o xs[k + 1]
      BY <2>3, <3>1, <3>2, Zenon
    <3>. QED BY <2>4, <3>3, Zenon DEF j
  <2>. QED BY <2>7, <2>8, Zenon
<1>11. \A k \in Nat : k \in H
  <2>. HIDE DEF H
  <2>. QED BY <1>9, <1>10, SetInduction, Zenon
<1>12. n <= n /\ at(n) = d
  BY <1>1
<1>13. f[n] = g[d]
  <2>. HIDE DEF at
  <2>. QED BY <1>1, <1>11, <1>12, Zenon
<1>. QED BY <1>5, <1>6, <1>13, Zenon DEF ys

\* The packets that are read, from the a-th on to the b-th.
SeriesOf(f, id, t0, t1, a, b) ==
  Concat([k \in 1 .. b - a |-> Within(Decode(PacketAt(f, NativeIndex(f)[a + k].offset)), {id}, t0, t1)])

\* Where reading begins and ends.
FirstRead(f, t0) == IF t0 = NoTime THEN 0 ELSE LowerBound(NativeIndex(f), t0)
Later(f, t0, t1) ==
  {k \in FirstRead(f, t0) + 1 .. Len(NativeIndex(f)) : t1 # NoTime /\ NativeIndex(f)[k].min > t1}
LastRead(f, t0, t1) ==
  IF Later(f, t0, t1) = {} THEN Len(NativeIndex(f)) ELSE Min(Later(f, t0, t1)) - 1

\* A series is read from there to there.
LEMMA SeriesIs ==
  ASSUME NEW f, NEW id, NEW t0, NEW t1
  PROVE Series(f, id, t0, t1) = SeriesOf(f, id, t0, t1, FirstRead(f, t0), LastRead(f, t0, t1))
BY Zenon DEF Series, SeriesOf, FirstRead, LastRead, Later

\* The native index lists the first m of the packets ps, which stand in f.
Listed(f, ps, m) ==
  /\ m \in 0 .. Len(ps) /\ Len(NativeIndex(f)) = m
  /\ \A k \in 1 .. m : /\ NativeIndex(f)[k].offset = PacketStart(ps, k)
                       /\ At(f, PacketStart(ps, k), PacketWords(ps[k]))

\* The series read from the a-th packet on to the b-th is what was logged, filtered.
SeriesGives(f, ps, m, id, t0, t1, a, b) ==
  SeriesOf(f, id, t0, t1, a, b) = Within(Concat(Contents(ps, m)), {id}, t0, t1)

\* So it is if the packets left out have nothing to give.
LEMMA SeriesReads ==
  ASSUME NEW ps \in Seq(Packet), NEW f \in Seq(Nat), NEW m, Listed(f, ps, m), NEW id, NEW t0, NEW t1,
         NEW a \in Nat, NEW b \in Nat, a <= b, b <= m,
         \A k \in 1 .. m : k <= a \/ ~(k <= b) => Within(Content(ps[k]), {id}, t0, t1) = <<>>
  PROVE SeriesGives(f, ps, m, id, t0, t1, a, b)
<1>. DEFINE X(k) == Within(Content(ps[k]), {id}, t0, t1)
            xs == [k \in 1 .. m |-> X(k)]
            Y(k) == Within(Decode(PacketAt(f, NativeIndex(f)[k].offset)), {id}, t0, t1)
            Q == Seq(Item)
<1>1. m \in 0 .. Len(ps) /\ \A k \in 1 .. m : /\ NativeIndex(f)[k].offset = PacketStart(ps, k)
                                              /\ At(f, PacketStart(ps, k), PacketWords(ps[k]))
  BY Zenon DEF Listed
<1>2. m \in Nat
  BY <1>1
<1>3. \A k \in 1 .. m : ps[k] \in Packet
  BY <1>1, ContentsAre, Zenon
<1>4. \A k \in 1 .. m : X(k) \in Q
  BY <1>3, ContentIs, WithinIs, Zenon
<1>5. \A k \in 1 .. m : Decode(PacketAt(f, PacketStart(ps, k))) = Content(ps[k])
  BY <1>1, <1>3, PacketRead, Zenon
<1>6. \A k \in 1 .. m : Y(k) = X(k)
  BY <1>1, <1>5, Zenon
<1>7. \A k \in 1 .. m : k <= a \/ ~(k <= b) => X(k) = <<>>
  BY Zenon
<1>8. Within(Concat(Contents(ps, m)), {id}, t0, t1) = Concat(xs)
  <2>1. PacketByPacket(ps, m, {id}, t0, t1)
    BY <1>1, LoggedWithin, Zenon
  <2>. QED BY <2>1, Zenon DEF PacketByPacket
<1>9. SeriesOf(f, id, t0, t1, a, b) = Concat([k \in 1 .. b - a |-> Y(a + k)])
  BY Zenon DEF SeriesOf
<1>. HIDE DEF X, Y
<1>10. \A k \in 1 .. b - a : a + k \in 1 .. m
  BY <1>2
<1>11. [k \in 1 .. b - a |-> Y(a + k)] = Trimmed(xs, a, b)
  BY <1>6, <1>10, Zenon DEF Trimmed
<1>12. xs \in Seq(Q) /\ Len(xs) = m
  <2>. HIDE DEF Q
  <2>. QED BY <1>2, <1>4
<1>13. \A k \in 1 .. m : xs[k] = X(k)
  BY Zenon
<1>14. \A k \in 1 .. Len(xs) : k <= a \/ ~(k <= b) => xs[k] = <<>>
  <2>. HIDE DEF xs
  <2>. QED BY <1>7, <1>12, <1>13, Zenon
<1>15. b <= Len(xs)
  <2>. HIDE DEF xs
  <2>. QED BY <1>12, Zenon
<1>16. Concat(Trimmed(xs, a, b)) = Concat(xs)
  <2>. HIDE DEF xs
  <2>. QED BY <1>12, <1>14, <1>15, ConcatTrimmed, Zenon
<1>. HIDE DEF xs
<1>. QED BY <1>8, <1>9, <1>11, <1>16, Zenon DEF SeriesGives

\* Without an index the native Capture lists what a scan finds.
LEMMA ScanListed ==
  ASSUME NEW ps \in Seq(Packet), NEW f \in Seq(Nat), NEW m, Standing(f, Len(f), ps, m), ~FooterOK(f)
  PROVE Listed(f, ps, m)
<1>. DEFINE s == Scan(f, Len(f))
            mn(k) == TsRange(Decode(PacketAt(f, s[k]))).min
            mx(k) == TsRange(Decode(PacketAt(f, s[k]))).max
            nn(k) == Len(Decode(PacketAt(f, s[k])))
            e(k) == [offset |-> s[k], min |-> mn(k), max |-> mx(k), n |-> nn(k)]
            N == NativeIndex(f)
<1>1. m \in 0 .. Len(ps) /\ \A k \in 1 .. m : At(f, PacketStart(ps, k), PacketWords(ps[k]))
  BY Zenon DEF Standing
<1>2. s = StartsOf(ps, m)
  BY ScanFinds, Zenon
<1>3. N = [k \in DOMAIN s |-> e(k)]
  BY Zenon DEF NativeIndex
<1>. HIDE DEF s
<1>4. DOMAIN s = 1 .. m /\ \A k \in 1 .. m : s[k] = PacketStart(ps, k)
  BY <1>2, Zenon DEF StartsOf
<1>5. ASSUME NEW k PROVE e(k).offset = s[k]
  OBVIOUS
<1>. HIDE DEF e, N
<1>6. N = [k \in 1 .. m |-> e(k)]
  BY <1>3, <1>4, Zenon
<1>7. Len(N) = m
  <2>1. m \in Nat
    BY <1>1
  <2>. QED BY <1>6, <2>1
<1>8. \A k \in 1 .. m : N[k].offset = PacketStart(ps, k)
  BY <1>4, <1>5, <1>6, Zenon
<1>. QED BY <1>1, <1>7, <1>8, Zenon DEF Listed, N

\* CrashKeepsWholePackets: after a crash before the index is written, both scans find
\* exactly the packets that are whole in the file, and each flushed packet is one.
THEOREM FileKeepsWholePackets == Spec => []CrashKeepsWholePackets
<1>1. FileInv /\ Given => CrashKeepsWholePackets
  <2>. DEFINE n == Len(written)
              N == EndOf(n)
              T == {k \in 0 .. n : EndOf(k) <= Len(file)}
              m == Survivors
  <2>. SUFFICES ASSUME FileInv, Given, mode = "crashed", Opens(file), Len(file) <= N
                PROVE /\ Sequential(file, Ids) = Logged(m)
                      /\ \A id \in Ids : Series(file, id, NoTime, NoTime) = Within(Logged(m), {id}, NoTime, NoTime)
                      /\ \A k \in 0 .. n : EndOf(k) <= flushed => k <= m
    BY Zenon DEF CrashKeepsWholePackets
  <2>1. written \in Seq(Packet) /\ written \in Seq(Packets) /\ flushed \in Nat
    BY Zenon DEF FileInv, Given
  <2>2. PICK c \in flushed .. Len(ClosedFile(written)) : file = SubSeq(ClosedFile(written), 1, c)
    BY Zenon DEF FileInv
  <2>3. /\ ClosedFile(written) \in Seq(Nat) /\ Len(ClosedFile(written)) \in Nat
        /\ DataStart \in Nat /\ DataStart <= Len(file)
    BY <2>1, ClosedParts, PreambleIs, Zenon DEF Opens
  <2>4. c \in Nat /\ flushed <= c /\ Len(file) = c
    <3>. DEFINE F == ClosedFile(written)
    <3>1. F \in Seq(Nat) /\ Len(F) \in Nat /\ c \in flushed .. Len(F) /\ file = SubSeq(F, 1, c) /\ flushed \in Nat
      BY <2>1, <2>2, <2>3, Zenon
    <3>. HIDE DEF F
    <3>2. c \in Nat /\ flushed <= c /\ c <= Len(F)
      BY <3>1
    <3>3. Len(file) = c
      BY <3>1, <3>2
    <3>. QED BY <3>2, <3>3, Zenon
  <2>5. DataStart <= c
    BY <2>3, <2>4, Zenon
  <2>6. Cut(file, written, c)
    <3>1. c <= PacketStart(written, Len(written) + 1)
      BY <2>4, Zenon DEF EndOf
    <3>. QED BY <2>2, <2>4, <2>5, <3>1, Zenon DEF Cut
  <2>7. n \in Nat /\ \A k \in 0 .. n : k \in Nat /\ (k # n => k + 1 \in 0 .. n /\ k < n)
    BY <2>1
  <2>8. 0 \in T
    <3>1. EndOf(0) = DataStart /\ 0 \in 0 .. n
      <4>1. 0 + 1 = 1 /\ 0 \in 0 .. n
        BY <2>7
      <4>. QED BY <2>1, <4>1, FirstStart, Zenon DEF EndOf
    <3>. QED BY <2>3, <3>1, Zenon
  <2>9. m \in T /\ \A k \in T : k <= m
    <3>1. m = Max(T)
      BY Zenon DEF Survivors
    <3>2. T \in SUBSET (0 .. n)
      BY Zenon
    <3>. HIDE DEF T, m, n
    <3>3. Max(T) \in T /\ \A k \in T : k <= Max(T)
      BY <2>7, <2>8, <3>2, Greatest, Zenon
    <3>. QED BY <3>1, <3>3, Zenon
  <2>10. m \in 0 .. n /\ PacketStart(written, m + 1) <= c
    BY <2>4, <2>9, Zenon DEF EndOf
  <2>11. m < n => ~(PacketStart(written, (m + 1) + 1) <= c)
    <3>. SUFFICES ASSUME m < n, PacketStart(written, (m + 1) + 1) <= c PROVE FALSE
      BY Zenon
    <3>. DEFINE i == Survivors
    <3>1. i \in 0 .. n /\ i < n
      BY <2>10, Zenon
    <3>. HIDE DEF i, n
    <3>2. i + 1 \in 0 .. n /\ ~(i + 1 <= i)
      BY <2>7, <3>1
    <3>3. i + 1 \in T
      BY <2>4, <3>2, Zenon DEF EndOf, i
    <3>. QED BY <2>9, <3>2, <3>3, Zenon DEF i
  <2>. HIDE DEF m
  <2>12. Standing(file, c, written, m)
    BY <2>1, <2>6, <2>10, <2>11, CutStanding, Zenon
  <2>13. ~FooterOK(file) /\ file \in Seq(Nat)
    BY <2>1, <2>6, CutNoFooter, CutWords, Zenon
  <2>14. Logged(m) = Concat(Contents(written, m))
    BY Zenon DEF Logged, Contents
  <2>15. Sequential(file, Ids) = Logged(m)
    <3>1. Standing(file, IF FooterOK(file) THEN FooterOffset(file) ELSE Len(file), written, m)
      BY <2>4, <2>12, <2>13, Zenon
    <3>2. Sequential(file, Ids) = Within(Concat(Contents(written, m)), Ids, NoTime, NoTime)
      BY <2>1, <2>13, <3>1, SequentialReads, Zenon
    <3>3. Within(Concat(Contents(written, m)), Ids, NoTime, NoTime) = Concat(Contents(written, m))
      BY <2>1, <2>10, IdsKeepAll, Zenon
    <3>. QED BY <2>14, <3>2, <3>3, Zenon
  <2>16. ASSUME NEW id \in Ids
         PROVE Series(file, id, NoTime, NoTime) = Within(Logged(m), {id}, NoTime, NoTime)
    <3>1. Listed(file, written, m)
      BY <2>1, <2>4, <2>12, <2>13, ScanListed, Zenon
    <3>2. FirstRead(file, NoTime) = 0
      BY Zenon DEF FirstRead
    <3>3. LastRead(file, NoTime, NoTime) = m
      <4>1. Later(file, NoTime, NoTime) = {}
        BY Zenon DEF Later
      <4>. QED BY <3>1, <4>1, Zenon DEF LastRead, Listed
    <3>4. m \in Nat /\ 0 \in Nat /\ 0 <= m /\ m <= m /\ \A k \in 1 .. m : ~(k <= 0) /\ k <= m
      BY <2>10
    <3>5. SeriesGives(file, written, m, id, NoTime, NoTime, 0, m)
      BY <2>1, <2>13, <3>1, <3>4, SeriesReads, Zenon
    <3>6. Series(file, id, NoTime, NoTime) = SeriesOf(file, id, NoTime, NoTime, 0, m)
      BY <3>2, <3>3, SeriesIs, Zenon
    <3>. QED BY <2>14, <3>5, <3>6, Zenon DEF SeriesGives
  <2>17. ASSUME NEW k \in 0 .. n, EndOf(k) <= flushed PROVE k <= m
    <3>. DEFINE e == EndOf(k)
    <3>1. e \in Nat
      <4>1. k + 1 \in 1 .. Len(written) + 1
        BY <2>7
      <4>2. e = DataStart + Before(Words(written), k + 1) /\ Before(Words(written), k + 1) \in Nat
        BY <2>1, <4>1, StartIs, Zenon DEF EndOf
      <4>. DEFINE w == Before(Words(written), k + 1)
      <4>. HIDE DEF e, w
      <4>3. e = DataStart + w /\ w \in Nat
        BY <4>2, Zenon DEF w
      <4>. QED BY <2>3, <4>3
    <3>2. e <= flushed
      BY <2>17, Zenon
    <3>. HIDE DEF e
    <3>3. e <= c
      BY <2>1, <2>4, <3>1, <3>2
    <3>4. k \in T
      BY <2>4, <3>3, Zenon DEF e
    <3>. QED BY <2>9, <3>4, Zenon
  <2>. QED BY <2>15, <2>16, <2>17, Zenon
<1>. QED BY <1>1, FileInvariant, GivenPackets, PTL

\* A set of naturals has a least element.
LEMMA Least ==
  ASSUME NEW T \in SUBSET Nat, NEW y \in T
  PROVE Min(T) \in T /\ \A z \in T : Min(T) <= z
<1>. DEFINE Low(m) == m \in T /\ \A z \in T : m <= z
            H == {d \in Nat : (\E z \in T : z <= d) => \E m : Low(m)}
<1>1. \A z \in T : z \in Nat
  OBVIOUS
<1>2. 0 \in H
  <2>1. ASSUME NEW x \in T, x <= 0 PROVE Low(x)
    <3>1. x = 0
      BY <1>1, <2>1
    <3>2. \A z \in T : 0 <= z
      BY <1>1
    <3>. QED BY <3>1, <3>2, Zenon
  <2>2. 0 \in Nat
    OBVIOUS
  <2>. HIDE DEF Low
  <2>. QED BY <2>1, <2>2, Zenon
<1>3. ASSUME NEW d \in Nat, d \in H PROVE d + 1 \in H
  <2>1. d + 1 \in Nat
    OBVIOUS
  <2>. SUFFICES ASSUME NEW x \in T, x <= d + 1 PROVE \E m : Low(m)
    <3>. HIDE DEF Low
    <3>. QED BY <2>1, Zenon
  <2>2. CASE \E z \in T : z <= d
    <3>. HIDE DEF Low
    <3>. QED BY <1>3, <2>2, Zenon
  <2>3. CASE \A z \in T : ~(z <= d)
    <3>1. \A z \in T : x <= z
      <4>. TAKE z \in T
      <4>1. z \in Nat /\ x \in Nat /\ ~(z <= d)
        BY <1>1, <2>3, Zenon
      <4>. QED BY <4>1
    <3>2. Low(x)
      BY <3>1, Zenon
    <3>. HIDE DEF Low
    <3>. QED BY <3>2, Zenon
  <2>. QED BY <2>2, <2>3, Zenon
<1>4. \A d \in Nat : d \in H
  <2>. HIDE DEF H
  <2>. QED BY <1>2, <1>3, SetInduction, Zenon
<1>5. y \in Nat /\ y <= y
  BY <1>1
<1>6. PICK m : Low(m)
  <2>. HIDE DEF Low
  <2>. QED BY <1>4, <1>5, Zenon
<1>7. Min(T) \in T /\ \A z \in T : Min(T) <= z
  BY <1>6, Zenon DEF Min
<1>. QED BY <1>7, Zenon

\* The index of a closed file, as the native Capture reads it.
LEMMA ClosedListed ==
  ASSUME NEW ps \in Seq(Packet), NEW f, InClosed(f, ps)
  PROVE NativeIndex(f) = [k \in 1 .. Len(ps) |-> RustEntry(ps, k)] /\ Listed(f, ps, Len(ps))
<1>. DEFINE n == Len(ps)
            N == NativeIndex(f)
            e(k) == RustEntry(ps, k)
<1>1. n \in Nat /\ n \in 0 .. Len(ps)
  OBVIOUS
<1>2. FooterOK(f) /\ FooterCount(f) = n
  BY FooterRead, Zenon
<1>3. \A k \in 1 .. n : IndexEntry(f, k) = e(k)
  BY IndexRead, Zenon
<1>4. N = [k \in 1 .. n |-> e(k)]
  BY <1>2, <1>3, Zenon DEF NativeIndex
<1>5. ASSUME NEW k PROVE e(k).offset = PacketStart(ps, k)
  BY DEF RustEntry
<1>. HIDE DEF e, N
<1>6. Len(N) = n
  BY <1>1, <1>4
<1>7. \A k \in 1 .. n : N[k].offset = PacketStart(ps, k)
  BY <1>4, <1>5, Zenon
<1>8. \A k \in 1 .. n : At(f, PacketStart(ps, k), PacketWords(ps[k]))
  BY Zenon DEF InClosed
<1>. QED BY <1>1, <1>4, <1>6, <1>7, <1>8, Zenon DEF Listed, N, e

\* The packets ps are in time order.
InOrder(ps) ==
  \A i, j \in 1 .. Len(ps) : i < j => /\ RustEntry(ps, i).min <= RustEntry(ps, j).min
                                      /\ RustEntry(ps, i).max <= RustEntry(ps, j).max

\* The times of an index entry.
LEMMA EntryTimes ==
  ASSUME NEW ps \in Seq(Packet), NEW k \in 1 .. Len(ps)
  PROVE RustEntry(ps, k).min \in Nat /\ RustEntry(ps, k).max \in Nat
<1>1. RustEntry(ps, k).min = TsRange(ps[k]).min /\ RustEntry(ps, k).max = TsRange(ps[k]).max
  BY DEF RustEntry
<1>2. ps[k] \in Packet
  OBVIOUS
<1>. QED BY <1>1, <1>2, PacketSpans, Zenon DEF Spans

\* The packets before the lower bound end before t0, if the packets are in time order.
LEMMA SkippedEarly ==
  ASSUME NEW ps \in Seq(Packet), NEW f, InClosed(f, ps), InOrder(ps), NEW t0 \in Bound
  PROVE /\ FirstRead(f, t0) \in 0 .. Len(ps)
        /\ \A k \in 1 .. Len(ps) : k <= FirstRead(f, t0) => t0 # NoTime /\ RustEntry(ps, k).max < t0
<1>. DEFINE n == Len(ps)
            N == NativeIndex(f)
            a == FirstRead(f, t0)
            x(k) == RustEntry(ps, k).max
            yes == {k \in DOMAIN N : N[k].max < t0}
<1>1. n \in Nat /\ 0 \in 0 .. n /\ \A k \in 1 .. n : ~(k <= 0)
  OBVIOUS
<1>2. N = [k \in 1 .. n |-> RustEntry(ps, k)] /\ Len(N) = n
  BY ClosedListed, Zenon DEF Listed
<1>3. CASE t0 = NoTime
  <2>1. a = 0
    BY <1>3, Zenon DEF FirstRead
  <2>. QED BY <1>1, <2>1, Zenon
<1>4. CASE t0 # NoTime
  <2>1. t0 \in Nat
    BY <1>4, Zenon DEF Bound
  <2>2. a = PartitionPoint(n, yes)
    BY <1>2, <1>4, Zenon DEF FirstRead, LowerBound
  <2>3. \A k \in yes : k \in 1 .. n /\ x(k) < t0
    BY <1>2, Zenon
  <2>. HIDE DEF yes, a
  <2>4. a \in 0 .. n /\ (a = 0 \/ a \in yes)
    BY <1>1, <2>2, PartitionPointAt, Zenon
  <2>5. ASSUME NEW k \in 1 .. n, k <= a PROVE x(k) < t0
    <3>1. a # 0
      BY <1>1, <2>5, Zenon
    <3>2. a \in 1 .. n /\ x(a) < t0
      BY <2>3, <2>4, <3>1, Zenon
    <3>3. x(k) \in Nat /\ x(a) \in Nat
      BY <3>2, EntryTimes, Zenon
    <3>4. k = a \/ k < a
      BY <2>4, <2>5
    <3>5. k < a => x(k) <= x(a)
      BY <3>2, Zenon DEF InOrder
    <3>6. CASE k = a
      BY <3>2, <3>6, Zenon
    <3>7. CASE k < a
      <4>. DEFINE u == x(k)
                  v == x(a)
      <4>1. u \in Nat /\ v \in Nat /\ u <= v /\ v < t0
        BY <3>2, <3>3, <3>5, <3>7, Zenon
      <4>. HIDE DEF u, v
      <4>2. u < t0
        BY <2>1, <4>1
      <4>. QED BY <4>2, Zenon DEF u
    <3>. QED BY <3>4, <3>6, <3>7, Zenon
  <2>. QED BY <1>4, <2>4, <2>5, Zenon DEF a
<1>. QED BY <1>3, <1>4, Zenon

\* The packets after the early break begin after t1, if the packets are in time order.
LEMMA SkippedLate ==
  ASSUME NEW ps \in Seq(Packet), NEW f, InClosed(f, ps), InOrder(ps), NEW t0, NEW t1 \in Bound,
         FirstRead(f, t0) \in 0 .. Len(ps)
  PROVE /\ LastRead(f, t0, t1) \in FirstRead(f, t0) .. Len(ps)
        /\ \A k \in 1 .. Len(ps) : ~(k <= LastRead(f, t0, t1)) => t1 # NoTime /\ RustEntry(ps, k).min > t1
<1>. DEFINE n == Len(ps)
            N == NativeIndex(f)
            a == FirstRead(f, t0)
            b == LastRead(f, t0, t1)
            L == Later(f, t0, t1)
            x(k) == RustEntry(ps, k).min
<1>1. n \in Nat /\ a \in 0 .. n /\ \A k \in 1 .. n : k <= n
  OBVIOUS
<1>2. N = [k \in 1 .. n |-> RustEntry(ps, k)] /\ Len(N) = n
  BY ClosedListed, Zenon DEF Listed
<1>3. CASE L = {}
  <2>1. b = n
    BY <1>2, <1>3, Zenon DEF LastRead
  <2>2. n \in a .. n
    <3>. HIDE DEF a
    <3>. QED BY <1>1
  <2>. QED BY <1>1, <2>1, <2>2, Zenon
<1>4. CASE L # {}
  <2>1. L \in SUBSET (a + 1 .. n)
    BY <1>2, Zenon DEF Later
  <2>. HIDE DEF a
  <2>2. ASSUME NEW k \in L PROVE k \in Nat /\ k \in 1 .. n
    <3>1. k \in a + 1 .. n
      BY <2>1, Zenon
    <3>. QED BY <1>1, <3>1
  <2>3. \A k \in L : t1 # NoTime /\ x(k) > t1
    <3>1. \A k \in L : t1 # NoTime /\ N[k].min > t1
      BY Zenon DEF Later
    <3>2. \A k \in L : N[k] = RustEntry(ps, k)
      BY <1>2, <2>2, Zenon
    <3>. QED BY <3>1, <3>2, Zenon
  <2>4. b = Min(L) - 1
    BY <1>4, Zenon DEF LastRead
  <2>. HIDE DEF L
  <2>. DEFINE q == Min(L)
  <2>5. q \in L
    <3>1. PICK y : y \in L
      BY <1>4, Zenon
    <3>2. L \in SUBSET Nat
      BY <2>2, Zenon
    <3>. QED BY <3>1, <3>2, Least, Zenon
  <2>6. q \in a + 1 .. n /\ q \in 1 .. n /\ t1 # NoTime /\ x(q) > t1
    BY <2>1, <2>2, <2>3, <2>5, Zenon
  <2>7. b = q - 1
    BY <2>4, Zenon
  <2>. HIDE DEF q, b
  <2>8. b \in a .. n
    BY <1>1, <2>6, <2>7
  <2>9. ASSUME NEW k \in 1 .. n, ~(k <= b) PROVE x(k) > t1
    <3>1. k = q \/ q < k
      BY <2>6, <2>7, <2>9
    <3>2. q < k => x(q) <= x(k)
      BY <2>6, Zenon DEF InOrder
    <3>3. CASE k = q
      BY <2>6, <3>3, Zenon
    <3>4. CASE q < k
      <4>. DEFINE u == x(q)
                  v == x(k)
      <4>1. u \in Nat /\ v \in Nat
        BY <2>6, EntryTimes, Zenon
      <4>2. u <= v /\ u > t1 /\ t1 \in Nat
        BY <2>6, <3>2, <3>4, Zenon DEF Bound
      <4>. HIDE DEF u, v
      <4>3. v > t1
        BY <4>1, <4>2
      <4>. QED BY <4>3, Zenon DEF v
    <3>. QED BY <3>1, <3>3, <3>4, Zenon
  <2>. QED BY <2>6, <2>8, <2>9, Zenon DEF b, a
<1>. QED BY <1>3, <1>4, Zenon

\* SeriesExactIfSorted: if the packets of a closed file are in time order, the binary
\* search and the early break of the native Capture lose no entry and add none.
THEOREM FileSeriesExact == Spec => []SeriesExactIfSorted
<1>1. FileInv => SeriesExactIfSorted
  <2>. SUFFICES ASSUME FileInv, mode = "closed", Sorted, NEW id \in Ids, NEW t0 \in Bounds, NEW t1 \in Bounds
                PROVE Series(file, id, t0, t1) = Within(Logged(Len(written)), {id}, t0, t1)
    BY Zenon DEF SeriesExactIfSorted, SeriesExactFor
  <2>. DEFINE n == Len(written)
              e(k) == RustEntry(written, k)
              a == FirstRead(file, t0)
              b == LastRead(file, t0, t1)
  <2>1. written \in Seq(Packet) /\ file = ClosedFile(written) /\ index = [k \in 1 .. n |-> e(k)]
    BY Zenon DEF FileInv
  <2>2. InClosed(file, written)
    BY <2>1, ClosedLaid, Zenon
  <2>3. file \in Seq(Nat)
    BY <2>2, Zenon DEF InClosed
  <2>4. Logged(n) = Concat(Contents(written, n))
    BY Zenon DEF Logged, Contents
  <2>5. t0 \in Bound /\ t1 \in Bound
    BY FileAssumption, Zenon DEF Bounds, Bound
  <2>6. InOrder(written)
    <3>1. DOMAIN index = 1 .. n /\ \A k \in 1 .. n : index[k] = e(k)
      BY <2>1, Zenon
    <3>2. \A i, j \in 1 .. n : i < j => index[i].min <= index[j].min /\ index[i].max <= index[j].max
      BY <3>1, Zenon DEF Sorted
    <3>. QED BY <3>1, <3>2, Zenon DEF InOrder
  <2>7. a \in 0 .. n /\ \A k \in 1 .. n : k <= a => t0 # NoTime /\ e(k).max < t0
    BY <2>1, <2>2, <2>5, <2>6, SkippedEarly, Zenon
  <2>8. b \in a .. n /\ \A k \in 1 .. n : ~(k <= b) => t1 # NoTime /\ e(k).min > t1
    BY <2>1, <2>2, <2>5, <2>6, <2>7, SkippedLate, Zenon
  <2>9. \A k \in 1 .. n : k <= a \/ ~(k <= b) => Outside(e(k), t0, t1)
    BY <2>7, <2>8, Zenon DEF Outside
  <2>10. \A k \in 1 .. n : k <= a \/ ~(k <= b) => Within(Content(written[k]), {id}, t0, t1) = <<>>
    BY <2>1, <2>5, <2>9, OutsideGivesNothing, Zenon
  <2>11. Series(file, id, t0, t1) = SeriesOf(file, id, t0, t1, a, b)
    BY SeriesIs, Zenon
  <2>12. Listed(file, written, n)
    BY <2>1, <2>2, ClosedListed, Zenon
  <2>13. n \in Nat /\ a \in Nat /\ b \in Nat /\ a <= b /\ b <= n
    <3>1. n \in Nat
      BY <2>1
    <3>. HIDE DEF n, a, b
    <3>. QED BY <2>7, <2>8, <3>1
  <2>. HIDE DEF a, b
  <2>14. SeriesGives(file, written, n, id, t0, t1, a, b)
    BY <2>1, <2>3, <2>10, <2>12, <2>13, SeriesReads, Zenon
  <2>. QED BY <2>4, <2>11, <2>14, Zenon DEF SeriesGives
<1>. QED BY <1>1, FileInvariant, PTL
=============================================================================
