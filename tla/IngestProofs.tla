---------------------------- MODULE IngestProofs ----------------------------
(***************************************************************************)
(* The capture ring keeps its accounts and its schema, and, as long as     *)
(* nobody clears a live source, samples reach their own channels and what  *)
(* is captured can be saved: for any schemas, packet sizes and budget.     *)
(***************************************************************************)
EXTENDS Ingest, RetainProofs

-----------------------------------------------------------------------------
(* Sums of packet sizes *)

\* A packet of a sequence of packets has a size.
LEMMA PacketSize ==
  ASSUME NEW q \in Seq(Packets), NEW i \in 1 .. Len(q)
  PROVE q[i] \in Packets /\ q[i].size \in Nat
<1>1. q[i] \in Packets
  BY ElementOfSeq, Zenon
<1>. QED BY <1>1, IngestAssumption, Zenon DEF Packets

\* The running sums of the sizes exist, and Bytes is the last of them.
LEMMA BytesSum ==
  ASSUME NEW q \in Seq(Packets)
  PROVE \E f \in [0 .. Len(q) -> Nat] :
          /\ f[0] = 0 /\ \A i \in 1 .. Len(q) : f[i] = f[i - 1] + q[i].size
          /\ Bytes(q) = f[Len(q)]
<1>. DEFINE Sums(n, f) == f = [i \in 0 .. n |-> IF i = 0 THEN 0 ELSE f[i - 1] + q[i].size]
            S == {n \in Nat : \E f : Sums(n, f)}
<1>1. Len(q) \in Nat /\ \A i \in 1 .. Len(q) : q[i].size \in Nat
  BY LenProperties, PacketSize, Zenon
<1>2. 0 \in S
  <2>1. Sums(0, [i \in 0 .. 0 |-> 0])
    OBVIOUS
  <2>. QED BY <2>1, Zenon
<1>3. ASSUME NEW n \in Nat, n \in S PROVE n + 1 \in S
  <2>1. PICK f : Sums(n, f)
    BY <1>3, Zenon
  <2>. DEFINE g == [i \in 0 .. n + 1 |-> IF i <= n THEN f[i] ELSE f[n] + q[n + 1].size]
  <2>2. Sums(n + 1, g)
    <3>. SUFFICES ASSUME NEW i \in 0 .. n + 1
                  PROVE g[i] = IF i = 0 THEN 0 ELSE g[i - 1] + q[i].size
      BY Zenon
    <3>1. CASE i = 0
      BY <2>1, <3>1
    <3>2. CASE i \in 1 .. n
      <4>1. g[i] = f[i] /\ g[i - 1] = f[i - 1]
        BY <3>2
      <4>. QED BY <2>1, <3>2, <4>1
    <3>3. CASE i = n + 1
      BY <3>3
    <3>. QED BY <3>1, <3>2, <3>3
  <2>. HIDE DEF Sums, g
  <2>. QED BY <2>2
<1>4. \E f : Sums(Len(q), f)
  <2>. HIDE DEF Sums
  <2>1. Len(q) \in S
    <3>. HIDE DEF S
    <3>. QED BY <1>1, <1>2, <1>3, SetInduction, Zenon
  <2>. QED BY <2>1, Zenon
<1>. DEFINE F == CHOOSE f : Sums(Len(q), f)
<1>5. Sums(Len(q), F)
  <2>. HIDE DEF Sums
  <2>. QED BY <1>4, Zenon
<1>6. Bytes(q) = F[Len(q)]
  BY Zenon DEF Bytes
<1>. HIDE DEF F
<1>7. /\ F[0] = 0 /\ \A i \in 1 .. Len(q) : F[i] = F[i - 1] + q[i].size
      /\ DOMAIN F = 0 .. Len(q) /\ F = [i \in 0 .. Len(q) |-> F[i]]
  BY <1>1, <1>5
<1>8. \A i \in 0 .. Len(q) : F[i] \in Nat
  <2>. DEFINE T == {n \in Nat : n <= Len(q) => F[n] \in Nat}
  <2>1. 0 \in T
    BY <1>7
  <2>2. ASSUME NEW n \in Nat, n \in T PROVE n + 1 \in T
    <3>. SUFFICES ASSUME n + 1 <= Len(q) PROVE F[n + 1] \in Nat
      OBVIOUS
    <3>1. F[n] \in Nat /\ n + 1 \in 1 .. Len(q) /\ (n + 1) - 1 = n
      BY <1>1, <2>2
    <3>2. F[n + 1] = F[n] + q[n + 1].size
      BY <1>7, <3>1, Zenon
    <3>. QED BY <1>1, <3>1, <3>2
  <2>3. \A n \in Nat : n \in T
    <3>. HIDE DEF T
    <3>. QED BY <2>1, <2>2, SetInduction, Zenon
  <2>. QED BY <1>1, <2>3
<1>. QED BY <1>6, <1>7, <1>8, Zenon

\* They are the only running sums.
LEMMA BytesIs ==
  ASSUME NEW q \in Seq(Packets), NEW g, g[0] = 0,
         \A i \in 1 .. Len(q) : g[i] = g[i - 1] + q[i].size
  PROVE Bytes(q) = g[Len(q)]
<1>1. PICK f \in [0 .. Len(q) -> Nat] :
          /\ f[0] = 0 /\ \A i \in 1 .. Len(q) : f[i] = f[i - 1] + q[i].size
          /\ Bytes(q) = f[Len(q)]
  BY BytesSum, Zenon
<1>2. Len(q) \in Nat
  OBVIOUS
<1>. DEFINE T == {n \in Nat : n <= Len(q) => f[n] = g[n]}
<1>3. 0 \in T
  BY <1>1, Zenon
<1>4. ASSUME NEW n \in Nat, n \in T PROVE n + 1 \in T
  <2>. SUFFICES ASSUME n + 1 <= Len(q) PROVE f[n + 1] = g[n + 1]
    OBVIOUS
  <2>1. n + 1 \in 1 .. Len(q) /\ (n + 1) - 1 = n /\ f[n] = g[n]
    BY <1>2, <1>4
  <2>2. f[n + 1] = f[n] + q[n + 1].size /\ g[n + 1] = g[n] + q[n + 1].size
    BY <1>1, <2>1, Zenon
  <2>. QED BY <2>1, <2>2, Zenon
<1>5. \A n \in Nat : n \in T
  <2>. HIDE DEF T
  <2>. QED BY <1>3, <1>4, SetInduction, Zenon
<1>. QED BY <1>1, <1>2, <1>5

\* No packets, no bytes.
LEMMA BytesEmpty == Bytes(<<>>) = 0
<1>1. <<>> \in Seq(Packets) /\ Len(<<>>) = 0
  OBVIOUS
<1>. QED BY <1>1, BytesSum, Zenon

\* A packet more.
LEMMA BytesAppend ==
  ASSUME NEW q \in Seq(Packets), NEW p \in Packets
  PROVE Bytes(Append(q, p)) = Bytes(q) + p.size
<1>1. PICK f \in [0 .. Len(q) -> Nat] :
          /\ f[0] = 0 /\ \A i \in 1 .. Len(q) : f[i] = f[i - 1] + q[i].size
          /\ Bytes(q) = f[Len(q)]
  BY BytesSum, Zenon
<1>. DEFINE r == Append(q, p)
            g == [i \in 0 .. Len(q) + 1 |-> IF i <= Len(q) THEN f[i] ELSE f[Len(q)] + p.size]
<1>2. /\ r \in Seq(Packets) /\ Len(r) = Len(q) + 1 /\ Len(q) \in Nat
      /\ r[Len(q) + 1] = p /\ \A i \in 1 .. Len(q) : r[i] = q[i]
  OBVIOUS
<1>. HIDE DEF r
<1>3. ASSUME NEW i \in 1 .. Len(r) PROVE g[i] = g[i - 1] + r[i].size
  <2>1. CASE i <= Len(q)
    <3>1. g[i] = f[i] /\ g[i - 1] = f[i - 1] /\ i \in 1 .. Len(q)
      BY <1>2, <2>1
    <3>. QED BY <1>1, <1>2, <3>1, Zenon
  <2>2. CASE i = Len(q) + 1
    BY <1>2, <2>2
  <2>. QED BY <1>2, <2>1, <2>2
<1>4. g[0] = 0 /\ g[Len(r)] = f[Len(q)] + p.size
  BY <1>1, <1>2
<1>. HIDE DEF g
<1>5. Bytes(r) = g[Len(r)]
  BY <1>2, <1>3, <1>4, BytesIs, Zenon
<1>. QED BY <1>1, <1>4, <1>5, Zenon DEF r

\* The packets before a place and those behind it.
LEMMA BytesSplit ==
  ASSUME NEW q \in Seq(Packets), NEW k \in 0 .. Len(q)
  PROVE /\ Bytes(q) = Bytes(SubSeq(q, 1, k)) + Bytes(SubSeq(q, k + 1, Len(q)))
        /\ Bytes(SubSeq(q, 1, k)) \in Nat /\ Bytes(SubSeq(q, k + 1, Len(q))) \in Nat
<1>1. PICK f \in [0 .. Len(q) -> Nat] :
          /\ f[0] = 0 /\ \A i \in 1 .. Len(q) : f[i] = f[i - 1] + q[i].size
          /\ Bytes(q) = f[Len(q)]
  BY BytesSum, Zenon
<1>2. Len(q) \in Nat /\ k \in Nat /\ k <= Len(q)
  OBVIOUS
<1>3. \A i \in 1 .. Len(q) : q[i] \in Packets /\ q[i].size \in Nat
  BY PacketSize, Zenon
<1>. DEFINE a == SubSeq(q, 1, k)
            b == SubSeq(q, k + 1, Len(q))
<1>4. /\ a \in Seq(Packets) /\ Len(a) = k /\ \A i \in 1 .. k : a[i] = q[i]
      /\ b \in Seq(Packets) /\ Len(b) = Len(q) - k
      /\ \A i \in 1 .. Len(q) - k : b[i] = q[k + i]
  BY <1>2, <1>3
<1>. HIDE DEF a, b
<1>5. Bytes(a) = f[k]
  <2>1. \A i \in 1 .. Len(a) : f[i] = f[i - 1] + a[i].size
    BY <1>1, <1>2, <1>4
  <2>. QED BY <1>1, <1>4, <2>1, BytesIs, Zenon
<1>. DEFINE g == [i \in 0 .. Len(q) - k |-> f[k + i] - f[k]]
<1>6. g[0] = 0
  BY <1>1, <1>2
<1>7. ASSUME NEW i \in 1 .. Len(b) PROVE g[i] = g[i - 1] + b[i].size
  <2>1. /\ i \in 0 .. Len(q) - k /\ i - 1 \in 0 .. Len(q) - k /\ k + (i - 1) = (k + i) - 1
        /\ k + i \in 1 .. Len(q) /\ (k + i) - 1 \in 0 .. Len(q) /\ k \in 0 .. Len(q)
        /\ i \in 1 .. Len(q) - k
    BY <1>2, <1>4
  <2>2. g[i] = f[k + i] - f[k] /\ g[i - 1] = f[k + (i - 1)] - f[k]
    BY <2>1, Zenon
  <2>. HIDE DEF g
  <2>3. g[i - 1] = f[(k + i) - 1] - f[k]
    BY <2>1, <2>2, Zenon
  <2>4. b[i] = q[k + i]
    BY <1>4, <2>1, Zenon
  <2>5. f[k] \in Nat /\ f[k + i] \in Nat /\ f[(k + i) - 1] \in Nat
    BY <2>1, SMTT(30)
  <2>6. f[k + i] = f[(k + i) - 1] + q[k + i].size
    BY <1>1, <2>1, Zenon
  <2>7. b[i].size \in Nat
    BY <1>3, <2>1, <2>4, Zenon
  <2>8. PICK x \in Nat, y \in Nat, z \in Nat, w \in Nat :
          x = f[k + i] /\ y = f[(k + i) - 1] /\ z = f[k] /\ w = b[i].size
    BY <2>7, <2>5, Zenon
  <2>9. x = y + w /\ g[i] = x - z /\ g[i - 1] = y - z
    BY <2>6, <2>2, <2>3, <2>4, <2>8, Zenon
  <2>10. g[i] = g[i - 1] + w
    BY <2>9
  <2>. QED BY <2>8, <2>10, Zenon
<1>8. g[Len(b)] = f[Len(q)] - f[k]
  BY <1>2, <1>4
<1>. HIDE DEF g
<1>9. Bytes(b) = f[Len(q)] - f[k]
  BY <1>4, <1>6, <1>7, <1>8, BytesIs, Zenon
<1>10. Bytes(b) \in Nat
  <2>1. PICK h \in [0 .. Len(b) -> Nat] : Bytes(b) = h[Len(b)]
    BY <1>4, BytesSum, Zenon
  <2>2. Len(b) \in 0 .. Len(b)
    BY <1>2, <1>4
  <2>. QED BY <2>1, <2>2, Zenon
<1>11. f[Len(q)] \in Nat /\ f[k] \in Nat
  BY <1>1, <1>2
<1>. QED BY <1>1, <1>5, <1>9, <1>10, <1>11 DEF a, b

-----------------------------------------------------------------------------
(* The capture ring *)

Caps == [schema : Schemas \cup {None}, packets : Seq(Packets), bytes : Nat,
         total : Nat, dropped : Nat]

\* The counters agree with the packets.
Counted(c) == c.bytes = Bytes(c.packets) /\ c.total = Len(c.packets) + c.dropped

\* Every packet of a sequence was received under a schema.
AllOf(q, s) == \A i \in DOMAIN q : q[i].schema = s

\* evict_to_fit: it ends within the budget, counts what it evicts, and the
\* packets it keeps were there before.
LEMMA FitKeeps ==
  ASSUME NEW c \in Caps, Counted(c)
  PROVE /\ Fit(c) \in Caps /\ Counted(Fit(c)) /\ Fit(c).bytes <= CapBytes
        /\ Fit(c).schema = c.schema
        /\ \A s : AllOf(c.packets, s) => AllOf(Fit(c).packets, s)
<1>. DEFINE q == c.packets
            n == Len(q)
            Rest(k) == SubSeq(q, k + 1, n)
            Fits(k) == Bytes(Rest(k)) <= CapBytes
            Least(k) == Fits(k) /\ \A j \in 0 .. k - 1 : Bytes(Rest(j)) > CapBytes
<1>1. q \in Seq(Packets) /\ n \in Nat /\ CapBytes \in Nat
  BY IngestAssumption DEF Caps
<1>2. \A k \in 0 .. n : Bytes(Rest(k)) \in Nat
  BY <1>1, BytesSplit, Zenon
<1>3. \E k \in 0 .. n : Least(k)
  <2>. DEFINE S == {k \in 0 .. n : Fits(k)}
  <2>1. Fits(n)
    <3>1. Rest(n) = <<>>
      <4>1. Rest(n) \in Seq(Packets) /\ Len(Rest(n)) = 0
        BY <1>1
      <4>. QED BY <4>1
    <3>2. Bytes(Rest(n)) = 0
      BY <3>1, BytesEmpty, Zenon
    <3>. QED BY <1>1, <3>2
  <2>2. S \in SUBSET Nat /\ n \in S
    <3>. HIDE DEF Fits
    <3>. QED BY <1>1, <2>1
  <2>3. PICK k \in S : \A j \in 0 .. k - 1 : j \notin S
    <3>. HIDE DEF S
    <3>. QED BY <2>2, LeastNat, Zenon
  <2>4. k \in 0 .. n /\ Fits(k)
    <3>. HIDE DEF Fits
    <3>. QED BY <2>3, Zenon
  <2>5. ASSUME NEW j \in 0 .. k - 1 PROVE Bytes(Rest(j)) > CapBytes
    <3>1. j \in 0 .. n /\ ~Fits(j)
      <4>1. j \in 0 .. n /\ j \notin S
        <5>. HIDE DEF S, Fits
        <5>. QED BY <1>1, <2>3, <2>4
      <4>. HIDE DEF Fits
      <4>. QED BY <4>1, Zenon
    <3>2. Bytes(Rest(j)) \in Nat
      BY <1>2, <3>1, Zenon
    <3>. QED BY <1>1, <3>1, <3>2
  <2>. QED BY <2>4, <2>5, Zenon
<1>. DEFINE k == CHOOSE k \in 0 .. n : Least(k)
<1>4. k \in 0 .. n /\ Least(k)
  <2>. HIDE DEF Least
  <2>. QED BY <1>3, Zenon
<1>5. Fit(c) = [c EXCEPT !.packets = Rest(k), !.dropped = @ + k, !.bytes = @ - Bytes(SubSeq(q, 1, k))]
  BY Zenon DEF Fit
<1>. HIDE DEF k
<1>6. /\ Bytes(q) = Bytes(SubSeq(q, 1, k)) + Bytes(Rest(k))
      /\ Bytes(SubSeq(q, 1, k)) \in Nat /\ Bytes(Rest(k)) \in Nat
  BY <1>1, <1>4, BytesSplit, Zenon
<1>7. /\ Rest(k) \in Seq(Packets) /\ Len(Rest(k)) = n - k /\ k \in Nat /\ n - k \in Nat
      /\ \A i \in 1 .. n - k : Rest(k)[i] = q[k + i] /\ k + i \in 1 .. n
  BY <1>1, <1>4
<1>. DEFINE r == Rest(k)
            a == SubSeq(q, 1, k)
<1>. HIDE DEF r, a
<1>8. /\ c.bytes \in Nat /\ c.dropped \in Nat /\ c.total \in Nat /\ c.schema \in Schemas \cup {None}
      /\ c.bytes = Bytes(q) /\ c.total = n + c.dropped
      /\ c = [schema |-> c.schema, packets |-> c.packets, bytes |-> c.bytes, total |-> c.total,
              dropped |-> c.dropped]
  BY Zenon DEF Caps, Counted
<1>9. Fit(c) = [schema |-> c.schema, packets |-> Rest(k), bytes |-> Bytes(Rest(k)),
                total |-> c.total, dropped |-> c.dropped + k]
  <2>1. c.bytes - Bytes(SubSeq(q, 1, k)) = Bytes(Rest(k))
    BY <1>6, <1>8
  <2>. QED BY <1>5, <1>8, <2>1, Zenon
<1>10. Fit(c) \in Caps /\ Fit(c).bytes <= CapBytes /\ Fit(c).schema = c.schema
  BY <1>4, <1>6, <1>7, <1>8, <1>9, SMTT(30) DEF Caps
<1>11. Counted(Fit(c))
  BY <1>1, <1>7, <1>8, <1>9 DEF Counted
<1>12. ASSUME NEW s, AllOf(c.packets, s) PROVE AllOf(Fit(c).packets, s)
  <2>1. Fit(c).packets = Rest(k) /\ DOMAIN Rest(k) = 1 .. n - k
    BY <1>7, <1>9
  <2>. QED BY <1>1, <1>7, <1>12, <2>1 DEF AllOf
<1>. QED BY <1>10, <1>11, <1>12, Zenon

\* A capture from its fields.
LEMMA CapOf ==
  ASSUME NEW s \in Schemas \cup {None}, NEW q \in Seq(Packets),
         NEW b \in Nat, NEW t \in Nat, NEW d \in Nat
  PROVE [schema |-> s, packets |-> q, bytes |-> b, total |-> t, dropped |-> d] \in Caps
<1>. HIDE DEF Packets
<1>. QED BY Zenon DEF Caps

\* A capture with another packet sequence and other counters.
LEMMA WithPacket ==
  ASSUME NEW c, NEW q, NEW b, NEW t,
         c = [schema |-> c.schema, packets |-> c.packets, bytes |-> c.bytes,
              total |-> c.total, dropped |-> c.dropped]
  PROVE [c EXCEPT !.packets = q, !.bytes = b, !.total = t]
          = [schema |-> c.schema, packets |-> q, bytes |-> b, total |-> t, dropped |-> c.dropped]
<1>. DEFINE c1 == [c EXCEPT !.packets = q]
            c2 == [c1 EXCEPT !.bytes = b]
            c3 == [c2 EXCEPT !.total = t]
<1>1. PICK s0, q0, b0, t0, d0 :
        /\ c = [schema |-> s0, packets |-> q0, bytes |-> b0, total |-> t0, dropped |-> d0]
        /\ c.schema = s0 /\ c.dropped = d0
  BY Zenon
<1>2. c1 = [schema |-> s0, packets |-> q, bytes |-> b0, total |-> t0, dropped |-> d0]
  BY <1>1
<1>3. c2 = [schema |-> s0, packets |-> q, bytes |-> b, total |-> t0, dropped |-> d0]
  <2>. HIDE DEF c1
  <2>. QED BY <1>2
<1>4. c3 = [schema |-> s0, packets |-> q, bytes |-> b, total |-> t, dropped |-> d0]
  <2>. HIDE DEF c2
  <2>. QED BY <1>3
<1>5. [c EXCEPT !.packets = q, !.bytes = b, !.total = t] = c3
  BY Zenon
<1>. HIDE DEF c3
<1>. QED BY <1>1, <1>4, <1>5, Zenon

\* The ring as Inner::new and Inner::clear leave it.
LEMMA EmptyCapIs ==
  EmptyCap \in Caps /\ Counted(EmptyCap) /\ EmptyCap.packets = <<>> /\ EmptyCap.schema = None
    /\ EmptyCap.bytes = 0
<1>1. <<>> \in Seq(Packets) /\ 0 \in Nat /\ None \in Schemas \cup {None}
  OBVIOUS
<1>2. EmptyCap \in Caps
  BY <1>1, CapOf, Zenon DEF EmptyCap
<1>. QED BY <1>2, BytesEmpty DEF EmptyCap, Counted

\* set_schema changes nothing else.
LEMMA CapSchema ==
  ASSUME NEW c \in Caps, NEW s \in Schemas
  PROVE LET d == [c EXCEPT !.schema = s] IN
        /\ d \in Caps /\ d.schema = s /\ d.packets = c.packets /\ d.bytes = c.bytes
        /\ d.total = c.total /\ d.dropped = c.dropped
<1>. DEFINE Q == Seq(Packets)
<1>1. Caps = [schema : Schemas \cup {None}, packets : Q, bytes : Nat, total : Nat, dropped : Nat]
  BY Zenon DEF Caps
<1>. HIDE DEF Q
<1>. QED BY <1>1, Zenon

\* push_packet keeps the accounts, and the schema of what it keeps.
LEMMA PushKeeps ==
  ASSUME NEW c \in Caps, Counted(c), NEW p \in Packets
  PROVE /\ PushPacket(c, p) \in Caps /\ Counted(PushPacket(c, p))
        /\ PushPacket(c, p).bytes <= CapBytes
        /\ PushPacket(c, p).schema = c.schema
        /\ \A s : AllOf(c.packets, s) /\ p.schema = s => AllOf(PushPacket(c, p).packets, s)
<1>. DEFINE d == [c EXCEPT !.packets = Append(@, p), !.bytes = @ + p.size, !.total = @ + 1]
<1>1. /\ c.packets \in Seq(Packets) /\ c.bytes \in Nat /\ c.total \in Nat /\ c.dropped \in Nat
      /\ c.schema \in Schemas \cup {None}
      /\ p.size \in Nat
      /\ c = [schema |-> c.schema, packets |-> c.packets, bytes |-> c.bytes, total |-> c.total,
              dropped |-> c.dropped]
  BY IngestAssumption, Zenon DEF Caps, Packets
<1>2. d = [schema |-> c.schema, packets |-> Append(c.packets, p), bytes |-> c.bytes + p.size,
           total |-> c.total + 1, dropped |-> c.dropped]
  <2>. DEFINE q == Append(c.packets, p)
              b == c.bytes + p.size
              t == c.total + 1
  <2>1. d = [c EXCEPT !.packets = q, !.bytes = b, !.total = t]
    BY Zenon
  <2>. HIDE DEF q, b, t, d
  <2>2. d = [schema |-> c.schema, packets |-> q, bytes |-> b, total |-> t, dropped |-> c.dropped]
    BY <1>1, <2>1, WithPacket, Zenon
  <2>. QED BY <2>2, Zenon DEF q, b, t
<1>3. Bytes(Append(c.packets, p)) = Bytes(c.packets) + p.size
  BY <1>1, BytesAppend, Zenon
<1>4. /\ Append(c.packets, p) \in Seq(Packets)
      /\ Len(Append(c.packets, p)) = Len(c.packets) + 1
      /\ Len(c.packets) \in Nat
      /\ \A i \in 1 .. Len(c.packets) + 1 :
           Append(c.packets, p)[i] = IF i <= Len(c.packets) THEN c.packets[i] ELSE p
  <2>. HIDE DEF d
  <2>. QED BY <1>1
<1>5. d \in Caps
  <2>1. c.bytes + p.size \in Nat /\ c.total + 1 \in Nat
    BY <1>1
  <2>. HIDE DEF d
  <2>. QED BY <1>1, <1>2, <1>4, <2>1, CapOf, Zenon
<1>6. Counted(d)
  <2>1. c.bytes = Bytes(c.packets) /\ c.total = Len(c.packets) + c.dropped
    BY Zenon DEF Counted
  <2>2. d.bytes = Bytes(d.packets)
    BY <1>2, <1>3, <2>1, Zenon
  <2>3. d.total = Len(d.packets) + d.dropped
    BY <1>1, <1>2, <1>4, <2>1
  <2>. QED BY <2>2, <2>3, Zenon DEF Counted
<1>7. ASSUME NEW s, AllOf(c.packets, s), p.schema = s PROVE AllOf(d.packets, s)
  <2>1. d.packets = Append(c.packets, p) /\ DOMAIN Append(c.packets, p) = 1 .. Len(c.packets) + 1
    BY <1>1, <1>2
  <2>2. ASSUME NEW i \in 1 .. Len(c.packets) + 1 PROVE Append(c.packets, p)[i].schema = s
    BY <1>1, <1>4, <1>7 DEF AllOf
  <2>. QED BY <2>1, <2>2, Zenon DEF AllOf
<1>8. PushPacket(c, p) = Fit(d) /\ d.schema = c.schema
  BY <1>2, Zenon DEF PushPacket
<1>. HIDE DEF d
<1>. QED BY <1>5, <1>6, <1>7, <1>8, FitKeeps, Zenon

\* The packets pushed so far, as Replayed defines them, exist for every file.
Replays(c, q, n, f) ==
  f = [i \in 0 .. n |-> IF i = 0 THEN c ELSE PushPacket(f[i - 1], q[i])]

\* Every file can be replayed from its first packet to its last.
LEMMA ReplayRuns ==
  ASSUME NEW c, NEW q \in Seq(Packets)
  PROVE \E f : Replays(c, q, Len(q), f)
<1>. DEFINE S == {n \in Nat : \E f : Replays(c, q, n, f)}
<1>1. 0 \in S
  <2>. DEFINE f == [i \in 0 .. 0 |-> c]
  <2>1. Replays(c, q, 0, f)
    BY DEF Replays
  <2>. QED BY <2>1, Zenon
<1>2. ASSUME NEW n \in Nat, n \in S PROVE n + 1 \in S
  <2>1. PICK f : Replays(c, q, n, f)
    BY <1>2, Zenon
  <2>. DEFINE g == [i \in 0 .. n + 1 |-> IF i = n + 1 THEN PushPacket(f[n], q[n + 1]) ELSE f[i]]
              h == [i \in 0 .. n + 1 |-> IF i = 0 THEN c ELSE PushPacket(g[i - 1], q[i])]
  <2>2. \A i \in 0 .. n : f[i] = IF i = 0 THEN c ELSE PushPacket(f[i - 1], q[i])
    BY <2>1, Zenon DEF Replays
  <2>3. ASSUME NEW i \in 0 .. n + 1 PROVE g[i] = h[i]
    <3>1. CASE i = n + 1
      <4>1. i - 1 = n /\ i # 0 /\ n \in 0 .. n + 1 /\ n # n + 1
        BY <3>1
      <4>2. g[n] = f[n]
        BY <4>1, Zenon
      <4>3. h[i] = PushPacket(g[n], q[i])
        BY <4>1, Zenon
      <4>4. g[i] = PushPacket(f[n], q[n + 1])
        BY <3>1, Zenon
      <4>. QED BY <3>1, <4>2, <4>3, <4>4, Zenon
    <3>2. CASE i # n + 1 /\ i # 0
      <4>1. i \in 0 .. n /\ i - 1 \in 0 .. n + 1 /\ i - 1 # n + 1
        BY <3>2
      <4>2. g[i - 1] = f[i - 1] /\ g[i] = f[i]
        BY <3>2, <4>1, Zenon
      <4>3. h[i] = PushPacket(g[i - 1], q[i])
        BY <3>2, Zenon
      <4>. QED BY <2>2, <3>2, <4>1, <4>2, <4>3, Zenon
    <3>3. CASE i = 0
      <4>1. i # n + 1 /\ i \in 0 .. n
        BY <3>3
      <4>. QED BY <2>2, <3>3, <4>1, Zenon
    <3>. QED BY <3>1, <3>2, <3>3, Zenon
  <2>4. g = h
    BY <2>3, Zenon
  <2>5. Replays(c, q, n + 1, g)
    BY <2>4, Zenon DEF Replays
  <2>. QED BY <2>5
<1>3. \A n \in Nat : n \in S
  <2>. HIDE DEF S
  <2>. QED BY <1>1, <1>2, SetInduction, Zenon
<1>4. Len(q) \in S
  <2>. HIDE DEF S
  <2>. QED BY <1>3, LenProperties, Zenon
<1>. QED BY <1>4, Zenon

\* load_capture_file's replay keeps the accounts, and the schema it set.
LEMMA ReplayKeeps ==
  ASSUME NEW s \in Schemas, NEW q \in Seq(Packets), AllOf(q, s)
  PROVE LET c == Replayed([EmptyCap EXCEPT !.schema = s], q)
        IN c \in Caps /\ Counted(c) /\ c.bytes <= CapBytes /\ c.schema = s /\ AllOf(c.packets, s)
<1>. DEFINE e == [EmptyCap EXCEPT !.schema = s]
            after == CHOOSE f : Replays(e, q, Len(q), f)
            Good(c) == c \in Caps /\ Counted(c) /\ c.bytes <= CapBytes /\ c.schema = s /\ AllOf(c.packets, s)
            S == {n \in Nat : n <= Len(q) => Good(after[n])}
<1>1. Replays(e, q, Len(q), after)
  BY ReplayRuns, Zenon
<1>2. Replayed(e, q) = after[Len(q)]
  BY Zenon DEF Replayed, Replays
<1>3. Len(q) \in Nat /\ DOMAIN q = 1 .. Len(q)
  OBVIOUS
<1>4. Good(e)
  <2>1. e = [schema |-> s, packets |-> <<>>, bytes |-> 0, total |-> 0, dropped |-> 0]
    BY DEF EmptyCap
  <2>2. <<>> \in Seq(Packets) /\ Len(<<>>) = 0 /\ DOMAIN <<>> = {}
    OBVIOUS
  <2>3. e \in Caps
    <3>. HIDE DEF e
    <3>. QED BY <2>1, <2>2, CapOf, Zenon
  <2>4. Counted(e)
    BY <2>1, <2>2, BytesEmpty DEF Counted
  <2>5. AllOf(e.packets, s)
    BY <2>1, <2>2, Zenon DEF AllOf
  <2>. QED BY <2>1, <2>3, <2>4, <2>5, IngestAssumption
<1>. HIDE DEF after, e
<1>5. \A i \in 0 .. Len(q) : after[i] = IF i = 0 THEN e ELSE PushPacket(after[i - 1], q[i])
  BY <1>1, Zenon DEF Replays
<1>6. 0 \in S
  <2>1. after[0] = e
    BY <1>3, <1>5
  <2>. HIDE DEF Good
  <2>. QED BY <1>4, <2>1, Zenon
<1>7. ASSUME NEW n \in Nat, n \in S PROVE n + 1 \in S
  <2>. SUFFICES ASSUME n + 1 <= Len(q) PROVE Good(after[n + 1])
    <3>. HIDE DEF Good
    <3>. QED OBVIOUS
  <2>1. n + 1 \in 1 .. Len(q) /\ n + 1 \in 0 .. Len(q) /\ n + 1 # 0 /\ (n + 1) - 1 = n /\ n <= Len(q)
    BY <1>3
  <2>2. Good(after[n])
    <3>. HIDE DEF Good
    <3>. QED BY <1>7, <2>1, Zenon
  <2>3. after[n + 1] = PushPacket(after[n], q[n + 1])
    BY <1>5, <2>1, Zenon
  <2>4. q[n + 1] \in Packets
    BY <2>1, PacketSize, Zenon
  <2>5. q[n + 1].schema = s
    BY <1>3, <2>1, Zenon DEF AllOf
  <2>6. /\ after[n] \in Caps /\ Counted(after[n]) /\ after[n].schema = s
        /\ AllOf(after[n].packets, s)
    BY <2>2, Zenon
  <2>7. Good(PushPacket(after[n], q[n + 1]))
    BY <2>4, <2>5, <2>6, PushKeeps, Zenon
  <2>. QED
    <3>. HIDE DEF Good
    <3>. QED BY <2>3, <2>7, Zenon
<1>8. \A n \in Nat : n \in S
  <2>. HIDE DEF S
  <2>. QED BY <1>6, <1>7, SetInduction, Zenon
<1>9. Good(after[Len(q)])
  <2>. HIDE DEF Good
  <2>. QED BY <1>3, <1>8
<1>. QED BY <1>2, <1>9, Zenon DEF e
-----------------------------------------------------------------------------
(* The inductive invariants *)

Chans == [path : Paths, got : SUBSET Paths]
Files == [schema : Schemas, packets : Seq(Packets)]

\* In the packet loop; from the schema's arrival to the loop's end.
Looping == {"prefix", "body", "dispatch", "push"}
Mapped  == Looping \cup {"build"}

Known == Schemas \cup {<<>>}
Ids   == Seq(Nat)
Held  == Packets \cup {None}
Threads == [pc : {"off", "dial", "schema", "backoff", "wipe", "wipecap"} \cup Mapped,
            sync : BOOLEAN, mid : BOOLEAN, schema : Known, map : Ids, pkt : Held]

Typed ==
  /\ target \in [up : BOOLEAN, schema : Schemas, boots : Nat, link : BOOLEAN]
  /\ ing \in Threads
  /\ store \in Seq(Chans) /\ cap \in Caps /\ file \in Files \cup {None}
  /\ ui = "open" => file # None
  /\ ing.pc \in Mapped => ing.schema \in Schemas /\ Len(ing.map) <= Len(ing.schema)
  /\ ing.pc \in {"dispatch", "push"} => ing.pkt \in Packets /\ ing.pkt.schema = ing.schema

\* The ring is empty until a schema is announced, and from then on, until the
\* thread has wiped it, holds only packets of the thread's schema: also after
\* do_clear has taken the ring's own schema away.
CapInv ==
  /\ Counted(cap) /\ cap.bytes <= CapBytes
  /\ cap.schema # None => AllOf(cap.packets, cap.schema)
  /\ file # None => AllOf(file.packets, file.schema)
  /\ ing.pc \in {"dial", "schema", "build"} => cap.packets = <<>>
  /\ ing.pc \in Looping => cap.schema \in {None, ing.schema} /\ AllOf(cap.packets, ing.schema)

\* When nobody clears: the store holds exactly the channels of the map, in its
\* order, and the ring has the schema of the connection.
LiveInv ==
  /\ ui # "clear"
  /\ SamplesBelong /\ Saveable
  /\ ing.pc \in {"wipecap", "dial", "schema"} => store = <<>>
  /\ ing.pc \in Mapped =>
       /\ Len(store) = Len(ing.map)
       /\ \A i \in 1 .. Len(ing.map) : ing.map[i] = i /\ store[i].path = ing.schema[i]
  /\ ing.pc \in Looping => cap.schema = ing.schema

\* The initial states are typed.
LEMMA TypedInit == Init => Typed
<1>. SUFFICES ASSUME Init PROVE Typed
  BY Zenon
<1>1. EmptyCap \in Caps
  BY EmptyCapIs, Zenon
<1>2. target \in [up : BOOLEAN, schema : Schemas, boots : Nat, link : BOOLEAN]
  BY DEF Init
<1>3. ing \in Threads /\ ing.pc = "dial"
  BY DEF Init, Threads, Known, Ids, Held, Mapped
<1>. QED BY <1>1, <1>2, <1>3 DEF Init, Typed, Mapped, Looping
\* What a step of the thread makes of its record.
LEMMA ThreadSteps ==
  ASSUME ing \in Threads, target.schema \in Schemas
  PROVE /\ \A p \in {"off", "schema", "body", "push", "backoff", "wipe", "wipecap", "dial"} :
             At(p) => /\ ing' \in Threads /\ ing'.pc = p /\ ing'.schema = ing.schema
                      /\ ing'.map = ing.map /\ ing'.pkt = ing.pkt
        /\ ConnectFailed => ing' \in Threads /\ ing'.pc \in {"off", "backoff"}
        /\ Partial => /\ ing' \in Threads /\ ing'.pc = ing.pc /\ ing'.schema = ing.schema
                      /\ ing'.map = ing.map /\ ing'.pkt = ing.pkt
        /\ ReadSchema => /\ ing' \in Threads /\ ing'.pc = "build" /\ ing'.schema = target.schema
                         /\ ing'.map = <<>>
        /\ Announce => /\ ing' \in Threads /\ ing'.pc = "prefix" /\ ing'.schema = ing.schema
                       /\ ing'.map = ing.map
        /\ Push => /\ ing' \in Threads /\ ing'.pc = "prefix" /\ ing'.schema = ing.schema
                   /\ ing'.map = ing.map
        /\ Reconnect => ing' \in Threads /\ ing'.pc = "dial"
        /\ Build /\ Append(ing.map, Len(store) + 1) \in Ids =>
             /\ ing' \in Threads /\ ing'.pc = "build" /\ ing'.schema = ing.schema
             /\ ing'.map = Append(ing.map, Len(store) + 1)
<1>. USE DEF Threads, Mapped, Looping
<1>0. <<>> \in Ids /\ None \in Held /\ target.schema \in Known
  BY DEF Ids, Held, Known
<1>1. ASSUME NEW p \in {"off", "schema", "body", "push", "backoff", "wipe", "wipecap", "dial"}, At(p)
      PROVE /\ ing' \in Threads /\ ing'.pc = p /\ ing'.schema = ing.schema
            /\ ing'.map = ing.map /\ ing'.pkt = ing.pkt
  BY <1>1, Zenon DEF At
<1>2. ASSUME ConnectFailed PROVE ing' \in Threads /\ ing'.pc \in {"off", "backoff"}
  BY <1>2, Zenon DEF ConnectFailed
<1>3. ASSUME Partial PROVE /\ ing' \in Threads /\ ing'.pc = ing.pc /\ ing'.schema = ing.schema
                           /\ ing'.map = ing.map /\ ing'.pkt = ing.pkt
  BY <1>3, Zenon DEF Partial
<1>4. ASSUME ReadSchema PROVE /\ ing' \in Threads /\ ing'.pc = "build" /\ ing'.schema = target.schema
                              /\ ing'.map = <<>>
  BY <1>0, <1>4, Zenon DEF ReadSchema
<1>5. ASSUME Announce PROVE /\ ing' \in Threads /\ ing'.pc = "prefix" /\ ing'.schema = ing.schema
                            /\ ing'.map = ing.map
  BY <1>5, Zenon DEF Announce
<1>6. ASSUME Push PROVE /\ ing' \in Threads /\ ing'.pc = "prefix" /\ ing'.schema = ing.schema
                        /\ ing'.map = ing.map
  BY <1>0, <1>6, Zenon DEF Push
<1>7. ASSUME Reconnect PROVE ing' \in Threads /\ ing'.pc = "dial"
  BY <1>7, Zenon DEF Reconnect
<1>8. ASSUME Build, Append(ing.map, Len(store) + 1) \in Ids
      PROVE /\ ing' \in Threads /\ ing'.pc = "build" /\ ing'.schema = ing.schema
            /\ ing'.map = Append(ing.map, Len(store) + 1)
  <2>. DEFINE a == Append(ing.map, Len(store) + 1)
  <2>1. ing' = [ing EXCEPT !.map = a] /\ ing.pc = "build" /\ a \in Ids
    BY <1>8, Zenon DEF Build
  <2>. HIDE DEF a
  <2>2. /\ ing' \in Threads /\ ing'.pc = "build" /\ ing'.schema = ing.schema /\ ing'.map = a
    BY <2>1, Zenon
  <2>. QED BY <2>2, Zenon DEF a
<1>. HIDE DEF Threads
<1>. QED BY <1>1, <1>2, <1>3, <1>4, <1>5, <1>6, <1>7, <1>8, Zenon

\* The steps that only move the thread.
LEMMA TypedMoves ==
  ASSUME Typed, Partial \/ Dial \/ ReadSchema \/ SchemaFails \/ StopSeen \/ ReadPrefix
                  \/ Lost \/ Backoff
  PROVE Typed'
<1>0. UNCHANGED <<store, cap, ui, file>>
  BY Zenon DEF Partial, Dial, ReadSchema, SchemaFails, StopSeen, ReadPrefix, Lost, Backoff
<1>1. target' \in [up : BOOLEAN, schema : Schemas, boots : Nat, link : BOOLEAN]
  BY Zenon DEF Typed, ConnectFailed, Partial, Dial, ReadSchema, SchemaFails, StopSeen, ReadPrefix, Lost, Backoff
<1>2. ing \in Threads /\ target.schema \in Schemas
  BY Zenon DEF Typed
<1>. DEFINE Same == ing'.schema = ing.schema /\ ing'.map = ing.map
<1>3. /\ ing' \in Threads
      /\ \/ ing'.pc \in {"off", "backoff", "wipe"}
         \/ ing.pc \in {"dial", "schema"} /\ ing'.pc = "schema"
         \/ ing.pc \in {"prefix", "body"} /\ ing'.pc \in {"prefix", "body"} /\ Same
         \/ ing'.pc = "build" /\ ing'.schema = target.schema /\ ing'.map = <<>>
  <2>1. CASE Partial
    BY <1>2, <2>1, ThreadSteps, Zenon DEF Partial
  <2>2. CASE Dial
    BY <1>2, <2>2, ThreadSteps, Zenon DEF Dial
  <2>3. CASE ReadSchema
    BY <1>2, <2>3, ThreadSteps, Zenon
  <2>4. CASE SchemaFails
    BY <1>2, <2>4, ThreadSteps, Zenon DEF SchemaFails
  <2>5. CASE StopSeen
    BY <1>2, <2>5, ThreadSteps, Zenon DEF StopSeen
  <2>6. CASE ReadPrefix
    BY <1>2, <2>6, ThreadSteps, Zenon DEF ReadPrefix
  <2>7. CASE Lost
    BY <1>2, <2>7, ThreadSteps, Zenon DEF Lost
  <2>8. CASE Backoff
    BY <1>2, <2>8, ThreadSteps, Zenon DEF Backoff
  <2>. QED BY <2>1, <2>2, <2>3, <2>4, <2>5, <2>6, <2>7, <2>8, Zenon
<1>4. /\ ing'.pc \in Mapped => ing'.schema \in Schemas /\ Len(ing'.map) <= Len(ing'.schema)
      /\ ing'.pc \notin {"dispatch", "push"}
  <2>1. ing.pc \in Mapped => ing.schema \in Schemas /\ Len(ing.map) <= Len(ing.schema)
    BY Zenon DEF Typed
  <2>2. Len(<<>>) <= Len(target.schema)
    BY <1>2, IngestAssumption
  <2>. QED BY <1>2, <1>3, <2>1, <2>2, Zenon DEF Mapped, Looping
<1>. QED BY <1>0, <1>1, <1>3, <1>4, Zenon DEF Typed

\* The samples of a packet of schema s that the map a sends to channel c.
Sent(a, s, c) == {s[i] : i \in {j \in DOMAIN a : a[j] = c}}

\* A dispatched packet leaves the channels where they are, and adds to each the
\* samples that the map sends there.
LEMMA PushedKeeps ==
  ASSUME NEW st \in Seq(Chans), NEW a \in Seq(Nat), NEW s \in Schemas, Len(a) <= Len(s)
  PROVE /\ Pushed(st, a, s) \in Seq(Chans) /\ Len(Pushed(st, a, s)) = Len(st)
        /\ \A c \in 1 .. Len(st) :
             /\ Pushed(st, a, s)[c].path = st[c].path
             /\ Pushed(st, a, s)[c].got = st[c].got \cup Sent(a, s, c)
<1>. DEFINE T == Pushed(st, a, s)
<1>1. Len(st) \in Nat /\ DOMAIN st = 1 .. Len(st) /\ DOMAIN a = 1 .. Len(a) /\ Len(a) \in Nat
  OBVIOUS
<1>2. ASSUME NEW c \in 1 .. Len(st)
      PROVE st[c] \in Chans /\ Sent(a, s, c) \subseteq Paths
  <2>1. st[c] \in Chans
    <3>. HIDE DEF Chans
    <3>. QED BY ElementOfSeq, Zenon
  <2>2. s \in Seq(Paths)
    BY IngestAssumption, Zenon
  <2>3. ASSUME NEW j \in DOMAIN a PROVE s[j] \in Paths
    <3>1. j \in 1 .. Len(s)
      BY <1>1, <2>2
    <3>. HIDE DEF Paths
    <3>. QED BY <2>2, <3>1, ElementOfSeq, Zenon
  <2>. QED BY <2>1, <2>3, Zenon DEF Sent
<1>3. T = [c \in 1 .. Len(st) |-> [st[c] EXCEPT !.got = @ \cup Sent(a, s, c)]]
  BY <1>1, Zenon DEF Pushed, Sent
<1>. HIDE DEF T
<1>4. ASSUME NEW c \in 1 .. Len(st)
      PROVE /\ T[c] \in Chans
            /\ T[c].path = st[c].path /\ T[c].got = st[c].got \cup Sent(a, s, c)
  <2>1. T[c] = [st[c] EXCEPT !.got = @ \cup Sent(a, s, c)]
    BY <1>3, Zenon
  <2>. HIDE DEF Paths
  <2>. QED BY <1>2, <2>1, Zenon DEF Chans
<1>5. T \in Seq(Chans) /\ Len(T) = Len(st)
  <2>. HIDE DEF Chans
  <2>1. T \in [1 .. Len(st) -> Chans]
    BY <1>3, <1>4, Zenon
  <2>. QED BY <1>1, <2>1, SMTT(30)
<1>. QED BY <1>4, <1>5, Zenon DEF T

\* The channels and ids that load_capture_file registers for a schema.
LEMMA OpenChannels ==
  ASSUME NEW s \in Schemas
  PROVE LET st  == [i \in DOMAIN s |-> Channel(s[i])]
            ids == [i \in DOMAIN s |-> i]
        IN /\ st \in Seq(Chans) /\ ids \in Seq(Nat)
           /\ Len(st) = Len(s) /\ Len(ids) = Len(s) /\ Len(ids) <= Len(s)
           /\ \A i \in 1 .. Len(s) : ids[i] = i /\ st[i].path = s[i] /\ st[i].got = {}
<1>. DEFINE st == [i \in DOMAIN s |-> Channel(s[i])]
            ids == [i \in DOMAIN s |-> i]
<1>1. s \in Seq(Paths) /\ DOMAIN s = 1 .. Len(s) /\ Len(s) \in Nat
  BY IngestAssumption
<1>2. ASSUME NEW i \in 1 .. Len(s) PROVE Channel(s[i]) \in Chans
  <2>1. s[i] \in Paths
    <3>. HIDE DEF Paths
    <3>. QED BY <1>1, ElementOfSeq, Zenon
  <2>. QED BY <2>1, Zenon DEF Channel, Chans
<1>3. st \in Seq(Chans) /\ Len(st) = Len(s)
  <2>. HIDE DEF Chans
  <2>1. st \in [1 .. Len(s) -> Chans]
    BY <1>1, <1>2, Zenon
  <2>. HIDE DEF st
  <2>. QED BY <1>1, <2>1
<1>4. ids \in Seq(Nat) /\ Len(ids) = Len(s)
  <2>1. ids \in [1 .. Len(s) -> Nat]
    BY <1>1
  <2>. HIDE DEF ids
  <2>. QED BY <1>1, <2>1
<1>5. \A i \in 1 .. Len(s) : ids[i] = i /\ st[i].path = s[i] /\ st[i].got = {}
  BY <1>1, Zenon DEF Channel
<1>. HIDE DEF st, ids
<1>6. Len(ids) <= Len(s)
  BY <1>1, <1>4
<1>. QED BY <1>3, <1>4, <1>5, <1>6, Zenon DEF st, ids

\* The steps of the target, and of the user other than on the store, the ring and
\* files.
LEMMA TypedElse ==
  ASSUME Typed, Crash \/ Boot \/ SaveDialog \/ Plot \/ (\E next \in {"reconnect", "open"} : DropHandle(next))
  PROVE Typed'
<1>1. target' \in [up : BOOLEAN, schema : Schemas, boots : Nat, link : BOOLEAN]
  <2>1. CASE Boot
    <3>1. PICK s \in Schemas : target' = [target EXCEPT !.up = TRUE, !.schema = s, !.boots = @ + 1]
      BY <2>1, Zenon DEF Boot
    <3>2. PICK n \in Nat : n = target.boots + 1
      BY DEF Typed
    <3>3. target' = [target EXCEPT !.up = TRUE, !.schema = s, !.boots = n]
      BY <3>1, <3>2, Zenon DEF Typed
    <3>. QED BY <3>3, Zenon DEF Typed
  <2>2. CASE ~Boot
    BY <2>2, Zenon DEF Typed, Crash, SaveDialog, Plot, DropHandle
  <2>. QED BY <2>1, <2>2, Zenon
<1>2. UNCHANGED <<ing, store, cap, file>> /\ (ui' = "open" => file # None)
  BY Zenon DEF Typed, Crash, Boot, SaveDialog, Plot, DropHandle
<1>. QED BY <1>1, <1>2, Zenon DEF Typed

\* The steps of the thread on the store and the ring.
LEMMA TypedFills ==
  ASSUME Typed, CapInv, Build \/ Announce \/ ReadBody \/ Dispatch \/ Push \/ Wipe \/ WipeCap
  PROVE Typed'
<1>0. /\ ing \in Threads /\ target.schema \in Schemas /\ store \in Seq(Chans) /\ cap \in Caps
      /\ file \in Files \cup {None} /\ (ui = "open" => file # None)
      /\ ing.map \in Ids /\ ing.pkt \in Held
      /\ target \in [up : BOOLEAN, schema : Schemas, boots : Nat, link : BOOLEAN]
  BY Zenon DEF Typed, Threads
<1>1. ing.pc \in Mapped => ing.schema \in Schemas /\ Len(ing.map) <= Len(ing.schema)
  BY Zenon DEF Typed
<1>2. ing.pc \in {"dispatch", "push"} => ing.pkt \in Packets /\ ing.pkt.schema = ing.schema
  BY Zenon DEF Typed
<1>3. EmptyCap \in Caps /\ <<>> \in Seq(Chans)
  BY EmptyCapIs
<1>4. CASE Build
  <2>1. /\ ing.pc = "build" /\ Len(ing.map) < Len(ing.schema) /\ ing.schema \in Seq(Paths)
        /\ store' = Append(store, Channel(ing.schema[Len(ing.map) + 1]))
        /\ UNCHANGED <<target, cap, ui, file>>
    BY <1>1, <1>4, IngestAssumption, Zenon DEF Build, Mapped
  <2>2. ing.map \in Seq(Nat) /\ Len(ing.map) \in Nat /\ Len(store) + 1 \in Nat /\ Len(ing.schema) \in Nat
    BY <1>0, <2>1 DEF Ids
  <2>3. Append(ing.map, Len(store) + 1) \in Ids /\ Len(Append(ing.map, Len(store) + 1)) = Len(ing.map) + 1
    BY <2>2 DEF Ids
  <2>4. ing.schema[Len(ing.map) + 1] \in Paths
    <3>1. Len(ing.map) + 1 \in 1 .. Len(ing.schema)
      BY <2>1, <2>2
    <3>. HIDE DEF Paths
    <3>. QED BY <2>1, <3>1, ElementOfSeq, Zenon
  <2>5. store' \in Seq(Chans)
    <3>1. Channel(ing.schema[Len(ing.map) + 1]) \in Chans
      BY <2>4, Zenon DEF Channel, Chans
    <3>. HIDE DEF Chans
    <3>. QED BY <1>0, <2>1, <3>1
  <2>6. /\ ing' \in Threads /\ ing'.pc = "build" /\ ing'.schema = ing.schema
        /\ ing'.map = Append(ing.map, Len(store) + 1)
    BY <1>0, <1>4, <2>3, ThreadSteps, Zenon
  <2>7. Len(ing'.map) <= Len(ing'.schema)
    BY <2>1, <2>2, <2>3, <2>6
  <2>. QED BY <1>0, <1>1, <2>1, <2>5, <2>6, <2>7, Zenon DEF Typed, Mapped, Looping
<1>5. CASE Announce
  <2>1. /\ ing' \in Threads /\ ing'.pc = "prefix" /\ ing'.schema = ing.schema /\ ing'.map = ing.map
    BY <1>0, <1>5, ThreadSteps, Zenon
  <2>2. ing.pc = "build" /\ cap' = [cap EXCEPT !.schema = ing.schema] /\ UNCHANGED <<target, store, ui, file>>
    BY <1>5, Zenon DEF Announce
  <2>3. cap' \in Caps
    BY <1>0, <1>1, <2>2, CapSchema, Zenon DEF Mapped
  <2>. QED BY <1>0, <1>1, <2>1, <2>2, <2>3, Zenon DEF Typed, Mapped, Looping
<1>6. CASE ReadBody
  <2>1. PICK n \in Sizes : ing' = [ing EXCEPT !.pc = "dispatch", !.mid = FALSE,
                                      !.pkt = [schema |-> ing.schema, size |-> n]]
    BY <1>6, Zenon DEF ReadBody
  <2>2. ing.pc = "body" /\ UNCHANGED <<target, store, cap, ui, file>>
    BY <1>6, Zenon DEF ReadBody
  <2>. DEFINE k == [schema |-> ing.schema, size |-> n]
  <2>3. k \in Packets /\ k \in Held /\ k.schema = ing.schema
    BY <1>1, <2>2, Zenon DEF Packets, Held, Mapped, Looping
  <2>. HIDE DEF k
  <2>4. ing' = [ing EXCEPT !.pc = "dispatch", !.mid = FALSE, !.pkt = k]
    BY <2>1, Zenon DEF k
  <2>5. /\ ing' \in Threads /\ ing'.pc = "dispatch" /\ ing'.schema = ing.schema
        /\ ing'.map = ing.map /\ ing'.pkt = k
    BY <1>0, <2>3, <2>4, Zenon DEF Threads, Mapped, Looping
  <2>. QED BY <1>0, <1>1, <2>2, <2>3, <2>5, Zenon DEF Typed, Mapped, Looping
<1>7. CASE Dispatch
  <2>1. /\ ing' \in Threads /\ ing'.pc = "push" /\ ing'.schema = ing.schema
        /\ ing'.map = ing.map /\ ing'.pkt = ing.pkt
    BY <1>0, <1>7, ThreadSteps, Zenon DEF Dispatch
  <2>2. ing.pc = "dispatch" /\ store' = Pushed(store, ing.map, ing.schema) /\ UNCHANGED <<target, cap, ui, file>>
    BY <1>7, Zenon DEF Dispatch
  <2>3. store' \in Seq(Chans)
    BY <1>0, <1>1, <2>2, PushedKeeps, Zenon DEF Ids, Mapped, Looping
  <2>. QED BY <1>0, <1>1, <1>2, <2>1, <2>2, <2>3, Zenon DEF Typed, Mapped, Looping
<1>8. CASE Push
  <2>1. /\ ing' \in Threads /\ ing'.pc = "prefix" /\ ing'.schema = ing.schema /\ ing'.map = ing.map
    BY <1>0, <1>8, ThreadSteps, Zenon
  <2>2. ing.pc = "push" /\ cap' = PushPacket(cap, ing.pkt) /\ UNCHANGED <<target, store, ui, file>>
    BY <1>8, Zenon DEF Push
  <2>3. cap' \in Caps
    BY <1>0, <1>2, <2>2, PushKeeps, Zenon DEF CapInv
  <2>. QED BY <1>0, <1>1, <2>1, <2>2, <2>3, Zenon DEF Typed, Mapped, Looping
<1>9. CASE Wipe \/ WipeCap
  <2>1. ing' \in Threads /\ ing'.pc \in {"wipecap", "dial"}
    BY <1>0, <1>9, ThreadSteps, Zenon DEF Wipe, WipeCap
  <2>2. store' \in Seq(Chans) /\ cap' \in Caps /\ UNCHANGED <<target, ui, file>>
    BY <1>0, <1>3, <1>9, Zenon DEF Wipe, WipeCap
  <2>. QED BY <1>0, <2>1, <2>2, Zenon DEF Typed, Mapped, Looping
<1>. QED BY <1>4, <1>5, <1>6, <1>7, <1>8, <1>9, Zenon
\* The commands of the user on the store, the ring and files.
LEMMA TypedUser ==
  ASSUME Typed, CapInv, ClearStore \/ ClearCap \/ Reconnect \/ Open \/ Save
  PROVE Typed'
<1>0. /\ ing \in Threads /\ target.schema \in Schemas /\ store \in Seq(Chans) /\ cap \in Caps
      /\ file \in Files \cup {None} /\ (ui = "open" => file # None)
      /\ target \in [up : BOOLEAN, schema : Schemas, boots : Nat, link : BOOLEAN]
  BY Zenon DEF Typed
<1>1. EmptyCap \in Caps /\ <<>> \in Seq(Chans)
  BY EmptyCapIs
<1>2. CASE ClearStore \/ ClearCap
  <2>1. UNCHANGED <<target, ing, file>> /\ ui' # "open" /\ store' \in Seq(Chans) /\ cap' \in Caps
    BY <1>0, <1>1, <1>2, Zenon DEF ClearStore, ClearCap
  <2>. QED BY <2>1, Zenon DEF Typed
<1>3. CASE Reconnect
  <2>1. ing' \in Threads /\ ing'.pc = "dial"
    BY <1>0, <1>3, ThreadSteps, Zenon
  <2>2. UNCHANGED <<target, file>> /\ ui' = "idle" /\ store' \in Seq(Chans) /\ cap' \in Caps
    BY <1>1, <1>3, Zenon DEF Reconnect
  <2>. QED BY <1>0, <2>1, <2>2, Zenon DEF Typed, Mapped, Looping
<1>4. CASE Open
  <2>. DEFINE fs == file.schema
              st == [i \in DOMAIN fs |-> Channel(fs[i])]
              ids == [i \in DOMAIN fs |-> i]
  <2>1. /\ store' = IF file.packets = <<>> THEN st ELSE Pushed(st, ids, fs)
        /\ cap' = Replayed([EmptyCap EXCEPT !.schema = fs], file.packets)
        /\ UNCHANGED <<target, ing, file>> /\ ui' = "idle" /\ file # None
    BY <1>0, <1>4, Zenon DEF Open
  <2>2. fs \in Schemas /\ file.packets \in Seq(Packets) /\ AllOf(file.packets, fs)
    <3>. HIDE DEF Packets
    <3>. QED BY <1>0, <2>1, Zenon DEF Files, CapInv
  <2>3. st \in Seq(Chans) /\ ids \in Seq(Nat) /\ Len(ids) <= Len(fs)
    BY <2>2, OpenChannels, Zenon
  <2>. HIDE DEF st, ids, fs
  <2>4. store' \in Seq(Chans)
    BY <2>1, <2>2, <2>3, PushedKeeps, Zenon
  <2>5. cap' \in Caps
    BY <2>1, <2>2, ReplayKeeps, Zenon
  <2>. QED BY <1>0, <2>1, <2>4, <2>5, Zenon DEF Typed
<1>5. CASE Save
  <2>1. UNCHANGED <<target, ing, store, cap>> /\ ui' = "idle"
    BY <1>5, Zenon DEF Save
  <2>2. file' \in Files \cup {None}
    <3>1. file' = IF cap.schema = None THEN file ELSE [schema |-> cap.schema, packets |-> cap.packets]
      BY <1>5, Zenon DEF Save
    <3>2. cap.schema \in Schemas \cup {None} /\ cap.packets \in Seq(Packets)
      BY <1>0, Zenon DEF Caps
    <3>. HIDE DEF Packets
    <3>. QED BY <1>0, <3>1, <3>2, Zenon DEF Files
  <2>. QED BY <2>1, <2>2, Zenon DEF Typed
<1>. QED BY <1>2, <1>3, <1>4, <1>5, Zenon

-----------------------------------------------------------------------------
(* The capture ring *)

\* The empty ring is in order.
LEMMA CapInvInit == Init => CapInv
BY EmptyCapIs, IngestAssumption DEF Init, CapInv, AllOf, Looping

\* The thread keeps the ring in order.
LEMMA CapInvThread ==
  ASSUME Typed, CapInv, Typed', Partial \/ IngestStep
  PROVE CapInv'
<1>0. /\ ing \in Threads /\ target.schema \in Schemas /\ cap \in Caps /\ ing.pkt \in Held
      /\ ing.pc \in Mapped => ing.schema \in Schemas
      /\ ing.pc \in {"dispatch", "push"} => ing.pkt \in Packets /\ ing.pkt.schema = ing.schema
  BY Zenon DEF Typed, Threads
<1>1. CASE Announce
  <2>1. ing'.pc = "prefix" /\ ing'.schema = ing.schema
    BY <1>0, <1>1, ThreadSteps, Zenon
  <2>2. ing.pc = "build" /\ cap' = [cap EXCEPT !.schema = ing.schema] /\ UNCHANGED file
    BY <1>1, Zenon DEF Announce
  <2>3. /\ cap'.schema = ing.schema /\ cap'.packets = cap.packets /\ cap'.bytes = cap.bytes
        /\ cap'.total = cap.total /\ cap'.dropped = cap.dropped
    BY <1>0, <2>2, CapSchema, Zenon DEF Mapped
  <2>4. cap.packets = <<>>
    BY <2>2, Zenon DEF CapInv
  <2>5. AllOf(cap'.packets, ing.schema)
    BY <2>3, <2>4 DEF AllOf
  <2>6. Counted(cap)'
    BY <2>3, Zenon DEF CapInv, Counted
  <2>. QED BY <2>1, <2>2, <2>3, <2>5, <2>6, Zenon DEF CapInv, Looping
<1>2. CASE Push
  <2>1. ing'.pc = "prefix" /\ ing'.schema = ing.schema
    BY <1>0, <1>2, ThreadSteps, Zenon
  <2>2. ing.pc = "push" /\ cap' = PushPacket(cap, ing.pkt) /\ UNCHANGED file
    BY <1>2, Zenon DEF Push
  <2>3. /\ Counted(cap') /\ cap'.bytes <= CapBytes /\ cap'.schema = cap.schema
        /\ AllOf(cap'.packets, ing.schema)
    BY <1>0, <2>2, PushKeeps, Zenon DEF CapInv, Looping
  <2>4. cap.schema \in {None, ing.schema}
    BY <2>2, Zenon DEF CapInv, Looping
  <2>5. Counted(cap)'
    BY <2>3, Zenon DEF Counted
  <2>. QED BY <2>1, <2>2, <2>3, <2>4, <2>5, Zenon DEF CapInv, Looping
<1>3. CASE WipeCap
  <2>1. ing'.pc = "dial" /\ cap' = EmptyCap /\ UNCHANGED file
    BY <1>0, <1>3, ThreadSteps, Zenon DEF WipeCap
  <2>2. Counted(cap)'
    BY <2>1, EmptyCapIs, Zenon DEF Counted
  <2>. QED BY <2>1, <2>2, EmptyCapIs, IngestAssumption DEF CapInv, Looping
<1>4. CASE Partial \/ Dial \/ ReadSchema \/ SchemaFails \/ Build \/ StopSeen \/ ReadPrefix
             \/ ReadBody \/ Lost \/ Dispatch \/ Backoff \/ Wipe
  <2>1. UNCHANGED <<cap, file>>
    BY <1>4, Zenon DEF Partial, Dial, ReadSchema, SchemaFails, Build, StopSeen, ReadPrefix, ReadBody,
                Lost, Dispatch, Backoff, Wipe
  <2>2. \/ ing'.pc \in {"off", "backoff", "wipe", "wipecap"}
        \/ ing.pc \in {"dial", "schema", "build"} /\ ing'.pc \in {"dial", "schema", "build"}
        \/ ing.pc \in Looping /\ ing'.schema = ing.schema
    <3>1. CASE Partial
      BY <1>0, <3>1, ThreadSteps, Zenon DEF Partial, Looping
    <3>2. CASE Dial
      BY <1>0, <3>2, ThreadSteps, Zenon DEF Dial
    <3>3. CASE ReadSchema
      BY <1>0, <3>3, ThreadSteps, Zenon DEF ReadSchema
    <3>4. CASE SchemaFails
      BY <1>0, <3>4, ThreadSteps, Zenon DEF SchemaFails
    <3>5. CASE Build
      BY <1>0, <3>5, Zenon DEF Build, Threads
    <3>6. CASE StopSeen
      BY <1>0, <3>6, ThreadSteps, Zenon DEF StopSeen
    <3>7. CASE ReadPrefix
      BY <1>0, <3>7, ThreadSteps, Zenon DEF ReadPrefix, Looping
    <3>8. CASE ReadBody
      BY <1>0, <3>8, Zenon DEF ReadBody, Threads, Looping
    <3>9. CASE Lost
      BY <1>0, <3>9, ThreadSteps, Zenon DEF Lost
    <3>10. CASE Dispatch
      BY <1>0, <3>10, ThreadSteps, Zenon DEF Dispatch, Looping
    <3>11. CASE Backoff
      BY <1>0, <3>11, ThreadSteps, Zenon DEF Backoff
    <3>12. CASE Wipe
      BY <1>0, <3>12, ThreadSteps, Zenon DEF Wipe
    <3>. QED BY <1>4, <3>1, <3>2, <3>3, <3>4, <3>5, <3>6, <3>7, <3>8, <3>9, <3>10, <3>11, <3>12, Zenon
  <2>3. ing.pc \in Looping => ing'.pc \notin {"dial", "schema", "build"}
    <3>1. ing.pc \notin Looping \/ Partial \/ StopSeen \/ ReadPrefix \/ ReadBody \/ Lost \/ Dispatch
      BY <1>4, Zenon DEF Dial, ReadSchema, SchemaFails, Build, Backoff, Wipe, Looping
    <3>2. CASE Partial
      BY <1>0, <3>2, ThreadSteps, Zenon DEF Partial, Looping
    <3>3. CASE ReadBody
      BY <1>0, <3>3, Zenon DEF ReadBody, Threads
    <3>4. CASE StopSeen \/ ReadPrefix \/ Lost \/ Dispatch
      BY <1>0, <3>4, ThreadSteps, Zenon DEF StopSeen, ReadPrefix, Lost, Dispatch
    <3>. QED BY <3>1, <3>2, <3>3, <3>4, Zenon
  <2>4. Counted(cap)'
    BY <2>1, Zenon DEF CapInv, Counted
  <2>. QED BY <2>1, <2>2, <2>3, <2>4, Zenon DEF CapInv, Looping
<1>. QED BY <1>1, <1>2, <1>3, <1>4, Zenon DEF IngestStep

\* So do the target and the user.
LEMMA CapInvUser ==
  ASSUME Typed, CapInv, Next, ~Partial, ~IngestStep
  PROVE CapInv'
<1>0. cap \in Caps /\ ing \in Threads /\ target.schema \in Schemas
  BY Zenon DEF Typed
<1>1. CASE ClearCap
  <2>1. UNCHANGED <<ing, file>> /\ cap' = EmptyCap
    BY <1>1, Zenon DEF ClearCap
  <2>2. AllOf(cap'.packets, ing.schema)
    BY <2>1, EmptyCapIs DEF AllOf
  <2>3. Counted(cap)'
    BY <2>1, EmptyCapIs, Zenon DEF Counted
  <2>. QED BY <2>1, <2>2, <2>3, EmptyCapIs, IngestAssumption DEF CapInv
<1>2. CASE Reconnect
  <2>1. ing'.pc = "dial" /\ cap' = EmptyCap /\ UNCHANGED file
    BY <1>0, <1>2, ThreadSteps, Zenon DEF Reconnect
  <2>2. Counted(cap)'
    BY <2>1, EmptyCapIs, Zenon DEF Counted
  <2>. QED BY <2>1, <2>2, EmptyCapIs, IngestAssumption DEF CapInv, Looping
<1>3. CASE Open
  <2>1. /\ cap' = Replayed([EmptyCap EXCEPT !.schema = file.schema], file.packets)
        /\ UNCHANGED <<ing, file>> /\ ing.pc = "off"
        /\ file \in Files /\ AllOf(file.packets, file.schema)
    BY <1>3, Zenon DEF Open, Typed, CapInv
  <2>2. file.schema \in Schemas /\ file.packets \in Seq(Packets)
    <3>. HIDE DEF Packets
    <3>. QED BY <2>1, Zenon DEF Files
  <2>3. /\ Counted(cap') /\ cap'.bytes <= CapBytes /\ cap'.schema = file.schema
        /\ AllOf(cap'.packets, file.schema)
    BY <2>1, <2>2, ReplayKeeps, Zenon
  <2>4. Counted(cap)'
    BY <2>3, Zenon DEF Counted
  <2>. QED BY <2>1, <2>3, <2>4, Zenon DEF CapInv, Looping
<1>4. CASE Save
  <2>1. UNCHANGED <<ing, cap>>
    BY <1>4, Zenon DEF Save
  <2>2. file' # None => AllOf(file'.packets, file'.schema)
    BY <1>4, Zenon DEF Save, CapInv
  <2>3. Counted(cap)'
    BY <2>1, Zenon DEF CapInv, Counted
  <2>. QED BY <2>1, <2>2, <2>3, Zenon DEF CapInv
<1>5. CASE Crash \/ Boot \/ ClearStore \/ SaveDialog \/ Plot \/ \E next \in {"reconnect", "open"} : DropHandle(next)
  <2>1. UNCHANGED <<ing, cap, file>>
    BY <1>5, Zenon DEF Crash, Boot, ClearStore, SaveDialog, Plot, DropHandle
  <2>2. Counted(cap)'
    BY <2>1, Zenon DEF CapInv, Counted
  <2>. QED BY <2>1, <2>2, Zenon DEF CapInv
<1>. QED BY <1>1, <1>2, <1>3, <1>4, <1>5, Zenon DEF Next, UiStep
\* Every step keeps the types and the ring in order.
LEMMA CapInvNext == Typed /\ CapInv /\ [Next]_vars => Typed' /\ CapInv'
<1>. SUFFICES ASSUME Typed, CapInv, [Next]_vars PROVE Typed' /\ CapInv'
  BY Zenon
<1>1. CASE Next
  <2>1. Typed'
    BY <1>1, TypedMoves, TypedElse, TypedFills, TypedUser, Zenon DEF Next, IngestStep, UiStep
  <2>2. CapInv'
    BY <1>1, <2>1, CapInvThread, CapInvUser, Zenon
  <2>. QED BY <2>1, <2>2, Zenon
<1>2. CASE UNCHANGED vars
  <2>1. UNCHANGED <<target, ing, store, cap, file, ui>>
    BY <1>2, Zenon DEF vars
  <2>2. Counted(cap)'
    BY <2>1, Zenon DEF CapInv, Counted
  <2>. QED BY <2>1, <2>2, ZenonT(30) DEF Typed, CapInv
<1>. QED BY <1>1, <1>2, Zenon

\* Spec keeps the types and the ring in order.
THEOREM CaptureInvariant == Spec => [](Typed /\ CapInv)
<1>1. Init => Typed /\ CapInv
  BY TypedInit, CapInvInit, Zenon
<1>. QED BY <1>1, CapInvNext, PTL DEF Spec

\* Capture::set_schema, push_packet, clear and the replay of a file: whatever the
\* target announces and the user does, packets in the ring and in saved files were
\* received under the schema they are kept with.
THEOREM CaptureKeepsSchema == Spec => []CaptureConsistent
<1>1. Typed /\ CapInv => CaptureConsistent
  BY Zenon DEF CapInv, AllOf, CaptureConsistent
<1>. QED BY <1>1, CaptureInvariant, PTL

\* evict_to_fit and the counters of Inner: the ring keeps to its budget and every
\* packet is in it or counted as dropped, for any sizes and budget.
THEOREM CaptureKeepsAccounts == Spec => []CaptureAccounting
<1>1. Typed /\ CapInv => CaptureAccounting
  BY Zenon DEF CapInv, Counted, CaptureAccounting
<1>. QED BY <1>1, CaptureInvariant, PTL

-----------------------------------------------------------------------------
(* The store and the schema, when nobody clears a live source *)

\* The empty store is in order.
LEMMA LiveInit == Init => LiveInv
<1>. SUFFICES ASSUME Init PROVE LiveInv
  BY Zenon
<1>1. SamplesBelong /\ Saveable
  BY EmptyCapIs DEF Init, SamplesBelong, Saveable
<1>. QED BY <1>1, Zenon DEF Init, LiveInv, Mapped, Looping

\* Steps that touch neither the store nor the ring.
LEMMA LiveMoves ==
  ASSUME Typed, LiveInv, "clear" \notin Uses,
         Partial \/ Dial \/ ReadSchema \/ SchemaFails \/ StopSeen \/ ReadPrefix \/ ReadBody
           \/ Lost \/ Backoff
  PROVE LiveInv'
<1>0. ing \in Threads /\ target.schema \in Schemas
  BY Zenon DEF Typed
<1>1. UNCHANGED <<store, cap, ui>>
  BY Zenon DEF Partial, Dial, ReadSchema, SchemaFails, StopSeen, ReadPrefix, ReadBody, Lost, Backoff
<1>2. SamplesBelong' /\ Saveable'
  BY <1>1, Zenon DEF LiveInv, SamplesBelong, Saveable
<1>3. \/ ing'.pc \in {"off", "backoff", "wipe"}
      \/ ing.pc \in {"dial", "schema"} /\ ing'.pc = "schema"
      \/ ing.pc \in Looping /\ ing'.pc \in Looping /\ ing'.schema = ing.schema /\ ing'.map = ing.map
      \/ ing.pc = "schema" /\ ing'.pc = "build" /\ ing'.map = <<>>
  <2>1. CASE Partial
    BY <1>0, <2>1, ThreadSteps, Zenon DEF Partial, Looping
  <2>2. CASE Dial
    BY <1>0, <2>2, ThreadSteps, Zenon DEF Dial
  <2>3. CASE ReadSchema
    BY <1>0, <2>3, ThreadSteps, Zenon DEF ReadSchema
  <2>4. CASE SchemaFails
    BY <1>0, <2>4, ThreadSteps, Zenon DEF SchemaFails
  <2>5. CASE StopSeen
    BY <1>0, <2>5, ThreadSteps, Zenon DEF StopSeen
  <2>6. CASE ReadPrefix
    BY <1>0, <2>6, ThreadSteps, Zenon DEF ReadPrefix, Looping
  <2>7. CASE ReadBody
    BY <1>0, <2>7, Zenon DEF ReadBody, Threads, Looping
  <2>8. CASE Lost
    BY <1>0, <2>8, ThreadSteps, Zenon DEF Lost
  <2>9. CASE Backoff
    BY <1>0, <2>9, ThreadSteps, Zenon DEF Backoff
  <2>. QED BY <2>1, <2>2, <2>3, <2>4, <2>5, <2>6, <2>7, <2>8, <2>9, Zenon
<1>4. CASE ing.pc = "schema" /\ ing'.pc = "build" /\ ing'.map = <<>>
  <2>1. Len(<<>>) = 0 /\ store = <<>>
    BY <1>4, Zenon DEF LiveInv
  <2>. QED BY <1>1, <1>2, <1>4, <2>1 DEF LiveInv, Mapped, Looping
<1>5. CASE ~(ing.pc = "schema" /\ ing'.pc = "build" /\ ing'.map = <<>>)
  BY <1>1, <1>2, <1>3, <1>5, Zenon DEF LiveInv, Mapped, Looping
<1>. QED BY <1>4, <1>5, Zenon

\* ChannelMap::build: the new channel's id is its place in the schema.
LEMMA LiveBuild ==
  ASSUME Typed, LiveInv, Build
  PROVE LiveInv'
<1>. DEFINE n == Len(ing.map)
            ch == Channel(ing.schema[n + 1])
<1>0. /\ ing \in Threads /\ target.schema \in Schemas /\ ing.map \in Seq(Nat) /\ store \in Seq(Chans)
      /\ n \in Nat
  BY DEF Typed, Threads, Ids
<1>1. /\ ing.pc = "build" /\ store' = Append(store, ch) /\ UNCHANGED <<cap, ui>>
      /\ Len(store) = n
      /\ \A i \in 1 .. n : ing.map[i] = i /\ store[i].path = ing.schema[i]
  BY Zenon DEF Build, LiveInv, Mapped
<1>2. /\ ing'.pc = "build" /\ ing'.schema = ing.schema /\ ing'.map = Append(ing.map, n + 1)
  BY <1>0, <1>1, ThreadSteps DEF Ids
<1>3. ch.path = ing.schema[n + 1] /\ ch.got = {}
  BY Zenon DEF Channel
<1>. HIDE DEF n, ch
<1>4. /\ Len(store') = n + 1 /\ Len(ing'.map) = n + 1
      /\ \A i \in 1 .. n + 1 : store'[i] = IF i <= n THEN store[i] ELSE ch
      /\ \A i \in 1 .. n + 1 : ing'.map[i] = IF i <= n THEN ing.map[i] ELSE n + 1
  <2>. HIDE DEF Chans
  <2>. QED BY <1>0, <1>1, <1>2 DEF n
<1>5. ASSUME NEW i \in 1 .. n + 1 PROVE ing'.map[i] = i /\ store'[i].path = ing'.schema[i]
  <2>1. CASE i <= n
    BY <1>0, <1>1, <1>2, <1>4, <2>1
  <2>2. CASE i = n + 1
    BY <1>0, <1>2, <1>3, <1>4, <2>2
  <2>. QED BY <1>0, <2>1, <2>2
<1>6. SamplesBelong'
  <2>1. DOMAIN store' = 1 .. n + 1 /\ DOMAIN store = 1 .. n
    <3>. HIDE DEF Chans
    <3>. QED BY <1>0, <1>1
  <2>2. ASSUME NEW i \in 1 .. n + 1 PROVE store'[i].got \subseteq {store'[i].path}
    <3>1. CASE i <= n
      <4>1. i \in DOMAIN store /\ store'[i] = store[i]
        BY <1>0, <1>4, <2>1, <3>1
      <4>. QED BY <4>1, Zenon DEF LiveInv, SamplesBelong
    <3>2. CASE i = n + 1
      <4>1. store'[i] = ch
        BY <1>0, <1>4, <3>2
      <4>. QED BY <1>3, <4>1, Zenon
    <3>. QED BY <1>0, <3>1, <3>2
  <2>. QED BY <2>1, <2>2, Zenon DEF SamplesBelong
<1>7. Saveable'
  BY <1>1, Zenon DEF LiveInv, Saveable
<1>. QED BY <1>1, <1>2, <1>4, <1>5, <1>6, <1>7, Zenon DEF LiveInv, Mapped, Looping
\* A packet whose map sends every sample to the channel of its own path keeps
\* the samples apart.
LEMMA PushedBelong ==
  ASSUME NEW st \in Seq(Chans), NEW a \in Seq(Nat), NEW s \in Schemas, Len(a) <= Len(s),
         Len(st) = Len(a), \A i \in 1 .. Len(a) : a[i] = i /\ st[i].path = s[i],
         \A c \in 1 .. Len(st) : st[c].got \subseteq {st[c].path}
  PROVE /\ DOMAIN Pushed(st, a, s) = 1 .. Len(st)
        /\ \A c \in 1 .. Len(st) :
             /\ Pushed(st, a, s)[c].got \subseteq {Pushed(st, a, s)[c].path}
             /\ Pushed(st, a, s)[c].path = st[c].path
<1>. DEFINE t == Pushed(st, a, s)
<1>1. /\ t \in Seq(Chans) /\ Len(t) = Len(st)
      /\ \A c \in 1 .. Len(st) : t[c].path = st[c].path /\ t[c].got = st[c].got \cup Sent(a, s, c)
  BY PushedKeeps
<1>2. DOMAIN a = 1 .. Len(a) /\ Len(a) \in Nat
  OBVIOUS
<1>3. ASSUME NEW c \in 1 .. Len(st) PROVE Sent(a, s, c) \subseteq {st[c].path}
  BY <1>2 DEF Sent
<1>. HIDE DEF t
<1>4. DOMAIN t = 1 .. Len(st)
  <2>. HIDE DEF Chans
  <2>. QED BY <1>1
<1>5. ASSUME NEW c \in 1 .. Len(st) PROVE t[c].got \subseteq {t[c].path} /\ t[c].path = st[c].path
  BY <1>1, <1>3, Zenon
<1>. QED BY <1>4, <1>5, Zenon DEF t

\* Dispatching, pushing and wiping.
LEMMA LiveFills ==
  ASSUME Typed, CapInv, LiveInv, Announce \/ Dispatch \/ Push \/ Wipe \/ WipeCap
  PROVE LiveInv'
<1>0. /\ ing \in Threads /\ target.schema \in Schemas /\ ing.map \in Seq(Nat) /\ store \in Seq(Chans)
      /\ cap \in Caps
      /\ ing.pc \in Mapped => ing.schema \in Schemas /\ Len(ing.map) <= Len(ing.schema)
      /\ ing.pc \in {"dispatch", "push"} => ing.pkt \in Packets
  BY Zenon DEF Typed, Threads, Ids
<1>1. CASE Announce
  <2>1. /\ ing.pc = "build" /\ cap' = [cap EXCEPT !.schema = ing.schema] /\ UNCHANGED <<store, ui>>
    BY <1>1, Zenon DEF Announce
  <2>2. cap'.schema = ing.schema /\ ing.schema # None
    BY <1>0, <2>1, CapSchema, IngestAssumption, ZenonT(30) DEF Mapped
  <2>3. ing'.pc = "prefix" /\ ing'.schema = ing.schema /\ ing'.map = ing.map
    BY <1>0, <1>1, ThreadSteps, Zenon
  <2>4. SamplesBelong' /\ Saveable'
    BY <2>1, <2>2, Zenon DEF LiveInv, SamplesBelong, Saveable
  <2>. QED BY <2>1, <2>2, <2>3, <2>4, Zenon DEF LiveInv, Mapped, Looping
<1>2. CASE Dispatch
  <2>1. ing.pc = "dispatch" /\ store' = Pushed(store, ing.map, ing.schema) /\ UNCHANGED <<cap, ui>>
    BY <1>2, Zenon DEF Dispatch
  <2>2. ing'.pc = "push" /\ ing'.schema = ing.schema /\ ing'.map = ing.map
    BY <1>0, <1>2, ThreadSteps, Zenon DEF Dispatch
  <2>3. /\ Len(store) = Len(ing.map) /\ ing.schema \in Schemas /\ Len(ing.map) <= Len(ing.schema)
        /\ \A i \in 1 .. Len(ing.map) : ing.map[i] = i /\ store[i].path = ing.schema[i]
    BY <1>0, <2>1, Zenon DEF LiveInv, Mapped, Looping
  <2>4. DOMAIN store = 1 .. Len(store)
    <3>. HIDE DEF Chans
    <3>. QED BY <1>0
  <2>5. \A c \in 1 .. Len(store) : store[c].got \subseteq {store[c].path}
    BY <2>4, Zenon DEF LiveInv, SamplesBelong
  <2>6. /\ DOMAIN store' = 1 .. Len(store)
        /\ \A c \in 1 .. Len(store) : store'[c].got \subseteq {store'[c].path} /\ store'[c].path = store[c].path
    <3>. DEFINE t == Pushed(store, ing.map, ing.schema)
    <3>1. /\ DOMAIN t = 1 .. Len(store)
          /\ \A c \in 1 .. Len(store) : t[c].got \subseteq {t[c].path} /\ t[c].path = store[c].path
      <4>. DEFINE a == ing.map
                  s == ing.schema
      <4>1. /\ store \in Seq(Chans) /\ a \in Seq(Nat) /\ s \in Schemas /\ Len(a) <= Len(s)
            /\ Len(store) = Len(a) /\ \A i \in 1 .. Len(a) : a[i] = i /\ store[i].path = s[i]
        BY <1>0, <2>3, Zenon
      <4>2. t = Pushed(store, a, s)
        BY Zenon
      <4>. HIDE DEF a, s, t
      <4>3. /\ DOMAIN Pushed(store, a, s) = 1 .. Len(store)
            /\ \A c \in 1 .. Len(store) :
                 /\ Pushed(store, a, s)[c].got \subseteq {Pushed(store, a, s)[c].path}
                 /\ Pushed(store, a, s)[c].path = store[c].path
        BY <2>5, <4>1, PushedBelong, SMTT(30)
      <4>. QED BY <4>2, <4>3, Zenon
    <3>. HIDE DEF t
    <3>2. store' = t
      BY <2>1, Zenon DEF t
    <3>. QED BY <3>1, <3>2, Zenon
  <2>7. Len(store') = Len(store)
    BY <1>0, <2>1, <2>3, PushedKeeps
  <2>8. SamplesBelong' /\ Saveable'
    BY <2>1, <2>6, Zenon DEF LiveInv, SamplesBelong, Saveable
  <2>. QED BY <2>1, <2>2, <2>3, <2>6, <2>7, <2>8 DEF LiveInv, Mapped, Looping
<1>3. CASE Push
  <2>1. ing.pc = "push" /\ cap' = PushPacket(cap, ing.pkt) /\ UNCHANGED <<store, ui>>
    BY <1>3, Zenon DEF Push
  <2>2. ing'.pc = "prefix" /\ ing'.schema = ing.schema /\ ing'.map = ing.map
    BY <1>0, <1>3, ThreadSteps, Zenon
  <2>3. cap'.schema = cap.schema
    BY <1>0, <2>1, PushKeeps, Zenon DEF CapInv
  <2>4. cap.schema = ing.schema /\ ing.schema # None
    BY <1>0, <2>1, IngestAssumption, Zenon DEF LiveInv, Mapped, Looping
  <2>5. SamplesBelong' /\ Saveable'
    BY <2>1, <2>3, <2>4, Zenon DEF LiveInv, SamplesBelong, Saveable
  <2>. QED BY <2>1, <2>2, <2>3, <2>4, <2>5, Zenon DEF LiveInv, Mapped, Looping
<1>4. CASE Wipe
  <2>1. store' = <<>> /\ UNCHANGED <<cap, ui>> /\ ing'.pc = "wipecap"
    BY <1>0, <1>4, ThreadSteps, Zenon DEF Wipe
  <2>2. SamplesBelong' /\ Saveable'
    BY <2>1 DEF LiveInv, SamplesBelong, Saveable
  <2>. QED BY <2>1, <2>2, Zenon DEF LiveInv, Mapped, Looping
<1>5. CASE WipeCap
  <2>1. /\ ing.pc = "wipecap" /\ store' = store /\ UNCHANGED ui /\ cap' = EmptyCap
        /\ ing'.pc = "dial"
    BY <1>0, <1>5, ThreadSteps, Zenon DEF WipeCap
  <2>2. SamplesBelong' /\ Saveable'
    BY <2>1, EmptyCapIs, Zenon DEF LiveInv, SamplesBelong, Saveable
  <2>. QED BY <2>1, <2>2, Zenon DEF LiveInv, Mapped, Looping
<1>. QED BY <1>1, <1>2, <1>3, <1>4, <1>5, Zenon

\* The target, and a user who does not clear.
LEMMA LiveUser ==
  ASSUME Typed, CapInv, LiveInv, "clear" \notin Uses, Next, ~Partial, ~IngestStep
  PROVE LiveInv'
<1>0. ing \in Threads /\ target.schema \in Schemas
  BY Zenon DEF Typed
<1>1. ~ClearStore /\ ~ClearCap
  BY Zenon DEF LiveInv, ClearStore, ClearCap
<1>2. CASE Reconnect
  <2>1. store' = <<>> /\ cap' = EmptyCap /\ ui' = "idle" /\ ing'.pc = "dial"
    BY <1>0, <1>2, ThreadSteps, Zenon DEF Reconnect
  <2>2. SamplesBelong' /\ Saveable'
    BY <2>1, EmptyCapIs DEF SamplesBelong, Saveable
  <2>. QED BY <2>1, <2>2, Zenon DEF LiveInv, Mapped, Looping
<1>3. CASE Open
  <2>. DEFINE fs == file.schema
              st == [i \in DOMAIN fs |-> Channel(fs[i])]
              ids == [i \in DOMAIN fs |-> i]
  <2>1. /\ store' = IF file.packets = <<>> THEN st ELSE Pushed(st, ids, fs)
        /\ cap' = Replayed([EmptyCap EXCEPT !.schema = fs], file.packets)
        /\ UNCHANGED ing /\ ing.pc = "off" /\ ui' = "idle"
        /\ file \in Files /\ AllOf(file.packets, fs)
    BY <1>3, Zenon DEF Open, Typed, CapInv
  <2>2. fs \in Schemas /\ file.packets \in Seq(Packets)
    <3>. HIDE DEF Packets
    <3>. QED BY <2>1, Zenon DEF Files
  <2>3. /\ st \in Seq(Chans) /\ ids \in Seq(Nat) /\ Len(st) = Len(fs) /\ Len(ids) = Len(fs)
        /\ Len(ids) <= Len(fs)
        /\ \A i \in 1 .. Len(fs) : ids[i] = i /\ st[i].path = fs[i] /\ st[i].got = {}
    BY <2>2, OpenChannels, Zenon
  <2>4. cap'.schema # None
    <3>1. cap'.schema = fs
      BY <2>1, <2>2, ReplayKeeps, Zenon
    <3>. HIDE DEF fs
    <3>. QED BY <2>2, <3>1, IngestAssumption, Zenon
  <2>. HIDE DEF st, ids, fs
  <2>5. DOMAIN st = 1 .. Len(st)
    <3>. HIDE DEF Chans
    <3>. QED BY <2>3
  <2>6. SamplesBelong'
    <3>1. CASE file.packets = <<>>
      BY <2>1, <2>3, <2>5, <3>1, Zenon DEF SamplesBelong
    <3>2. CASE file.packets # <<>>
      <4>1. /\ DOMAIN store' = 1 .. Len(st)
            /\ \A c \in 1 .. Len(st) : store'[c].got \subseteq {store'[c].path}
        BY <2>1, <2>2, <2>3, <3>2, PushedBelong
      <4>. QED BY <4>1, Zenon DEF SamplesBelong
    <3>. QED BY <3>1, <3>2, Zenon
  <2>7. Saveable'
    BY <2>4, Zenon DEF Saveable
  <2>. QED BY <2>1, <2>6, <2>7, Zenon DEF LiveInv, Mapped, Looping
<1>4. CASE Crash \/ Boot \/ Save \/ SaveDialog \/ Plot \/ \E next \in {"reconnect", "open"} : DropHandle(next)
  <2>1. UNCHANGED <<ing, store, cap>> /\ ui' # "clear"
    BY <1>4, Zenon DEF LiveInv, Crash, Boot, Save, SaveDialog, Plot, DropHandle
  <2>2. SamplesBelong' /\ Saveable'
    BY <2>1, Zenon DEF LiveInv, SamplesBelong, Saveable
  <2>. QED BY <2>1, <2>2, Zenon DEF LiveInv
<1>. QED BY <1>1, <1>2, <1>3, <1>4, Zenon DEF Next, UiStep

\* The inductive invariant of a source that nobody clears.
LEMMA LiveNext ==
  ASSUME "clear" \notin Uses
  PROVE Typed /\ CapInv /\ LiveInv /\ [Next]_vars => LiveInv'
<1>. SUFFICES ASSUME Typed, CapInv, LiveInv, [Next]_vars PROVE LiveInv'
  BY Zenon
<1>1. CASE Next
  BY <1>1, LiveMoves, LiveBuild, LiveFills, LiveUser, Zenon DEF IngestStep
<1>2. CASE UNCHANGED vars
  <2>1. UNCHANGED <<ing, store, cap, ui>>
    BY <1>2, Zenon DEF vars
  <2>2. SamplesBelong' /\ Saveable'
    BY <2>1, Zenon DEF LiveInv, SamplesBelong, Saveable
  <2>. QED BY <2>1, <2>2, Zenon DEF LiveInv
<1>. QED BY <1>1, <1>2, Zenon

\* Spec keeps it.
LEMMA LiveInvariant == ASSUME "clear" \notin Uses PROVE Spec => []LiveInv
<1>1. Typed /\ CapInv /\ LiveInv /\ [Next]_vars => LiveInv'
  BY LiveNext, Zenon
<1>. QED BY <1>1, LiveInit, CaptureInvariant, PTL DEF Spec

\* ChannelMap and the store: as long as nobody presses Clear on a live source, a
\* sample only ever reaches the channel of its own path, over any number of
\* reconnections, schemas and opened files.
THEOREM SamplesReachTheirChannels == ASSUME "clear" \notin Uses PROVE Spec => []SamplesBelong
<1>1. LiveInv => SamplesBelong
  BY Zenon DEF LiveInv
<1>. QED BY <1>1, LiveInvariant, PTL

\* do_save_capture: as long as nobody presses Clear, the ring has a schema whenever
\* it has packets, so that it can be saved.
THEOREM CaptureCanBeSaved == ASSUME "clear" \notin Uses PROVE Spec => []Saveable
<1>1. LiveInv => Saveable
  BY Zenon DEF LiveInv
<1>. QED BY <1>1, LiveInvariant, PTL
=============================================================================
