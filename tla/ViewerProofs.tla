---------------------------- MODULE ViewerProofs ----------------------------
(***************************************************************************)
(* Markers and links stay consistent and a layout keeps them, the time     *)
(* axis keeps a proper view, and the layouts keep to their files, for any  *)
(* markers, files, times, zoom factors, windows, names and slugs, with all *)
(* parts of the viewer at work at once.                                    *)
(***************************************************************************)
EXTENDS Viewer, RetainProofs

-----------------------------------------------------------------------------
(* Markers and links, as values *)

Pos   == Nat \ {0}
Marks == [id : Pos, t : Places]
Joins == [id : Pos, a : Pos, b : Pos, y : Heights]

Has(ms, x) == \E i \in 1 .. Len(ms) : ms[i].id = x

\* What MarkersConsistent says of a list of markers, one of links, a selection
\* and the two next ids, with their types.
Sound(ms, ls, sel, ni, nl) ==
  /\ ms \in Seq(Marks) /\ ls \in Seq(Joins) /\ ni \in Pos /\ nl \in Pos
  /\ \A i, j \in 1 .. Len(ms) : ms[i].id = ms[j].id => i = j
  /\ \A i, j \in 1 .. Len(ls) : ls[i].id = ls[j].id => i = j
  /\ \A i \in 1 .. Len(ms) : ms[i].id < ni
  /\ \A i \in 1 .. Len(ls) :
       /\ ls[i].id < nl /\ ls[i].a # ls[i].b
       /\ Has(ms, ls[i].a) /\ Has(ms, ls[i].b)
  /\ sel = None \/ Has(ms, sel)

\* MarkerSet::new: nothing at all.
LEMMA SoundEmpty == Sound(<<>>, <<>>, None, 1, 1)
<1>1. <<>> \in Seq(Marks) /\ <<>> \in Seq(Joins) /\ Len(<<>>) = 0 /\ 1 \in Pos /\ 1 .. 0 = {}
  BY DEF Pos
<1>. QED BY <1>1, Zenon DEF Sound

\* MarkerSet::add and select: one marker more, with the next id.
LEMMA SoundAdd ==
  ASSUME NEW ms, NEW ls, NEW sel, NEW ni, NEW nl, Sound(ms, ls, sel, ni, nl), NEW x \in Places
  PROVE LET q == Append(ms, [id |-> ni, t |-> x])
        IN /\ Sound(q, ls, ni, ni + 1, nl)
           /\ \A i \in 1 .. Len(ms) : ms[i].id # ni
           /\ \A y : Has(ms, y) => Has(q, y) /\ y # ni
           /\ Has(q, ni)
<1>. DEFINE m == [id |-> ni, t |-> x]
            q == Append(ms, m)
            n == Len(ms)
<1>1. /\ ms \in Seq(Marks) /\ ls \in Seq(Joins) /\ ni \in Pos /\ nl \in Pos
      /\ \A i, j \in 1 .. n : ms[i].id = ms[j].id => i = j
      /\ \A i, j \in 1 .. Len(ls) : ls[i].id = ls[j].id => i = j
      /\ \A i \in 1 .. n : ms[i].id < ni
      /\ \A i \in 1 .. Len(ls) : /\ ls[i].id < nl /\ ls[i].a # ls[i].b
                                 /\ Has(ms, ls[i].a) /\ Has(ms, ls[i].b)
  BY Zenon DEF Sound
<1>2. m \in Marks /\ m.id = ni /\ n \in Nat /\ ni \in Nat /\ ni + 1 \in Pos
  BY <1>1 DEF Marks, Pos
<1>. HIDE DEF m
<1>3. /\ q \in Seq(Marks) /\ Len(q) = n + 1
      /\ \A i \in 1 .. n + 1 : q[i] = IF i <= n THEN ms[i] ELSE m
  BY <1>1, <1>2
<1>4. \A i \in 1 .. n : ms[i].id \in Nat
  <2>. TAKE i \in 1 .. n
  <2>1. ms[i] \in Marks
    BY <1>1, ElementOfSeq, Zenon
  <2>. QED BY <2>1, Zenon DEF Marks, Pos
<1>. HIDE DEF q, n
<1>5. \A i \in 1 .. n : ms[i].id # ni
  BY <1>1, <1>2, <1>4
<1>6. \A i, j \in 1 .. n + 1 : q[i].id = q[j].id => i = j
  BY <1>1, <1>2, <1>3, <1>5, SMTT(30)
<1>7. \A i \in 1 .. n + 1 : q[i].id < ni + 1
  BY <1>1, <1>2, <1>3, <1>4, SMTT(30)
<1>8. Has(q, ni)
  <2>1. n + 1 \in 1 .. n + 1 /\ q[n + 1].id = ni
    BY <1>2, <1>3
  <2>. QED BY <1>3, <2>1, Zenon DEF Has
<1>9. ASSUME NEW y, Has(ms, y) PROVE Has(q, y) /\ y # ni
  <2>1. PICK i \in 1 .. n : ms[i].id = y
    BY <1>9, Zenon DEF Has, n
  <2>2. i \in 1 .. n + 1 /\ q[i] = ms[i]
    BY <1>2, <1>3
  <2>. QED BY <1>3, <1>5, <2>1, <2>2, Zenon DEF Has
<1>10. Sound(q, ls, ni, ni + 1, nl)
  BY <1>1, <1>2, <1>3, <1>6, <1>7, <1>8, <1>9, Zenon DEF Sound
<1>. QED BY <1>5, <1>8, <1>9, <1>10, Zenon DEF q, m, n

\* MarkerSet::link of two different markers that exist.
LEMMA SoundLink ==
  ASSUME NEW ms, NEW ls, NEW sel, NEW ni, NEW nl, Sound(ms, ls, sel, ni, nl),
         NEW a, NEW b, a # b, Has(ms, a), Has(ms, b), Mid \in Heights
  PROVE Sound(ms, Append(ls, [id |-> nl, a |-> a, b |-> b, y |-> Mid]), sel, ni, nl + 1)
<1>. DEFINE l == [id |-> nl, a |-> a, b |-> b, y |-> Mid]
            q == Append(ls, l)
            n == Len(ls)
<1>1. /\ ms \in Seq(Marks) /\ ls \in Seq(Joins) /\ ni \in Pos /\ nl \in Pos
      /\ \A i, j \in 1 .. Len(ms) : ms[i].id = ms[j].id => i = j
      /\ \A i, j \in 1 .. n : ls[i].id = ls[j].id => i = j
      /\ \A i \in 1 .. Len(ms) : ms[i].id < ni
      /\ \A i \in 1 .. n : /\ ls[i].id < nl /\ ls[i].a # ls[i].b
                           /\ Has(ms, ls[i].a) /\ Has(ms, ls[i].b)
      /\ sel = None \/ Has(ms, sel)
  BY Zenon DEF Sound
<1>2. \A y : Has(ms, y) => y \in Pos
  <2>. SUFFICES ASSUME NEW i \in 1 .. Len(ms) PROVE ms[i].id \in Pos
    BY Zenon DEF Has
  <2>1. ms[i] \in Marks
    BY <1>1, ElementOfSeq, Zenon
  <2>. QED BY <2>1, Zenon DEF Marks
<1>3. a \in Pos /\ b \in Pos
  BY <1>2, Zenon
<1>4. /\ l \in Joins /\ l.id = nl /\ l.a = a /\ l.b = b
      /\ n \in Nat /\ nl \in Nat /\ nl + 1 \in Pos
  BY <1>1, <1>3 DEF Joins, Pos
<1>. HIDE DEF l
<1>5. /\ q \in Seq(Joins) /\ Len(q) = n + 1
      /\ \A i \in 1 .. n + 1 : q[i] = IF i <= n THEN ls[i] ELSE l
  BY <1>1, <1>4
<1>6. \A i \in 1 .. n : ls[i].id \in Nat /\ ls[i].id # nl
  <2>. TAKE i \in 1 .. n
  <2>1. ls[i] \in Joins
    BY <1>1, ElementOfSeq, Zenon
  <2>2. ls[i].id \in Nat
    BY <2>1, Zenon DEF Joins, Pos
  <2>. QED BY <1>1, <1>4, <2>2
<1>. HIDE DEF q, n
<1>7. \A i, j \in 1 .. n + 1 : q[i].id = q[j].id => i = j
  BY <1>1, <1>4, <1>5, <1>6, SMTT(30)
<1>8. ASSUME NEW i \in 1 .. n + 1
      PROVE q[i].id < nl + 1 /\ q[i].a # q[i].b /\ Has(ms, q[i].a) /\ Has(ms, q[i].b)
  <2>1. CASE i <= n
    <3>1. i \in 1 .. n /\ q[i] = ls[i]
      BY <1>4, <1>5, <2>1
    <3>. QED BY <1>1, <1>4, <1>6, <3>1
  <2>2. CASE ~(i <= n)
    BY <1>4, <1>5, <2>2
  <2>. QED BY <2>1, <2>2, Zenon
<1>9. Sound(ms, q, sel, ni, nl + 1)
  BY <1>1, <1>4, <1>5, <1>7, <1>8, Zenon DEF Sound
<1>. QED BY <1>9, Zenon DEF q, l

\* MarkerSet::select of a marker that exists, or of none.
LEMMA SoundSelect ==
  ASSUME NEW ms, NEW ls, NEW sel, NEW ni, NEW nl, Sound(ms, ls, sel, ni, nl),
         NEW x, x = None \/ Has(ms, x)
  PROVE Sound(ms, ls, x, ni, nl)
BY Zenon DEF Sound

MovedTo(ms, p, x) == [i \in DOMAIN ms |-> IF ms[i].id = p THEN [ms[i] EXCEPT !.t = x] ELSE ms[i]]
MovedUp(ls, q, y) == [i \in DOMAIN ls |-> IF ls[i].id = q THEN [ls[i] EXCEPT !.y = y] ELSE ls[i]]

\* A frame of a drag: times of markers and heights of links change, and no id.
LEMMA SoundMove ==
  ASSUME NEW ms, NEW ls, NEW sel, NEW ni, NEW nl, Sound(ms, ls, sel, ni, nl),
         NEW p, NEW q, NEW x \in Places, NEW y \in Heights
  PROVE Sound(MovedTo(ms, p, x), MovedUp(ls, q, y), sel, ni, nl)
<1>. DEFINE m == Len(ms)
            n == Len(ls)
            ms2 == [i \in DOMAIN ms |-> IF ms[i].id = p THEN [ms[i] EXCEPT !.t = x] ELSE ms[i]]
            ls2 == [i \in DOMAIN ls |-> IF ls[i].id = q THEN [ls[i] EXCEPT !.y = y] ELSE ls[i]]
<1>1. /\ ms \in Seq(Marks) /\ ls \in Seq(Joins) /\ ni \in Pos /\ nl \in Pos
      /\ \A i, j \in 1 .. m : ms[i].id = ms[j].id => i = j
      /\ \A i, j \in 1 .. n : ls[i].id = ls[j].id => i = j
      /\ \A i \in 1 .. m : ms[i].id < ni
      /\ \A i \in 1 .. n : /\ ls[i].id < nl /\ ls[i].a # ls[i].b
                           /\ Has(ms, ls[i].a) /\ Has(ms, ls[i].b)
      /\ sel = None \/ Has(ms, sel)
  BY Zenon DEF Sound
<1>2. m \in Nat /\ n \in Nat /\ DOMAIN ms = 1 .. m /\ DOMAIN ls = 1 .. n
  BY <1>1
<1>3. ASSUME NEW i \in 1 .. m PROVE ms2[i] \in Marks /\ ms2[i].id = ms[i].id
  <2>. DEFINE r == ms[i]
              r2 == [r EXCEPT !.t = x]
  <2>1. r \in Marks
    BY <1>1, ElementOfSeq, Zenon
  <2>2. ms2[i] = IF r.id = p THEN r2 ELSE r
    BY <1>2, Zenon
  <2>. HIDE DEF r
  <2>3. r2 \in Marks /\ r2.id = r.id
    BY <2>1, Zenon DEF Marks
  <2>. HIDE DEF r2, ms2
  <2>4. ms2[i] \in Marks /\ ms2[i].id = r.id
    BY <2>1, <2>2, <2>3, Zenon
  <2>. QED BY <2>4, Zenon DEF r
<1>4. ASSUME NEW i \in 1 .. n
      PROVE ls2[i] \in Joins /\ ls2[i].id = ls[i].id /\ ls2[i].a = ls[i].a /\ ls2[i].b = ls[i].b
  <2>. DEFINE r == ls[i]
              r2 == [r EXCEPT !.y = y]
  <2>1. r \in Joins
    BY <1>1, ElementOfSeq, Zenon
  <2>2. ls2[i] = IF r.id = q THEN r2 ELSE r
    BY <1>2, Zenon
  <2>. HIDE DEF r
  <2>3. r2 \in Joins /\ r2.id = r.id /\ r2.a = r.a /\ r2.b = r.b
    BY <2>1, Zenon DEF Joins
  <2>. HIDE DEF r2, ls2
  <2>4. ls2[i] \in Joins /\ ls2[i].id = r.id /\ ls2[i].a = r.a /\ ls2[i].b = r.b
    BY <2>1, <2>2, <2>3, Zenon
  <2>. QED BY <2>4, Zenon DEF r
<1>5. ms2 \in [1 .. m -> Marks] /\ ls2 \in [1 .. n -> Joins]
  <2>1. ms2 = [i \in 1 .. m |-> ms2[i]] /\ ls2 = [i \in 1 .. n |-> ls2[i]]
    BY <1>2, Zenon
  <2>. HIDE DEF ms2, ls2
  <2>. QED BY <1>3, <1>4, <2>1, Zenon
<1>. HIDE DEF ms2, ls2, m, n
<1>6. ms2 \in Seq(Marks) /\ Len(ms2) = m /\ ls2 \in Seq(Joins) /\ Len(ls2) = n
  BY <1>2, <1>5
<1>7. \A z : Has(ms, z) => Has(ms2, z)
  BY <1>3, <1>6, Zenon DEF Has, m
<1>8. Sound(ms2, ls2, sel, ni, nl)
  <2>1. \A i, j \in 1 .. m : ms2[i].id = ms2[j].id => i = j
    BY <1>1, <1>3, Zenon
  <2>2. \A i, j \in 1 .. n : ls2[i].id = ls2[j].id => i = j
    BY <1>1, <1>4, Zenon
  <2>3. \A i \in 1 .. m : ms2[i].id < ni
    BY <1>1, <1>3, Zenon
  <2>4. \A i \in 1 .. n : /\ ls2[i].id < nl /\ ls2[i].a # ls2[i].b
                          /\ Has(ms2, ls2[i].a) /\ Has(ms2, ls2[i].b)
    BY <1>1, <1>4, <1>7, Zenon
  <2>. QED BY <1>1, <1>6, <1>7, <2>1, <2>2, <2>3, <2>4, Zenon DEF Sound
<1>. QED BY <1>8, Zenon DEF ms2, ls2, MovedTo, MovedUp

\* MarkerSet::remove: the marker goes, and with it every link that ends there.
LEMMA SoundDelete ==
  ASSUME NEW ms, NEW ls, NEW sel, NEW ni, NEW nl, Sound(ms, ls, sel, ni, nl)
  PROVE Sound(Keep(ms, {i \in DOMAIN ms : ms[i].id # sel}),
              Keep(ls, {i \in DOMAIN ls : sel \notin {ls[i].a, ls[i].b}}), None, ni, nl)
<1>. DEFINE I == {i \in DOMAIN ms : ms[i].id # sel}
            J == {i \in DOMAIN ls : sel \notin {ls[i].a, ls[i].b}}
            p == Keep(ms, I)
            q == Keep(ls, J)
<1>1. /\ ms \in Seq(Marks) /\ ls \in Seq(Joins) /\ ni \in Pos /\ nl \in Pos
      /\ \A i, j \in 1 .. Len(ms) : ms[i].id = ms[j].id => i = j
      /\ \A i, j \in 1 .. Len(ls) : ls[i].id = ls[j].id => i = j
      /\ \A i \in 1 .. Len(ms) : ms[i].id < ni
      /\ \A i \in 1 .. Len(ls) : /\ ls[i].id < nl /\ ls[i].a # ls[i].b
                                 /\ Has(ms, ls[i].a) /\ Has(ms, ls[i].b)
  BY Zenon DEF Sound
<1>2. /\ \A i \in 1 .. Len(ms) : i \in I <=> ms[i].id # sel
      /\ \A i \in 1 .. Len(ls) : i \in J <=> ls[i].a # sel /\ ls[i].b # sel
  BY <1>1
<1>. HIDE DEF I, J
<1>3. p \in Seq(Marks) /\ \E g : Part(ms, I, Len(ms), p, g)
  BY <1>1, KeepIs, Zenon
<1>4. q \in Seq(Joins) /\ \E g : Part(ls, J, Len(ls), q, g)
  BY <1>1, KeepIs, Zenon
<1>. HIDE DEF p, q
<1>5. PICK g : Part(ms, I, Len(ms), p, g)
  BY <1>3, Zenon
<1>6. PICK h : Part(ls, J, Len(ls), q, h)
  BY <1>4, Zenon
<1>7. /\ \A a \in 1 .. Len(p) : g[a] \in 1 .. Len(ms) /\ g[a] \in I /\ p[a] = ms[g[a]]
      /\ \A a, b \in 1 .. Len(p) : g[a] = g[b] => a = b
      /\ \A i \in 1 .. Len(ms) : i \in I => \E a \in 1 .. Len(p) : g[a] = i
  BY <1>5, Zenon DEF Part
<1>8. /\ \A a \in 1 .. Len(q) : h[a] \in 1 .. Len(ls) /\ h[a] \in J /\ q[a] = ls[h[a]]
      /\ \A a, b \in 1 .. Len(q) : h[a] = h[b] => a = b
  BY <1>6, Zenon DEF Part
<1>9. ASSUME NEW y, Has(ms, y), y # sel PROVE Has(p, y)
  <2>1. PICK i \in 1 .. Len(ms) : ms[i].id = y
    BY <1>9, Zenon DEF Has
  <2>2. PICK a \in 1 .. Len(p) : g[a] = i
    BY <1>2, <1>7, <1>9, <2>1, Zenon
  <2>3. p[a].id = y
    BY <1>7, <2>1, <2>2, Zenon
  <2>. QED BY <2>3, Zenon DEF Has
<1>10. ASSUME NEW a \in 1 .. Len(p), NEW b \in 1 .. Len(p), p[a].id = p[b].id PROVE a = b
  <2>1. PICK i \in 1 .. Len(ms) : i = g[a] /\ p[a] = ms[i]
    BY <1>7, Zenon
  <2>2. PICK j \in 1 .. Len(ms) : j = g[b] /\ p[b] = ms[j]
    BY <1>7, Zenon
  <2>3. i = j
    BY <1>1, <1>10, <2>1, <2>2, Zenon
  <2>4. g[a] = g[b]
    BY <2>1, <2>2, <2>3, Zenon
  <2>. QED BY <1>7, <2>4, Zenon
<1>11. ASSUME NEW a \in 1 .. Len(q), NEW b \in 1 .. Len(q), q[a].id = q[b].id PROVE a = b
  <2>1. PICK i \in 1 .. Len(ls) : i = h[a] /\ q[a] = ls[i]
    BY <1>8, Zenon
  <2>2. PICK j \in 1 .. Len(ls) : j = h[b] /\ q[b] = ls[j]
    BY <1>8, Zenon
  <2>3. i = j
    BY <1>1, <1>11, <2>1, <2>2, Zenon
  <2>4. h[a] = h[b]
    BY <2>1, <2>2, <2>3, Zenon
  <2>. QED BY <1>8, <2>4, Zenon
<1>12. \A a \in 1 .. Len(p) : p[a].id < ni
  <2>. TAKE a \in 1 .. Len(p)
  <2>1. PICK i \in 1 .. Len(ms) : p[a] = ms[i]
    BY <1>7, Zenon
  <2>. QED BY <1>1, <2>1, Zenon
<1>13. ASSUME NEW a \in 1 .. Len(q)
       PROVE q[a].id < nl /\ q[a].a # q[a].b /\ Has(p, q[a].a) /\ Has(p, q[a].b)
  <2>1. PICK i \in 1 .. Len(ls) : i \in J /\ q[a] = ls[i]
    BY <1>8, Zenon
  <2>. QED BY <1>1, <1>2, <1>9, <2>1, Zenon
<1>14. Sound(p, q, None, ni, nl)
  BY <1>1, <1>3, <1>4, <1>10, <1>11, <1>12, <1>13, Zenon DEF Sound
<1>. QED BY <1>14, Zenon DEF p, q, I, J

-----------------------------------------------------------------------------
(* Layout files *)

Specs == [t : Places, chain : Nat]
Ends  == Nat \X Nat \X Heights

\* What the markers and the links of a file are: each link of two places.
Readable(ms, ls) ==
  /\ ms \in Seq(Specs) /\ ls \in Seq(Ends)
  /\ \A i \in 1 .. Len(ls) : ls[i][1] # ls[i][2]

Inside(ls, n) == {i \in DOMAIN ls : {ls[i][1], ls[i][2]} \subseteq 1 .. n}

\* The markers rm numbered from 1 at the times of ms, and the links rl numbered
\* from 1 between the places w names.
RestoredFrom(ms, w, rm, rl) ==
  /\ w \in Seq(Ends)
  /\ rm \in Seq(Marks) /\ Len(rm) = Len(ms)
  /\ \A i \in 1 .. Len(ms) : rm[i].id = i /\ rm[i].t = ms[i].t
  /\ rl \in Seq(Joins) /\ Len(rl) = Len(w)
  /\ \A i \in 1 .. Len(w) :
       /\ rl[i].id = i /\ rl[i].a = w[i][1] /\ rl[i].b = w[i][2] /\ rl[i].y = w[i][3]
       /\ w[i][1] # w[i][2] /\ w[i][1] \in 1 .. Len(ms) /\ w[i][2] \in 1 .. Len(ms)

\* MarkerSet::restore gives markers 1, 2, ... and the links whose ends are there.
LEMMA RestoredIs ==
  ASSUME NEW ms, NEW ls, Readable(ms, ls)
  PROVE RestoredFrom(ms, Keep(ls, Inside(ls, Len(ms))), Restored(ms, ls).markers,
                     Restored(ms, ls).links)
<1>. DEFINE n  == Len(ms)
            w  == Keep(ls, Inside(ls, n))
            rm == [i \in 1 .. n |-> [id |-> i, t |-> ms[i].t]]
            rl == [i \in DOMAIN w |-> [id |-> i, a |-> w[i][1], b |-> w[i][2], y |-> w[i][3]]]
<1>1. ms \in Seq(Specs) /\ ls \in Seq(Ends) /\ \A i \in 1 .. Len(ls) : ls[i][1] # ls[i][2]
  BY Zenon DEF Readable
<1>2. Restored(ms, ls) = [markers |-> rm, links |-> rl]
  BY Zenon DEF Restored, Inside
<1>3. Restored(ms, ls).markers = rm /\ Restored(ms, ls).links = rl
  BY <1>2
<1>4. w \in Seq(Ends) /\ \E g : Part(ls, Inside(ls, n), Len(ls), w, g)
  BY <1>1, KeepIs, Zenon
<1>. HIDE DEF w
<1>5. PICK g : Part(ls, Inside(ls, n), Len(ls), w, g)
  BY <1>4, Zenon
<1>6. ASSUME NEW i \in 1 .. Len(w)
      PROVE w[i][1] # w[i][2] /\ w[i][1] \in 1 .. n /\ w[i][2] \in 1 .. n /\ w[i][3] \in Heights
  <2>1. PICK j : j \in 1 .. Len(ls) /\ j \in Inside(ls, n) /\ w[i] = ls[j]
    BY <1>5, Zenon DEF Part
  <2>2. w[i] \in Ends
    BY <1>4, ElementOfSeq, Zenon
  <2>. QED BY <1>1, <2>1, <2>2, Zenon DEF Inside, Ends
<1>7. n \in Nat /\ Len(w) \in Nat /\ DOMAIN w = 1 .. Len(w)
  BY <1>1, <1>4
<1>8. ASSUME NEW i \in 1 .. n PROVE rm[i] \in Marks /\ rm[i].id = i /\ rm[i].t = ms[i].t
  <2>1. ms[i] \in Specs
    BY <1>1, ElementOfSeq, Zenon
  <2>2. ms[i].t \in Places /\ i \in Pos
    BY <1>7, <2>1 DEF Specs, Pos
  <2>. QED BY <2>2, Zenon DEF Marks
<1>9. ASSUME NEW i \in 1 .. Len(w)
      PROVE /\ rl[i] \in Joins /\ rl[i].id = i /\ rl[i].a = w[i][1] /\ rl[i].b = w[i][2]
            /\ rl[i].y = w[i][3]
  <2>1. rl[i] = [id |-> i, a |-> w[i][1], b |-> w[i][2], y |-> w[i][3]]
    BY <1>7, Zenon
  <2>2. i \in Pos /\ w[i][1] \in Pos /\ w[i][2] \in Pos /\ w[i][3] \in Heights
    BY <1>6, <1>7 DEF Pos
  <2>. HIDE DEF rl
  <2>. QED BY <2>1, <2>2 DEF Joins
<1>10. rm \in [1 .. n -> Marks] /\ rl \in [1 .. Len(w) -> Joins]
  <2>1. rm = [i \in 1 .. n |-> rm[i]] /\ rl = [i \in 1 .. Len(w) |-> rl[i]]
    BY <1>7, Zenon
  <2>. HIDE DEF rm, rl
  <2>. QED BY <1>8, <1>9, <2>1, Zenon
<1>. HIDE DEF rm, rl, n
<1>11. rm \in Seq(Marks) /\ Len(rm) = n /\ rl \in Seq(Joins) /\ Len(rl) = Len(w)
  BY <1>7, <1>10
<1>. QED BY <1>3, <1>4, <1>6, <1>8, <1>9, <1>11, Zenon DEF n, w, RestoredFrom

\* Loading a readable file leaves consistent markers.
LEMMA SoundRestored ==
  ASSUME NEW ms, NEW ls, Readable(ms, ls)
  PROVE LET r == Restored(ms, ls)
        IN Sound(r.markers, r.links, None, Len(r.markers) + 1, Len(r.links) + 1)
<1>. DEFINE rm == Restored(ms, ls).markers
            rl == Restored(ms, ls).links
            w  == Keep(ls, Inside(ls, Len(ms)))
            n  == Len(ms)
<1>1. /\ rm \in Seq(Marks) /\ Len(rm) = n
      /\ \A i \in 1 .. n : rm[i].id = i
      /\ rl \in Seq(Joins) /\ Len(rl) = Len(w)
      /\ \A i \in 1 .. Len(w) :
           /\ rl[i].id = i /\ rl[i].a = w[i][1] /\ rl[i].b = w[i][2]
           /\ w[i][1] # w[i][2] /\ w[i][1] \in 1 .. n /\ w[i][2] \in 1 .. n
  <2>1. RestoredFrom(ms, w, rm, rl)
    BY RestoredIs, Zenon
  <2>. HIDE DEF rm, rl, w
  <2>. QED BY <2>1, Zenon DEF RestoredFrom
<1>. HIDE DEF rm, rl, w, n
<1>2. n \in Nat /\ Len(w) \in Nat /\ n + 1 \in Pos /\ Len(w) + 1 \in Pos
  BY <1>1 DEF Pos
<1>3. \A x \in 1 .. n : Has(rm, x)
  BY <1>1, Zenon DEF Has
<1>4. \A i \in 1 .. Len(rl) : /\ rl[i].id < Len(rl) + 1 /\ rl[i].a # rl[i].b
                              /\ Has(rm, rl[i].a) /\ Has(rm, rl[i].b)
  <2>. TAKE i \in 1 .. Len(rl)
  <2>1. i < Len(rl) + 1 /\ Len(rl) = Len(w)
    BY <1>1, <1>2
  <2>2. /\ rl[i].id = i /\ rl[i].a = w[i][1] /\ rl[i].b = w[i][2]
        /\ w[i][1] # w[i][2] /\ w[i][1] \in 1 .. n /\ w[i][2] \in 1 .. n
    BY <1>1, <2>1, Zenon
  <2>3. Has(rm, w[i][1]) /\ Has(rm, w[i][2])
    BY <1>3, <2>2, Zenon
  <2>. QED BY <2>1, <2>2, <2>3, Zenon
<1>5. \A i \in 1 .. Len(rm) : rm[i].id < Len(rm) + 1
  BY <1>1, <1>2
<1>6. Sound(rm, rl, None, Len(rm) + 1, Len(rl) + 1)
  BY <1>1, <1>2, <1>4, <1>5, SMTT(30) DEF Sound
<1>. QED BY <1>6, Zenon DEF rm, rl

Joined == Sound(markers, links, selected, nextId, nextLink)

\* The ids of the markers, by place.
LEMMA IdsAre ==
  ASSUME markers \in Seq(Marks)
  PROVE \A x : x \in MarkerIds <=> Has(markers, x)
<1>1. DOMAIN markers = 1 .. Len(markers)
  OBVIOUS
<1>2. MarkerIds = {m.id : m \in {markers[i] : i \in 1 .. Len(markers)}}
  BY <1>1, Zenon DEF MarkerIds, Range
<1>. QED BY <1>2, Zenon DEF Has

\* capture: every link is whole, and is saved as the places of its two ends.
LEMMA CaptureIs ==
  ASSUME Joined
  PROVE /\ Capture.version = 6
        /\ Capture.markers \in Seq(Specs) /\ Len(Capture.markers) = Len(markers)
        /\ \A i \in 1 .. Len(markers) : Capture.markers[i].t = markers[i].t
        /\ Capture.links \in Seq(Ends) /\ Len(Capture.links) = Len(links)
        /\ \A i \in 1 .. Len(links) :
             LET l == Capture.links[i] IN
             /\ l[1] # l[2] /\ l[1] \in 1 .. Len(markers) /\ l[2] \in 1 .. Len(markers)
             /\ markers[l[1]].id = links[i].a /\ markers[l[2]].id = links[i].b
             /\ l[3] = links[i].y
<1>. DEFINE W == {i \in DOMAIN links : {links[i].a, links[i].b} \subseteq MarkerIds}
            cm == [i \in DOMAIN markers |-> [t |-> markers[i].t, chain |-> None]]
            cl == [i \in DOMAIN links |-> <<Index(links[i].a), Index(links[i].b), links[i].y>>]
            n == Len(markers)
            k == Len(links)
<1>1. /\ markers \in Seq(Marks) /\ links \in Seq(Joins)
      /\ \A i \in 1 .. k : links[i].a # links[i].b /\ Has(markers, links[i].a) /\ Has(markers, links[i].b)
  BY Zenon DEF Joined, Sound
<1>2. /\ n \in Nat /\ k \in Nat /\ DOMAIN markers = 1 .. n /\ DOMAIN links = 1 .. k
  BY <1>1
<1>3. Keep(links, W) = links
  <2>1. \A i \in 1 .. k : i \in W
    BY <1>1, <1>2, IdsAre, Zenon
  <2>. HIDE DEF W
  <2>. QED BY <1>1, <2>1, KeepIs, Zenon
<1>4. Capture = [version |-> 6, markers |-> cm, links |-> cl]
  <2>1. Capture = [version |-> 6, markers |-> cm,
                   links |-> LET whole == Keep(links, W)
                             IN [i \in DOMAIN whole |-> <<Index(whole[i].a), Index(whole[i].b), whole[i].y>>]]
    BY Zenon DEF Capture
  <2>. HIDE DEF W
  <2>. QED BY <1>3, <2>1, Zenon
<1>5. Capture.version = 6 /\ Capture.markers = cm /\ Capture.links = cl
  BY <1>4, Zenon
<1>6. ASSUME NEW x, Has(markers, x) PROVE Index(x) \in 1 .. n /\ markers[Index(x)].id = x
  BY <1>2, <1>6, Zenon DEF Index, Has
<1>7. ASSUME NEW i \in 1 .. n PROVE cm[i] \in Specs /\ cm[i].t = markers[i].t
  <2>1. markers[i] \in Marks
    BY <1>1, ElementOfSeq, Zenon
  <2>2. markers[i].t \in Places
    BY <2>1, Zenon DEF Marks
  <2>. QED BY <1>2, <2>2, Zenon DEF Specs, None
<1>8. ASSUME NEW i \in 1 .. k
      PROVE /\ cl[i] \in Ends /\ cl[i][1] # cl[i][2] /\ cl[i][1] \in 1 .. n /\ cl[i][2] \in 1 .. n
            /\ markers[cl[i][1]].id = links[i].a /\ markers[cl[i][2]].id = links[i].b
            /\ cl[i][3] = links[i].y
  <2>. DEFINE a == links[i].a
              b == links[i].b
              y == links[i].y
  <2>1. links[i] \in Joins
    BY <1>1, ElementOfSeq, Zenon
  <2>2. y \in Heights
    BY <2>1, Zenon DEF Joins
  <2>3. /\ Index(a) \in 1 .. n /\ markers[Index(a)].id = a
        /\ Index(b) \in 1 .. n /\ markers[Index(b)].id = b
        /\ Index(a) # Index(b)
    BY <1>1, <1>6, Zenon
  <2>4. cl[i] = <<Index(a), Index(b), y>>
    BY <1>2, Zenon
  <2>5. PICK ia, ib, h : ia = Index(a) /\ ib = Index(b) /\ h = y
    BY Zenon
  <2>. HIDE DEF cl, a, b, y
  <2>6. cl[i] = <<ia, ib, h>> /\ ia \in Nat /\ ib \in Nat /\ h \in Heights
    BY <1>2, <2>2, <2>3, <2>4, <2>5
  <2>7. cl[i] \in Ends /\ cl[i][1] = ia /\ cl[i][2] = ib /\ cl[i][3] = h
    BY <2>6 DEF Ends
  <2>8. /\ cl[i] \in Ends /\ cl[i][1] # cl[i][2] /\ cl[i][1] \in 1 .. n /\ cl[i][2] \in 1 .. n
        /\ markers[cl[i][1]].id = a /\ markers[cl[i][2]].id = b /\ cl[i][3] = y
    BY <2>3, <2>5, <2>7, Zenon
  <2>. QED BY <2>8, Zenon DEF a, b, y
<1>9. cm \in [1 .. n -> Specs] /\ cl \in [1 .. k -> Ends]
  <2>1. cm = [i \in 1 .. n |-> cm[i]] /\ cl = [i \in 1 .. k |-> cl[i]]
    BY <1>2, Zenon
  <2>. HIDE DEF cm, cl
  <2>. QED BY <1>7, <1>8, <2>1, Zenon
<1>. HIDE DEF cm, cl, n, k
<1>10. cm \in Seq(Specs) /\ Len(cm) = n /\ cl \in Seq(Ends) /\ Len(cl) = k
  BY <1>2, <1>9
<1>. QED BY <1>5, <1>7, <1>8, <1>10, Zenon DEF n, k

\* What is saved is read back as it was.
LEMMA LayoutKept == Joined => LayoutKeepsMarkers
<1>. SUFFICES ASSUME Joined PROVE LayoutKeepsMarkers
  BY Zenon
<1>. DEFINE cm == Capture.markers
            cl == Capture.links
            r  == Restored(cm, cl)
            n  == Len(markers)
            k  == Len(links)
<1>1. /\ cm \in Seq(Specs) /\ Len(cm) = n
      /\ \A i \in 1 .. n : cm[i].t = markers[i].t
      /\ cl \in Seq(Ends) /\ Len(cl) = k
      /\ \A i \in 1 .. k :
           /\ cl[i][1] # cl[i][2] /\ cl[i][1] \in 1 .. n /\ cl[i][2] \in 1 .. n
           /\ markers[cl[i][1]].id = links[i].a /\ markers[cl[i][2]].id = links[i].b
           /\ cl[i][3] = links[i].y
  BY CaptureIs, Zenon
<1>2. DOMAIN markers = 1 .. n /\ DOMAIN links = 1 .. k
  BY DEF Joined, Sound
<1>. HIDE DEF cm, cl, n, k
<1>3. Readable(cm, cl)
  BY <1>1, Zenon DEF Readable
<1>4. Keep(cl, Inside(cl, Len(cm))) = cl
  <2>1. \A i \in 1 .. Len(cl) : i \in Inside(cl, Len(cm))
    BY <1>1 DEF Inside
  <2>. QED BY <1>1, <2>1, KeepIs, Zenon
<1>5. /\ Len(r.markers) = Len(cm)
      /\ \A i \in 1 .. Len(cm) : r.markers[i].t = cm[i].t
      /\ Len(r.links) = Len(cl)
      /\ \A i \in 1 .. Len(cl) :
           r.links[i].a = cl[i][1] /\ r.links[i].b = cl[i][2] /\ r.links[i].y = cl[i][3]
  <2>1. RestoredFrom(cm, cl, r.markers, r.links)
    BY <1>3, <1>4, RestoredIs, Zenon
  <2>. HIDE DEF r
  <2>. QED BY <2>1, Zenon DEF RestoredFrom
<1>. HIDE DEF r
<1>6. /\ Len(r.markers) = n /\ Len(r.links) = k
      /\ \A i \in 1 .. n : r.markers[i].t = markers[i].t
      /\ \A i \in 1 .. k :
           /\ r.links[i].y = links[i].y
           /\ markers[r.links[i].a].id = links[i].a /\ markers[r.links[i].b].id = links[i].b
  BY <1>1, <1>5, ZenonT(30)
<1>. QED BY <1>2, <1>6, Zenon DEF LayoutKeepsMarkers, r, cm, cl, n, k

\* migrate_chains_to_links: whatever the order of the chains, a link joins two
\* different markers of the file.
LEMMA MigratedIs ==
  ASSUME Mid \in Heights, NEW ms \in Seq(Specs), NEW ls \in Migrated(ms)
  PROVE Readable(ms, ls)
<1>1. PICK q : /\ q \in UNION {Bijection(1 .. n, Pairs(ms)) : n \in 0 .. Len(ms)}
               /\ ls = [k \in DOMAIN q |-> <<q[k][1], q[k][2], Mid>>]
  BY Zenon DEF Migrated
<1>2. PICK n \in Nat : q \in [1 .. n -> Pairs(ms)]
  BY <1>1 DEF Bijection, Injection
<1>3. ASSUME NEW k \in 1 .. n PROVE ls[k] \in Ends /\ ls[k][1] # ls[k][2]
  <2>1. q[k] \in Pairs(ms)
    BY <1>2, Zenon
  <2>2. PICK i, j : i = q[k][1] /\ j = q[k][2]
    BY Zenon
  <2>3. i \in Nat /\ j \in Nat /\ i < j
    BY <2>1, <2>2 DEF Pairs
  <2>4. ls[k] = <<i, j, Mid>>
    BY <1>1, <1>2, <2>2, Zenon
  <2>5. ls[k] \in Ends /\ ls[k][1] = i /\ ls[k][2] = j
    BY <2>3, <2>4 DEF Ends
  <2>. QED BY <2>3, <2>5
<1>4. ls \in [1 .. n -> Ends]
  <2>1. ls = [k \in 1 .. n |-> ls[k]]
    BY <1>1, <1>2, Zenon
  <2>. QED BY <1>3, <2>1, Zenon
<1>5. ls \in Seq(Ends) /\ Len(ls) = n
  BY <1>4
<1>. QED BY <1>3, <1>5, Zenon DEF Readable

\* Every file a load may be given is readable.
LEMMA FilesReadable ==
  ASSUME Joined, NEW f \in Files, NEW byName, NEW ls \in LinksOf(f, byName)
  PROVE Readable(f.markers, ls)
<1>1. CASE f = Capture
  <2>1. f.version = 6
    BY <1>1, CaptureIs, Zenon
  <2>2. ls = Capture.links
    BY <1>1, <2>1 DEF LinksOf
  <2>. QED BY <1>1, <2>2, CaptureIs, Zenon DEF Readable
<1>2. CASE \E g \in Legacy : f = [version |-> 4, markers |-> g, links |-> <<>>]
  <2>1. PICK g \in Legacy : f = [version |-> 4, markers |-> g, links |-> <<>>]
    BY <1>2, Zenon
  <2>2. f.version = 4 /\ f.markers = g /\ f.links = <<>>
    BY <2>1, Zenon
  <2>3. g \in Seq(Specs) /\ Mid \in Heights
    BY MarkersAssumption, Zenon DEF Specs
  <2>4. ls \in Migrated(g) \/ ls = <<>>
    BY <2>2, Zenon DEF LinksOf
  <2>5. Readable(g, <<>>)
    <3>1. <<>> \in Seq(Ends) /\ Len(<<>>) = 0 /\ 1 .. 0 = {}
      OBVIOUS
    <3>. QED BY <2>3, <3>1, Zenon DEF Readable
  <2>. QED BY <2>2, <2>3, <2>4, <2>5, MigratedIs, Zenon
<1>. QED BY <1>1, <1>2, Zenon DEF Files

-----------------------------------------------------------------------------
(* The markers through a step *)

Cleared ==
  /\ markers' = <<>> /\ links' = <<>> /\ selected' = None /\ nextId' = 1 /\ nextLink' = 1
  /\ UNCHANGED pointer

\* What a step of the viewer does to the markers.
MarkerChange ==
  \/ \E x \in Places, y \in Heights : DragStart(x, y)
  \/ \E x \in Places, y \in Heights : DragMove(x, y)
  \/ Release
  \/ \E x \in Places, shift \in BOOLEAN : Click(x, shift)
  \/ Delete
  \/ \E f \in Files, byName \in BOOLEAN : Load(f, byName)
  \/ ~down /\ Cleared
  \/ UNCHANGED <<set, selected, pointer>>

\* hit_marker finds a marker that exists, or none.
LEMMA HitIs ==
  ASSUME markers \in Seq(Marks), NEW x
  PROVE Hit(x) = None \/ Has(markers, Hit(x))
<1>. DEFINE S == {i \in DOMAIN markers : markers[i].t = x}
<1>1. Hit(x) = IF S = {} THEN None ELSE markers[Min(S)].id
  BY Zenon DEF Hit, First
<1>2. S \subseteq 1 .. Len(markers) /\ S \subseteq Nat
  OBVIOUS
<1>. HIDE DEF S
<1>3. ASSUME S # {} PROVE Min(S) \in S
  <2>1. PICK m \in S : \A y \in S : m <= y
    BY <1>2, <1>3, MinOfNats, Zenon
  <2>. QED BY <2>1, Zenon DEF Min
<1>. QED BY <1>1, <1>2, <1>3, Zenon DEF Has

\* The markers are consistent, and no marker is held while the button is up.
MarkInv == Joined /\ (~down => dragM = None)

\* A click in marker mode on empty space, and the other clicks.
LEMMA ClickKeeps ==
  ASSUME Joined, NEW x \in Places, NEW shift \in BOOLEAN, Click(x, shift)
  PROVE Joined'
<1>. DEFINE ms2 == Append(markers, [id |-> nextId, t |-> x])
<1>1. markers \in Seq(Marks) /\ Mid \in Heights
  BY MarkersAssumption, Zenon DEF Joined, Sound
<1>2. /\ Sound(markers, links, selected, nextId, nextLink)
      /\ selected = None \/ Has(markers, selected)
  BY Zenon DEF Joined, Sound
<1>3. /\ Sound(ms2, links, nextId, nextId + 1, nextLink)
      /\ \A y : Has(markers, y) => Has(ms2, y) /\ y # nextId
      /\ Has(ms2, nextId)
  BY <1>2, SoundAdd, Zenon
<1>4. \A y : y \in MarkerIds <=> Has(markers, y)
  BY <1>1, IdsAre, Zenon
<1>5. ASSUME NEW a, Has(markers, a), Add(x), Link(a, nextId) PROVE Joined'
  <2>1. Sound(ms2, Append(links, [id |-> nextLink, a |-> a, b |-> nextId, y |-> Mid]),
              nextId, nextId + 1, nextLink + 1)
    BY <1>1, <1>3, <1>5, SoundLink, Zenon
  <2>. QED BY <1>5, <2>1, Zenon DEF Add, Link, Joined
<1>6. ASSUME Add(x), UNCHANGED <<links, nextLink>> PROVE Joined'
  BY <1>3, <1>6, Zenon DEF Add, Joined
<1>7. CASE \E a : a \in MarkerIds /\ Add(x) /\ Link(a, nextId)
  BY <1>4, <1>5, <1>7, Zenon
<1>8. CASE ~shift /\ selected' = Hit(x) /\ UNCHANGED set
  <2>1. Sound(markers, links, Hit(x), nextId, nextLink)
    BY <1>1, <1>2, HitIs, SoundSelect, Zenon
  <2>. QED BY <1>8, <2>1, Zenon DEF set, Joined
<1>9. CASE shift /\ selected \in MarkerIds /\ Add(x) /\ Link(selected, nextId)
  BY <1>4, <1>5, <1>9, Zenon
<1>10. CASE /\ selected # None /\ Hit(x) \notin {None, selected} /\ Link(selected, Hit(x))
            /\ UNCHANGED <<selected, markers, nextId>>
  <2>1. Has(markers, selected) /\ Has(markers, Hit(x)) /\ selected # Hit(x)
    BY <1>1, <1>2, <1>10, HitIs, Zenon
  <2>2. Sound(markers, Append(links, [id |-> nextLink, a |-> selected, b |-> Hit(x), y |-> Mid]),
              selected, nextId, nextLink + 1)
    BY <1>1, <1>2, <2>1, SoundLink, Zenon
  <2>. QED BY <1>10, <2>2, Zenon DEF Link, Joined
<1>11. CASE Place(x, shift)
  BY <1>6, <1>7, <1>11, Zenon DEF Place
<1>12. CASE PickOrLink(x, shift)
  BY <1>8, <1>9, <1>10, <1>12, Zenon DEF PickOrLink
<1>. QED BY <1>11, <1>12, Zenon DEF Click

\* No step leaves an inconsistent list of markers.
LEMMA MarkKeeps == MarkInv /\ MarkerChange => MarkInv'
<1>. SUFFICES ASSUME MarkInv, MarkerChange PROVE MarkInv'
  BY Zenon
<1>1. Joined /\ (~down => dragM = None) /\ Sound(markers, links, selected, nextId, nextLink)
  BY Zenon DEF MarkInv, Joined
<1>2. CASE UNCHANGED <<set, selected, pointer>>
  <2>1. Sound(markers', links', selected', nextId', nextLink')
    BY <1>1, <1>2, Zenon DEF set
  <2>2. ~down' => dragM' = None
    BY <1>1, <1>2, Zenon DEF pointer
  <2>. QED BY <2>1, <2>2, Zenon DEF MarkInv, Joined
<1>3. CASE \E x \in Places, y \in Heights : DragStart(x, y)
  <2>1. down' = TRUE /\ UNCHANGED <<set, selected>>
    BY <1>3, Zenon DEF DragStart
  <2>2. Joined'
    BY <1>1, <2>1, Zenon DEF set, Joined
  <2>. QED BY <2>1, <2>2, Zenon DEF MarkInv
<1>4. CASE \E x \in Places, y \in Heights : DragMove(x, y)
  <2>1. PICK x \in Places, y \in Heights : DragMove(x, y)
    BY <1>4, Zenon
  <2>3. Sound(MovedTo(markers, dragM, x), MovedUp(links, dragL, y), selected, nextId, nextLink)
    BY <1>1, SoundMove, Zenon
  <2>4. /\ markers' = MovedTo(markers, dragM, x) /\ links' = MovedUp(links, dragL, y)
        /\ UNCHANGED <<selected, nextId, nextLink>>
    BY <2>1, Zenon DEF DragMove, MovedTo, MovedUp
  <2>2. Joined'
    BY <2>3, <2>4, Zenon DEF Joined
  <2>. QED BY <2>1, <2>2, Zenon DEF MarkInv, DragMove, pointer
<1>5. CASE Release
  <2>1. Joined'
    BY <1>1, <1>5, Zenon DEF Release, set, Joined
  <2>. QED BY <1>5, <2>1, Zenon DEF MarkInv, Release
<1>6. CASE \E x \in Places, shift \in BOOLEAN : Click(x, shift)
  <2>1. Joined'
    BY <1>1, <1>6, ClickKeeps, Zenon
  <2>. QED BY <1>1, <1>6, <2>1, Zenon DEF MarkInv, Click, pointer
<1>7. CASE Delete
  <2>1. Joined'
    BY <1>1, <1>7, SoundDelete, Zenon DEF Delete, Joined
  <2>. QED BY <1>1, <1>7, <2>1, Zenon DEF MarkInv, Delete, pointer
<1>8. CASE \E f \in Files, byName \in BOOLEAN : Load(f, byName)
  <2>1. PICK f \in Files, byName \in BOOLEAN : Load(f, byName)
    BY <1>8, Zenon
  <2>2. PICK ls \in LinksOf(f, byName) :
          LET r == Restored(f.markers, ls) IN
          /\ markers' = r.markers /\ links' = r.links
          /\ nextId' = Len(r.markers) + 1 /\ nextLink' = Len(r.links) + 1
    BY <2>1, Zenon DEF Load
  <2>3. Readable(f.markers, ls)
    BY <1>1, FilesReadable, Zenon
  <2>4. LET r == Restored(f.markers, ls)
        IN Sound(r.markers, r.links, None, Len(r.markers) + 1, Len(r.links) + 1)
    BY <2>3, SoundRestored, Zenon
  <2>5. Joined'
    BY <2>1, <2>2, <2>4, Zenon DEF Load, Joined
  <2>. QED BY <1>1, <2>1, <2>5, Zenon DEF MarkInv, Load, pointer
<1>9. CASE ~down /\ Cleared
  <2>1. Joined'
    BY <1>9, SoundEmpty, Zenon DEF Cleared, Joined
  <2>. QED BY <1>1, <1>9, <2>1, Zenon DEF MarkInv, Cleared, pointer
<1>. QED BY <1>2, <1>3, <1>4, <1>5, <1>6, <1>7, <1>8, <1>9, Zenon DEF MarkerChange

\* Initially there is no marker.
LEMMA MarkInit == MarkersInit => MarkInv
BY SoundEmpty, Zenon DEF MarkersInit, MarkInv, Joined

\* Joined is what MarkersConsistent says.
LEMMA JoinedConsistent == Joined => MarkersConsistent
<1>. SUFFICES ASSUME Joined PROVE MarkersConsistent
  BY Zenon
<1>1. /\ markers \in Seq(Marks) /\ links \in Seq(Joins) /\ nextId \in Pos /\ nextLink \in Pos
      /\ \A i, j \in 1 .. Len(markers) : markers[i].id = markers[j].id => i = j
      /\ \A i, j \in 1 .. Len(links) : links[i].id = links[j].id => i = j
      /\ \A i \in 1 .. Len(markers) : markers[i].id < nextId
      /\ \A i \in 1 .. Len(links) : /\ links[i].id < nextLink /\ links[i].a # links[i].b
                                    /\ Has(markers, links[i].a) /\ Has(markers, links[i].b)
      /\ selected = None \/ Has(markers, selected)
  BY Zenon DEF Joined, Sound
<1>2. DOMAIN markers = 1 .. Len(markers) /\ DOMAIN links = 1 .. Len(links)
  BY <1>1
<1>3. \A y : y \in MarkerIds <=> Has(markers, y)
  BY <1>1, IdsAre, Zenon
<1>4. ASSUME NEW m \in Range(markers) PROVE m.id \in 1 .. nextId - 1
  <2>1. PICK i \in 1 .. Len(markers) : m = markers[i]
    BY <1>2, <1>4, Zenon DEF Range
  <2>2. m \in Marks
    BY <1>1, <2>1, ElementOfSeq, Zenon
  <2>3. m.id \in Pos /\ m.id < nextId
    BY <1>1, <2>1, <2>2, Zenon DEF Marks
  <2>. QED BY <1>1, <2>3 DEF Pos
<1>5. ASSUME NEW l \in Range(links)
      PROVE l.id \in 1 .. nextLink - 1 /\ l.a # l.b /\ {l.a, l.b} \subseteq MarkerIds
  <2>1. PICK i \in 1 .. Len(links) : l = links[i]
    BY <1>2, <1>5, Zenon DEF Range
  <2>2. l \in Joins
    BY <1>1, <2>1, ElementOfSeq, Zenon
  <2>3. l.id \in Pos /\ l.id < nextLink
    BY <1>1, <2>1, <2>2, Zenon DEF Joins
  <2>4. l.id \in 1 .. nextLink - 1
    BY <1>1, <2>3 DEF Pos
  <2>. QED BY <1>1, <1>3, <2>1, <2>4, ZenonT(30)
<1>. QED BY <1>1, <1>2, <1>3, <1>4, <1>5, Zenon DEF MarkersConsistent

\* A frame in which a marker is held, and taken or moved, is the frame of a drag;
\* MarkerSet::remove, if it removes anything, leaves a shorter list.
LEMMA HeldInDrag ==
  ASSUME MarkInv, MarkerChange, dragM' # None,
         ~down \/ (markers' # markers /\ Len(markers') = Len(markers))
  PROVE /\ \/ \E x \in Places, y \in Heights : DragStart(x, y)
           \/ \E x \in Places, y \in Heights : DragMove(x, y)
        /\ \A i \in DOMAIN markers : markers[i].id # dragM' => markers'[i] = markers[i]
<1>1. ~down => dragM = None
  BY Zenon DEF MarkInv
<1>2. ~(UNCHANGED <<set, selected, pointer>>)
  BY <1>1, Zenon DEF set, pointer
<1>3. ~(~down /\ UNCHANGED pointer)
  BY <1>1, Zenon DEF pointer
<1>4. ~Delete
  <2>. SUFFICES ASSUME Delete PROVE FALSE
    BY Zenon
  <2>. DEFINE I == {i \in DOMAIN markers : markers[i].id # selected}
  <2>1. markers' = Keep(markers, I) /\ UNCHANGED pointer
    BY Zenon DEF Delete
  <2>2. markers' # markers /\ Len(markers') = Len(markers)
    BY <1>3, <2>1, Zenon
  <2>3. markers \in Seq(Marks)
    BY Zenon DEF MarkInv, Joined, Sound
  <2>. HIDE DEF I
  <2>4. /\ Len(markers) \in Nat
        /\ (\E i \in 1 .. Len(markers) : i \notin I) => Len(markers') < Len(markers)
        /\ (\A i \in 1 .. Len(markers) : i \in I) => markers' = markers
    BY <2>1, <2>3, KeepIs
  <2>. QED BY <2>2, <2>4
<1>5. \/ \E x \in Places, y \in Heights : DragStart(x, y)
      \/ \E x \in Places, y \in Heights : DragMove(x, y)
  <2>1. ~Release
    BY Zenon DEF Release
  <2>2. ~(\E x \in Places, shift \in BOOLEAN : Click(x, shift))
    BY <1>3, Zenon DEF Click
  <2>3. ~(\E f \in Files, byName \in BOOLEAN : Load(f, byName))
    BY <1>3, Zenon DEF Load
  <2>4. ~(~down /\ Cleared)
    BY <1>3, Zenon DEF Cleared
  <2>. QED BY <1>2, <1>4, <2>1, <2>2, <2>3, <2>4, Zenon DEF MarkerChange
<1>6. \A i \in DOMAIN markers : markers[i].id # dragM' => markers'[i] = markers[i]
  <2>1. CASE \E x \in Places, y \in Heights : DragStart(x, y)
    BY <2>1, Zenon DEF DragStart, set
  <2>2. CASE \E x \in Places, y \in Heights : DragMove(x, y)
    <3>1. PICK x \in Places : /\ dragM' = dragM
                              /\ markers' = [i \in DOMAIN markers |->
                                   IF markers[i].id = dragM THEN [markers[i] EXCEPT !.t = x] ELSE markers[i]]
      BY <2>2, Zenon DEF DragMove, pointer
    <3>. QED BY <3>1, Zenon
  <2>. QED BY <1>5, <2>1, <2>2, Zenon
<1>. QED BY <1>5, <1>6, Zenon

-----------------------------------------------------------------------------
(* The camera *)

\* The larger of two times.
LEMMA MaxOfTwo ==
  ASSUME NEW a \in Int, NEW b \in Int
  PROVE \E m \in Int : m = Max({a, b}) /\ m >= a /\ m >= b /\ (m = a \/ m = b)
<1>1. PICK m \in {a, b} : \A y \in {a, b} : m >= y
  OBVIOUS
<1>2. Max({a, b}) \in {a, b} /\ \A y \in {a, b} : Max({a, b}) >= y
  BY <1>1, Zenon DEF Max
<1>. QED BY <1>2, Zenon

\* The smaller of two times.
LEMMA MinOfTwo ==
  ASSUME NEW a \in Int, NEW b \in Int
  PROVE \E m \in Int : m = Min({a, b}) /\ m <= a /\ m <= b /\ (m = a \/ m = b)
<1>1. PICK m \in {a, b} : \A y \in {a, b} : m <= y
  OBVIOUS
<1>2. Min({a, b}) \in {a, b} /\ \A y \in {a, b} : Min({a, b}) <= y
  BY <1>1, Zenon DEF Min
<1>. QED BY <1>2, Zenon

CamTyped ==
  /\ mode \in {"follow", "pan"}
  /\ free \in {<<>>} \cup Int \X Int
  /\ data \in {<<>>} \cup Nat \X Nat
  /\ window \in MinWindow .. MaxWindow

\* Bounds are a proper interval, and there are none in follow mode.
CamInv ==
  /\ CamTyped
  /\ free # <<>> => free[1] < free[2]
  /\ mode = "follow" => free = <<>>

\* compute_view of data: never empty, never before 0, and in follow mode up to the
\* newest sample.
LEMMA ViewIs ==
  ASSUME CamInv, data # <<>>
  PROVE \E p \in Nat, q \in Nat :
          View = <<p, q>> /\ p < q /\ (mode = "follow" /\ data[2] > 0 => q = data[2])
<1>1. /\ data \in Nat \X Nat /\ mode \in {"follow", "pan"}
      /\ free # <<>> => free \in Int \X Int
  BY Zenon DEF CamInv, CamTyped
<1>2. window \in Nat \ {0}
  BY CameraAssumption DEF CamInv, CamTyped
<1>3. PICK e \in Nat, l \in Nat : e = data[1] /\ l = data[2]
  BY <1>1, Zenon
<1>4. CASE mode = "follow"
  <2>1. PICK left \in Int : left = Max({0, l - window}) /\ left >= 0 /\ (left = 0 \/ left = l - window)
    BY <1>2, MaxOfTwo
  <2>2. PICK m \in Int : m = Max({l, left + 1}) /\ m >= l /\ m >= left + 1 /\ (m = l \/ m = left + 1)
    BY MaxOfTwo
  <2>3. View = <<left, m>>
    BY <1>3, <1>4, <2>1, <2>2, Zenon DEF View
  <2>4. left \in Nat /\ m \in Nat /\ left < m /\ (l > 0 => m = l)
    BY <1>2, <2>1, <2>2
  <2>. QED BY <1>3, <2>3, <2>4, Zenon
<1>5. CASE mode = "pan" /\ free # <<>>
  <2>0. PICK x \in Int, y \in Int : x = free[1] /\ y = free[2]
    BY <1>1, <1>5, Zenon
  <2>1. PICK lo \in Int : lo = Max({0, x}) /\ lo >= 0
    BY MaxOfTwo
  <2>2. PICK hi \in Int : hi = Max({0, y}) /\ hi >= 0
    BY MaxOfTwo
  <2>3. PICK p \in Int : p = Min({lo, hi}) /\ p <= lo /\ (p = lo \/ p = hi)
    BY MinOfTwo
  <2>4. PICK q \in Int : q = Max({hi, lo + 1}) /\ q >= lo + 1
    BY MaxOfTwo
  <2>5. View = <<p, q>>
    BY <1>5, <2>0, <2>1, <2>2, <2>3, <2>4, Zenon DEF View
  <2>6. p \in Nat /\ q \in Nat /\ p < q
    BY <2>1, <2>2, <2>3, <2>4
  <2>. QED BY <1>5, <2>5, <2>6, Zenon
<1>6. CASE mode = "pan" /\ free = <<>>
  <2>1. PICK q \in Int : q = Max({l, e + 1}) /\ q >= e + 1
    BY MaxOfTwo
  <2>2. View = <<e, q>> /\ e < q /\ q \in Nat
    BY <1>3, <1>6, <2>1 DEF View
  <2>. QED BY <1>6, <2>2, Zenon
<1>. QED BY <1>1, <1>4, <1>5, <1>6, Zenon

\* What pan_x, zoom_x and jump_to start from.
LEMMA BaseIs ==
  ASSUME CamInv, data # <<>>
  PROVE \E p \in Int, q \in Int : Base(View) = <<p, q>> /\ p < q
<1>1. PICK u \in Nat, v \in Nat : View = <<u, v>> /\ u < v
  BY ViewIs, Zenon
<1>2. CASE free = <<>>
  BY <1>1, <1>2 DEF Base
<1>3. CASE free # <<>>
  <2>1. free \in Int \X Int /\ free[1] < free[2]
    BY <1>3, Zenon DEF CamInv, CamTyped
  <2>. QED BY <1>3, <2>1 DEF Base
<1>. QED BY <1>2, <1>3, Zenon

\* zoom_x turns a proper interval into one, however often it is applied.
LEMMA ZoomedIs ==
  ASSUME NEW f \in (Nat \ {0}) \X (Nat \ {0}), NEW pivot \in Int, NEW b \in Int \X Int
  PROVE Zoomed(f, pivot, b) \in Int \X Int /\ Zoomed(f, pivot, b)[1] < Zoomed(f, pivot, b)[2]
<1>1. PICK n \in Nat \ {0}, d \in Nat \ {0}, p \in Int, q \in Int :
        f[1] = n /\ f[2] = d /\ b[1] = p /\ b[2] = q
  BY Zenon
<1>2. (p - pivot) * n \in Int /\ (q - pivot) * n \in Int
  OBVIOUS
<1>3. PICK u \in Int, v \in Int : u = ((p - pivot) * n) \div d /\ v = ((q - pivot) * n) \div d
  BY <1>2
<1>4. PICK lo \in Int, hi \in Int : lo = pivot + u /\ hi = pivot + v
  OBVIOUS
<1>5. PICK mid \in Int : mid = (lo + hi) \div 2
  OBVIOUS
<1>6. MinSpan \in Nat \ {0} /\ MinSpan \div 2 \in Int
  BY CameraAssumption
<1>7. PICK g \in Int : g = mid - MinSpan \div 2
  BY <1>6
<1>8. Zoomed(f, pivot, b) = IF hi - lo < MinSpan THEN <<g, g + MinSpan>> ELSE <<lo, hi>>
  BY <1>1, <1>3, <1>4, <1>5, <1>7, Zenon DEF Zoomed
<1>. QED BY <1>6, <1>8

\* pan, then the bounds are these.
Bounded(b) == b \in Int \X Int /\ b[1] < b[2]

\* A step that leaves mode and bounds of one of these forms keeps them proper.
LEMMA CamKeeps ==
  ASSUME CamInv, window' \in MinWindow .. MaxWindow, data' \in {<<>>} \cup Nat \X Nat,
         \/ UNCHANGED <<mode, free>>
         \/ mode' = "pan" /\ (free' = <<>> \/ Bounded(free'))
         \/ mode' = "follow" /\ free' = <<>>
  PROVE CamInv'
BY Zenon DEF CamInv, CamTyped, Bounded

CamFixed == UNCHANGED <<mode, free>> /\ UNCHANGED window

\* What a step of the viewer does to the camera.
CamChange ==
  \/ UNCHANGED <<mode, window, free, data>>
  \/ \E dx \in Steps, middle \in BOOLEAN, ok \in BOOLEAN : Pan(dx, middle, ok)
  \/ \E f \in Factors, p \in 0 .. MaxTime : Scroll(f, p)
  \/ \E t \in 0 .. MaxTime : ShiftG(t) \/ Jump(t) \/ NewData(t)
  \/ Toggle \/ TypeG \/ Home
  \/ \E w \in Windows : SetWindow(w)
  \/ CamFixed /\ data' \in {<<>>, <<0, 0>>, <<0, MaxTime>>}
  \/ mode' = "follow" /\ free' = <<>> /\ data' = <<>> /\ UNCHANGED window

\* No pan, zoom, jump, key, sample or source makes the bounds improper.
LEMMA CamKept == CamInv /\ CamChange => CamInv'
<1>. SUFFICES ASSUME CamInv, CamChange PROVE CamInv'
  BY Zenon
<1>1. /\ mode \in {"follow", "pan"} /\ window \in MinWindow .. MaxWindow
      /\ free \in {<<>>} \cup Int \X Int /\ data \in {<<>>} \cup Nat \X Nat
      /\ mode = "follow" => free = <<>>
  BY Zenon DEF CamInv, CamTyped
<1>2. MinWindow \in Nat /\ MaxWindow \in Nat /\ MaxTime \in Nat /\ MinHalf \in Nat \ {0} /\ MinWindow <= MaxWindow
  BY CameraAssumption, Zenon
<1>3. CASE UNCHANGED <<mode, window, free, data>>
  BY <1>1, <1>3, CamKeeps, Zenon
<1>4. ASSUME NEW dx \in Steps, NEW middle, NEW ok, Pan(dx, middle, ok) PROVE CamInv'
  <2>1. data # <<>> /\ PanBy(dx, View) /\ UNCHANGED <<window, data>>
    BY <1>4, Zenon DEF Pan
  <2>2. PICK p \in Int, q \in Int : Base(View) = <<p, q>> /\ p < q
    BY <2>1, BaseIs, Zenon
  <2>3. dx \in Int
    BY CameraAssumption, Zenon
  <2>4. mode' = "pan" /\ free' = <<p + dx, q + dx>>
    BY <2>1, <2>2 DEF PanBy
  <2>5. Bounded(free')
    BY <2>2, <2>3, <2>4 DEF Bounded
  <2>. QED BY <1>1, <2>1, <2>4, <2>5, CamKeeps, Zenon
<1>5. ASSUME NEW f \in (Nat \ {0}) \X (Nat \ {0}), NEW pivot \in Int, ZoomBy(f, pivot, View),
             data # <<>>, UNCHANGED <<window, data>>
      PROVE CamInv'
  <2>1. PICK p \in Int, q \in Int : Base(View) = <<p, q>> /\ p < q
    BY <1>5, BaseIs, Zenon
  <2>4. Base(View) \in Int \X Int
    BY <2>1
  <2>2. mode' = "pan" /\ free' = Zoomed(f, pivot, Base(View))
    BY <1>5, Zenon DEF ZoomBy
  <2>3. Bounded(free')
    BY <1>5, <2>2, <2>4, ZoomedIs, Zenon DEF Bounded
  <2>. QED BY <1>1, <1>5, <2>2, <2>3, CamKeeps, Zenon
<1>6. ASSUME NEW f \in Factors, NEW p \in 0 .. MaxTime, Scroll(f, p) PROVE CamInv'
  <2>1. f \in (Nat \ {0}) \X (Nat \ {0}) /\ p \in Int
    BY <1>2, CameraAssumption
  <2>2. CASE mode = "follow"
    <3>1. window' = Clamped((window * f[1]) \div f[2]) /\ UNCHANGED <<mode, free, data>>
      BY <1>6, <2>2, Zenon DEF Scroll
    <3>2. window * f[1] \in Int
      BY <1>1, <1>2, <2>1
    <3>3. PICK w \in Int : w = (window * f[1]) \div f[2]
      BY <2>1, <3>2
    <3>4. PICK u \in Int : u = Min({w, MaxWindow}) /\ u <= MaxWindow
      BY <1>2, MinOfTwo
    <3>5. PICK v \in Int : v = Max({MinWindow, u}) /\ v >= MinWindow /\ (v = MinWindow \/ v = u)
      BY <1>2, MaxOfTwo
    <3>6. window' = v
      BY <3>1, <3>3, <3>4, <3>5, Zenon DEF Clamped
    <3>7. window' \in MinWindow .. MaxWindow
      BY <1>2, <3>4, <3>5, <3>6
    <3>. QED BY <1>1, <3>1, <3>7, CamKeeps, Zenon
  <2>3. CASE mode # "follow"
    <3>1. data # <<>> /\ ZoomBy(f, p, View) /\ UNCHANGED <<window, data>>
      BY <1>6, <2>3, Zenon DEF Scroll
    <3>. QED BY <1>5, <2>1, <3>1, Zenon
  <2>. QED BY <2>2, <2>3, Zenon
<1>7. ASSUME NEW t \in 0 .. MaxTime, ShiftG(t) PROVE CamInv'
  <2>1. UNCHANGED <<window, data>>
    BY <1>7, Zenon DEF ShiftG
  <2>2. CASE data = <<>>
    <3>1. UNCHANGED <<mode, free>>
      BY <1>7, <2>2, Zenon DEF ShiftG
    <3>. QED BY <1>1, <2>1, <3>1, CamKeeps, Zenon
  <2>3. CASE data # <<>>
    <3>1. PICK pivot \in {t, (View[1] + View[2]) \div 2} : ZoomBy(<<1, 5>>, pivot, View)
      BY <1>7, <2>3, Zenon DEF ShiftG
    <3>2. PICK p \in Nat, q \in Nat : View = <<p, q>>
      BY <2>3, ViewIs, Zenon
    <3>3. (p + q) \div 2 \in Int /\ t \in Int
      BY <1>2
    <3>4. pivot \in Int /\ <<1, 5>> \in (Nat \ {0}) \X (Nat \ {0})
      BY <3>1, <3>2, <3>3
    <3>. QED BY <1>5, <2>1, <2>3, <3>1, <3>4, Zenon
  <2>. QED BY <2>2, <2>3, Zenon
<1>8. ASSUME NEW t \in 0 .. MaxTime, Jump(t) PROVE CamInv'
  <2>1. data # <<>> /\ mode' = "pan" /\ UNCHANGED <<window, data>>
    BY <1>8, Zenon DEF Jump
  <2>2. PICK p \in Int, q \in Int : Base(View) = <<p, q>> /\ p < q
    BY <2>1, BaseIs, Zenon
  <2>3. PICK h \in Int : h = (q - p) \div 2
    OBVIOUS
  <2>4. PICK half \in Int : half = Max({h, MinHalf}) /\ half >= MinHalf
    BY <1>2, MaxOfTwo
  <2>5. free' = <<t - half, t + half>>
    BY <1>8, <2>2, <2>3, <2>4 DEF Jump
  <2>6. Bounded(free')
    BY <1>2, <2>4, <2>5 DEF Bounded
  <2>. QED BY <1>1, <2>1, <2>6, CamKeeps, Zenon
<1>9. ASSUME NEW t \in 0 .. MaxTime, NewData(t) PROVE CamInv'
  <2>1. UNCHANGED <<mode, window, free>> /\ t \in Nat
    BY <1>2, <1>9 DEF NewData
  <2>2. CASE data = <<>>
    <3>1. data' = <<t, t>>
      BY <1>9, <2>2, Zenon DEF NewData
    <3>. QED BY <1>1, <2>1, <3>1, CamKeeps, Zenon
  <2>3. CASE data # <<>>
    <3>1. PICK e \in Nat, l \in Nat : data[1] = e /\ data[2] = l
      BY <1>1, <2>3, Zenon
    <3>2. PICK a \in Int : a = Min({e, t}) /\ (a = e \/ a = t)
      BY <2>1, MinOfTwo
    <3>3. PICK b \in Int : b = Max({l, t}) /\ (b = l \/ b = t)
      BY <2>1, MaxOfTwo
    <3>4. data' = <<a, b>> /\ a \in Nat /\ b \in Nat
      BY <1>9, <2>1, <2>3, <3>1, <3>2, <3>3, Zenon DEF NewData
    <3>. QED BY <1>1, <2>1, <3>4, CamKeeps, Zenon
  <2>. QED BY <2>2, <2>3, Zenon
<1>10. CASE Toggle
  <2>1. UNCHANGED <<window, data>>
    BY <1>10, Zenon DEF Toggle
  <2>2. CASE mode = "follow"
    <3>1. mode' = "pan" /\ free' = <<>>
      BY <1>1, <1>10, <2>2, Zenon DEF Toggle
    <3>. QED BY <1>1, <2>1, <3>1, CamKeeps, Zenon
  <2>3. CASE mode = "pan"
    <3>1. mode' = "follow" /\ free' = <<>>
      BY <1>10, <2>3, Zenon DEF Toggle
    <3>. QED BY <1>1, <2>1, <3>1, CamKeeps, Zenon
  <2>. QED BY <1>1, <2>2, <2>3, Zenon
<1>11. CASE TypeG
  <2>1. UNCHANGED <<window, data>>
    BY <1>11, Zenon DEF TypeG
  <2>2. CASE pendingG /\ data # <<>>
    <3>1. PICK e \in Nat, l \in Nat : data[1] = e /\ data[2] = l
      BY <1>1, <2>2, Zenon
    <3>2. PICK q \in Int : q = Max({l, e + 1}) /\ q >= e + 1
      BY MaxOfTwo
    <3>3. mode' = "pan" /\ free' = <<e, q>>
      BY <1>11, <2>2, <3>1, <3>2, Zenon DEF TypeG
    <3>4. Bounded(free')
      BY <3>2, <3>3 DEF Bounded
    <3>. QED BY <1>1, <2>1, <3>3, <3>4, CamKeeps, Zenon
  <2>3. CASE ~(pendingG /\ data # <<>>)
    <3>1. UNCHANGED <<mode, free>>
      BY <1>11, <2>3, Zenon DEF TypeG
    <3>. QED BY <1>1, <2>1, <3>1, CamKeeps, Zenon
  <2>. QED BY <2>2, <2>3, Zenon
<1>12. CASE Home
  BY <1>1, <1>12, CamKeeps, Zenon DEF Home
<1>13. ASSUME NEW w \in Windows, SetWindow(w) PROVE CamInv'
  <2>1. w \in MinWindow .. MaxWindow
    BY CameraAssumption, Zenon
  <2>. QED BY <1>1, <1>13, <2>1, CamKeeps, Zenon DEF SetWindow
<1>14. CASE CamFixed /\ data' \in {<<>>, <<0, 0>>, <<0, MaxTime>>}
  <2>1. data' \in {<<>>} \cup Nat \X Nat
    BY <1>2, <1>14
  <2>. QED BY <1>1, <1>14, <2>1, CamKeeps, Zenon DEF CamFixed
<1>15. CASE mode' = "follow" /\ free' = <<>> /\ data' = <<>> /\ UNCHANGED window
  BY <1>1, <1>15, CamKeeps, Zenon
<1>. QED BY <1>3, <1>4, <1>6, <1>7, <1>8, <1>9, <1>10, <1>11, <1>12, <1>13, <1>14, <1>15, Zenon DEF CamChange

\* The camera starts in follow mode with the largest window and no data.
LEMMA CamStart == CamInit => CamInv
<1>. SUFFICES ASSUME CamInit PROVE CamInv
  BY Zenon
<1>1. mode = "follow" /\ window = Max(Windows) /\ free = <<>> /\ data = <<>>
  BY Zenon DEF CamInit
<1>. DEFINE S == {n \in Nat : \E w \in Windows : n = MaxWindow - w}
<1>2. /\ Windows \subseteq MinWindow .. MaxWindow /\ Windows # {}
      /\ MinWindow \in Nat /\ MaxWindow \in Nat
  BY CameraAssumption, Zenon
<1>3. PICK w0 \in Windows : TRUE
  BY <1>2, Zenon
<1>4. MaxWindow - w0 \in S
  BY <1>2
<1>5. PICK m \in S : \A n \in S : m <= n
  <2>1. S \subseteq Nat /\ S # {}
    BY <1>4, Zenon
  <2>. HIDE DEF S
  <2>. QED BY <2>1, MinOfNats, Zenon
<1>6. PICK w \in Windows : m = MaxWindow - w
  BY <1>5, Zenon
<1>7. ASSUME NEW y \in Windows PROVE w >= y
  <2>1. MaxWindow - y \in S
    BY <1>2
  <2>2. m <= MaxWindow - y
    BY <1>5, <2>1, Zenon
  <2>. QED BY <1>2, <1>6, <2>2
<1>8. Max(Windows) \in Windows
  BY <1>7, Zenon DEF Max
<1>. QED BY <1>1, <1>2, <1>8, Zenon DEF CamInv, CamTyped

\* The camera's invariant is what ViewWellFormed says.
LEMMA CamWellFormed == CamInv => ViewWellFormed
<1>. SUFFICES ASSUME CamInv PROVE ViewWellFormed
  BY Zenon
<1>1. ASSUME data # <<>> PROVE View[1] < View[2] /\ View[1] >= 0
  <2>1. PICK p \in Nat, q \in Nat : View = <<p, q>> /\ p < q
    BY <1>1, ViewIs, Zenon
  <2>. QED BY <2>1
<1>. QED BY <1>1, Zenon DEF ViewWellFormed, CamInv, CamTyped

\* The right edge in follow mode.
LEMMA FollowsNewest ==
  CamInv /\ data # <<>> /\ mode = "follow" /\ data[2] > 0 => View[2] = data[2]
<1>. SUFFICES ASSUME CamInv, data # <<>>, mode = "follow", data[2] > 0 PROVE View[2] = data[2]
  BY Zenon
<1>1. PICK p \in Nat, q \in Nat : View = <<p, q>> /\ q = data[2]
  BY ViewIs, Zenon
<1>. QED BY <1>1, Zenon

\* One step of ViewStands.
StandStep ==
  /\ data # <<>> /\ data' # data /\ free # <<>> => View' = View \/ data' = <<>>
  /\ mode' = "follow" /\ data' # <<>> /\ data'[2] > 0 => View'[2] = data'[2]

\* Data that arrives changes neither mode nor bounds.
LEMMA CamStands == CamInv /\ CamInv' /\ CamChange => StandStep
<1>1. (CamInv /\ data # <<>> /\ mode = "follow" /\ data[2] > 0 => View[2] = data[2])'
  BY FollowsNewest, PTL
<1>. SUFFICES ASSUME CamInv, CamInv', CamChange PROVE StandStep
  BY Zenon
<1>2. mode' = "follow" /\ data' # <<>> /\ data'[2] > 0 => View'[2] = data'[2]
  BY <1>1, Zenon
<1>3. ASSUME data # <<>>, data' # data, free # <<>>, data' # <<>> PROVE View' = View
  <2>1. mode = "pan"
    BY <1>3, Zenon DEF CamInv, CamTyped
  <2>2. UNCHANGED <<mode, free>>
    <3>1. ASSUME NEW t, NewData(t) PROVE UNCHANGED <<mode, free>>
      BY <3>1, Zenon DEF NewData
    <3>2. CASE CamFixed
      BY <3>2, Zenon DEF CamFixed
    <3>. QED BY <1>3, <3>1, <3>2, Zenon
             DEF CamChange, Pan, Scroll, ShiftG, Jump, Toggle, TypeG, Home, SetWindow
  <2>. QED BY <1>3, <2>1, <2>2, Zenon DEF View
<1>. QED BY <1>2, <1>3, Zenon DEF StandStep

-----------------------------------------------------------------------------
(* The session *)

\* The files given by --layout and beside a capture are not in the directory of
\* the layouts, where files are named after the layouts in them.
Apart == Side \notin Slugs /\ Given \notin Slugs

SessTyped ==
  /\ files \in [Places0 -> Names \cup {NoFile}]
  /\ name \in Names \cup {NoFile} /\ doomed \in Names \cup {NoFile}
  /\ path \in {Given, NoFile}
  /\ args \subseteq {"file", "layout"} /\ ("layout" \in args => Given # NoFile)

SessInv == SessTyped /\ LayoutsReachable

\* What a step of the viewer does to the layouts.
SessChange ==
  /\ args' = args \/ TakeFile \/ TakeLayout
  /\ \/ UNCHANGED layoutVars
     \/ TakeLayout /\ LoadGiven
     \/ \E n \in Names : LoadNamed(n)
     \/ ApplySidecar
     \/ LayoutStep

\* Writing the name n to a file outside the directory, or to the file of its slug,
\* or removing a file of it, leaves every listed layout in its own file.
LEMMA FileWritten ==
  ASSUME files \in [Places0 -> Names \cup {NoFile}], NEW p \in Places0, NEW n \in Names \cup {NoFile},
         \A s \in Slugs : files[s] # NoFile => Slug[files[s]] = s,
         p \notin Slugs \/ n = NoFile \/ Slug[n] = p,
         files' = [files EXCEPT ![p] = n]
  PROVE /\ files' \in [Places0 -> Names \cup {NoFile}]
        /\ \A s \in Slugs : files'[s] # NoFile => Slug[files'[s]] = s
<1>1. Slugs \subseteq Places0
  BY Zenon DEF Places0
<1>. QED BY <1>1, Zenon

\* do_save_layout
LEMMA SaveKeeps ==
  ASSUME Apart, SessInv, NEW n \in Names, SaveLayout(n)
  PROVE /\ files' \in [Places0 -> Names \cup {NoFile}]
        /\ name' \in Names \cup {NoFile} /\ path' \in {Given, NoFile}
        /\ LayoutsReachable'
<1>1. /\ files \in [Places0 -> Names \cup {NoFile}] /\ path \in {Given, NoFile} /\ Given \notin Slugs
      /\ \A s \in Slugs : files[s] # NoFile => Slug[files[s]] = s
      /\ name \in Names \cup {NoFile}
      /\ name # NoFile /\ path = NoFile => from \in {Slug[name], Side}
      /\ path # NoFile => from \in {path, Side}
  BY Zenon DEF SessInv, SessTyped, LayoutsReachable, Apart
<1>2. CASE /\ path # NoFile /\ files' = [files EXCEPT ![path] = n] /\ from' = path
           /\ UNCHANGED <<name, path>>
  <2>1. path \in Places0 /\ path \notin Slugs
    BY <1>1, <1>2, Zenon DEF Places0
  <2>2. /\ files' \in [Places0 -> Names \cup {NoFile}]
        /\ \A s \in Slugs : files'[s] # NoFile => Slug[files'[s]] = s
    BY <1>1, <1>2, <2>1, FileWritten, Zenon
  <2>. QED BY <1>1, <1>2, <2>2, Zenon DEF LayoutsReachable
<1>3. CASE /\ path = NoFile /\ files' = [files EXCEPT ![Slug[n]] = n]
           /\ name' = n /\ from' = Slug[n] /\ UNCHANGED path
  <2>1. Slug[n] \in Places0
    BY Zenon DEF Places0, Slugs
  <2>2. /\ files' \in [Places0 -> Names \cup {NoFile}]
        /\ \A s \in Slugs : files'[s] # NoFile => Slug[files'[s]] = s
    BY <1>1, <1>3, <2>1, FileWritten, Zenon
  <2>. QED BY <1>1, <1>3, <2>2, Zenon DEF LayoutsReachable
<1>4. CASE UNCHANGED <<files, name, path, from>>
  BY <1>1, <1>4, Zenon DEF LayoutsReachable
<1>. QED BY <1>2, <1>3, <1>4, Zenon DEF SaveLayout

\* Load, save, save as, delete and sidecars in any order.
LEMMA SessKept == ASSUME Apart PROVE SessInv /\ SessChange => SessInv'
<1>. SUFFICES ASSUME SessInv, SessChange PROVE SessInv'
  BY Zenon
<1>1. /\ files \in [Places0 -> Names \cup {NoFile}]
      /\ name \in Names \cup {NoFile} /\ doomed \in Names \cup {NoFile} /\ path \in {Given, NoFile}
      /\ args \subseteq {"file", "layout"} /\ ("layout" \in args => Given # NoFile)
      /\ \A s \in Slugs : files[s] # NoFile => Slug[files[s]] = s
      /\ name # NoFile /\ path = NoFile => from \in {Slug[name], Side}
      /\ path # NoFile => from \in {path, Side}
  BY Zenon DEF SessInv, SessTyped, LayoutsReachable
<1>2. Side \notin Slugs /\ Side \in Places0 /\ NoFile \notin Names /\ Stem \in Names
      /\ \A n \in Names : Slug[n] \in Slugs /\ Slug[n] \in Places0
  BY SessionAssumption, Zenon DEF Apart, Places0, Slugs
<1>3. args' \subseteq {"file", "layout"} /\ ("layout" \in args' => Given # NoFile)
  <2>1. args' = args \/ TakeFile \/ TakeLayout
    BY Zenon DEF SessChange
  <2>. QED BY <1>1, <2>1, Zenon DEF TakeFile, TakeLayout
<1>4. SUFFICES /\ files' \in [Places0 -> Names \cup {NoFile}]
               /\ name' \in Names \cup {NoFile} /\ doomed' \in Names \cup {NoFile}
               /\ path' \in {Given, NoFile}
               /\ LayoutsReachable'
  BY <1>3, Zenon DEF SessInv, SessTyped
<1>5. ASSUME UNCHANGED <<files, name, path, from>>, doomed' \in Names \cup {NoFile}
      PROVE /\ files' \in [Places0 -> Names \cup {NoFile}]
            /\ name' \in Names \cup {NoFile} /\ doomed' \in Names \cup {NoFile}
            /\ path' \in {Given, NoFile}
            /\ LayoutsReachable'
  BY <1>1, <1>5, Zenon DEF LayoutsReachable
<1>6. CASE UNCHANGED layoutVars
  BY <1>1, <1>5, <1>6, Zenon DEF layoutVars
<1>7. CASE TakeLayout /\ LoadGiven
  <2>1. Given # NoFile
    BY <1>1, <1>7, Zenon DEF TakeLayout
  <2>2. Given \in Places0
    BY <2>1, Zenon DEF Places0
  <2>. QED BY <1>1, <1>7, <2>1, <2>2, Zenon DEF LoadGiven, LayoutsReachable
<1>8. ASSUME NEW n \in Names, LoadNamed(n)
      PROVE /\ files' \in [Places0 -> Names \cup {NoFile}]
            /\ name' \in Names \cup {NoFile} /\ doomed' \in Names \cup {NoFile}
            /\ path' \in {Given, NoFile}
            /\ LayoutsReachable'
  BY <1>1, <1>2, <1>8, Zenon DEF LoadNamed, LayoutsReachable
<1>9. CASE ApplySidecar
  BY <1>1, <1>2, <1>9, Zenon DEF ApplySidecar, LayoutsReachable
<1>10. CASE LayoutStep
  <2>1. CASE MenuSave
    <3>1. name \in Names
      BY <1>1, <2>1, Zenon DEF MenuSave
    <3>. QED BY <1>1, <2>1, <3>1, SaveKeeps, Zenon DEF MenuSave
  <2>2. CASE OpenSaveAs \/ CancelSaveAs \/ CancelDelete
    BY <1>1, <1>5, <2>2, Zenon DEF OpenSaveAs, CancelSaveAs, CancelDelete
  <2>3. CASE ConfirmDelete
    <3>1. doomed \in Names /\ doomed' = NoFile /\ UNCHANGED <<path, from>>
      BY <1>1, <2>3, Zenon DEF ConfirmDelete
    <3>2. CASE /\ files' = [files EXCEPT ![Slug[doomed]] = NoFile]
               /\ name' = IF name = doomed THEN NoFile ELSE name
      <4>1. /\ files' \in [Places0 -> Names \cup {NoFile}]
            /\ \A s \in Slugs : files'[s] # NoFile => Slug[files'[s]] = s
        BY <1>1, <1>2, <3>1, <3>2, FileWritten, Zenon
      <4>. QED BY <1>1, <3>1, <3>2, <4>1, Zenon DEF LayoutsReachable
    <3>3. CASE UNCHANGED <<files, name>>
      BY <1>5, <3>1, <3>3, Zenon
    <3>. QED BY <2>3, <3>2, <3>3, Zenon DEF ConfirmDelete
  <2>4. CASE SaveSidecar
    <3>1. PICK n \in Names : files' = [files EXCEPT ![Side] = n]
      BY <1>1, <1>2, <2>4, Zenon DEF SaveSidecar
    <3>2. /\ files' \in [Places0 -> Names \cup {NoFile}]
          /\ \A s \in Slugs : files'[s] # NoFile => Slug[files'[s]] = s
      BY <1>1, <1>2, <3>1, FileWritten, Zenon
    <3>3. UNCHANGED <<name, path, from, doomed>>
      BY <2>4, Zenon DEF SaveSidecar
    <3>. QED BY <1>1, <3>2, <3>3, Zenon DEF LayoutsReachable
  <2>5. ASSUME NEW n \in Names, CommitSaveAs(n)
        PROVE /\ files' \in [Places0 -> Names \cup {NoFile}]
              /\ name' \in Names \cup {NoFile} /\ doomed' \in Names \cup {NoFile}
              /\ path' \in {Given, NoFile}
              /\ LayoutsReachable'
    BY <1>1, <2>5, SaveKeeps, Zenon DEF CommitSaveAs
  <2>6. ASSUME NEW n \in Names, OpenDelete(n)
        PROVE /\ files' \in [Places0 -> Names \cup {NoFile}]
              /\ name' \in Names \cup {NoFile} /\ doomed' \in Names \cup {NoFile}
              /\ path' \in {Given, NoFile}
              /\ LayoutsReachable'
    BY <1>5, <2>6, Zenon DEF OpenDelete
  <2>. QED BY <1>10, <2>1, <2>2, <2>3, <2>4, <2>5, <2>6, Zenon DEF LayoutStep
<1>. QED BY <1>6, <1>7, <1>8, <1>9, <1>10, Zenon DEF SessChange

\* The directory is as earlier sessions left it.
LEMMA SessStart == SessionInit => SessInv
<1>. SUFFICES ASSUME SessionInit PROVE SessInv
  BY Zenon
<1>1. SessTyped
  BY Zenon DEF SessionInit, SessTyped
<1>2. LayoutsReachable
  BY Zenon DEF SessionInit, LayoutsReachable
<1>. QED BY <1>1, <1>2, Zenon DEF SessInv

-----------------------------------------------------------------------------
(* The whole viewer *)

\* Every step of the viewer is one of these to the markers.
LEMMA MarkerMoves ==
  ASSUME [Next]_vars
  PROVE MarkerChange
<1>1. CASE UNCHANGED vars
  BY <1>1, Zenon DEF MarkerChange, vars, markerVars, set, pointer
<1>2. CASE FirstFrame
  BY <1>2, Zenon DEF MarkerChange, FirstFrame, CaptureOpened, BadCapture, markerVars, set, pointer
<1>3. CASE DragFrame
  BY <1>3, Zenon DEF MarkerChange, DragFrame
<1>4. CASE MarkerStep
  BY <1>4, Zenon DEF MarkerChange, MarkerStep, ToggleMarkerMode
<1>5. CASE EscapeKey
  BY <1>5, Zenon DEF MarkerChange, EscapeKey, Escape
<1>6. CASE CameraStep
  BY <1>6, Zenon DEF MarkerChange, CameraStep, markerVars, set, pointer
<1>7. CASE ~down /\ SessionStep
  <2>1. CASE LoadLayout
    BY <2>1, Zenon DEF MarkerChange, LoadLayout
  <2>2. CASE CaptureOpened
    BY <2>2, Zenon DEF MarkerChange, CaptureOpened, markerVars, set, pointer
  <2>3. CASE BadCapture
    BY <2>3, Zenon DEF MarkerChange, BadCapture, markerVars, set, pointer
  <2>4. CASE Reconnect
    BY <2>4, Zenon DEF MarkerChange, Reconnect, markerVars, set, pointer
  <2>5. CASE Clear
    BY <1>7, <2>5, Zenon DEF MarkerChange, Clear, Cleared, pointer
  <2>6. CASE UNCHANGED markerVars
    BY <2>6, Zenon DEF MarkerChange, markerVars, set, pointer
  <2>. QED BY <1>7, <2>1, <2>2, <2>3, <2>4, <2>5, <2>6, Zenon DEF SessionStep
<1>. QED BY <1>1, <1>2, <1>3, <1>4, <1>5, <1>6, <1>7, Zenon DEF Next

\* Every step of the viewer is one of these to the camera.
LEMMA CamMoves ==
  ASSUME [Next]_vars
  PROVE CamChange
<1>1. CASE UNCHANGED camVars
  BY <1>1, Zenon DEF CamChange, camVars
<1>2. CASE StoreEmptied
  BY <1>2, Zenon DEF CamChange, StoreEmptied, CamFixed
<1>3. CASE CaptureOpened
  BY <1>3, Zenon DEF CamChange, CaptureOpened, CamFixed
<1>4. CASE FirstFrame
  BY <1>1, <1>2, <1>3, <1>4, Zenon DEF FirstFrame, BadCapture
<1>5. CASE DragFrame
  <2>1. PICK dx \in Steps : Panned(dx, dragM')
    BY <1>5, Zenon DEF DragFrame
  <2>2. Pan(dx, FALSE, TRUE) \/ UNCHANGED camVars
    BY <2>1, Zenon DEF Panned
  <2>. QED BY <1>1, <2>2, Zenon DEF CamChange
<1>6. CASE MarkerStep
  BY <1>1, <1>6, Zenon DEF MarkerStep
<1>7. CASE EscapeKey
  BY <1>7, Zenon DEF CamChange, EscapeKey
<1>8. CASE CameraStep
  BY <1>8, Zenon DEF CamChange, CameraStep, ExpireG
<1>9. CASE SessionStep
  <2>1. CASE Reconnect
    BY <1>1, <1>2, <2>1, Zenon DEF Reconnect
  <2>2. CASE BadCapture
    BY <1>2, <2>2, Zenon DEF BadCapture
  <2>3. CASE Clear
    BY <2>3, Zenon DEF CamChange, Clear
  <2>4. CASE LoadLayout
    BY <1>1, <2>4, Zenon DEF LoadLayout
  <2>. QED BY <1>1, <1>3, <1>9, <2>1, <2>2, <2>3, <2>4, Zenon DEF SessionStep
<1>. QED BY <1>1, <1>4, <1>5, <1>6, <1>7, <1>8, <1>9, Zenon DEF Next, vars

\* Every step of the viewer is one of these to the layouts.
LEMMA LayoutMoves ==
  ASSUME [Next]_vars
  PROVE SessChange
<1>1. CASE UNCHANGED sessionVars
  BY <1>1, Zenon DEF SessChange, sessionVars
<1>2. CASE FirstFrame
  BY <1>2, Zenon DEF SessChange, FirstFrame, CaptureOpened, BadCapture, NoSidecar
<1>3. CASE DragFrame
  BY <1>1, <1>3, Zenon DEF DragFrame
<1>4. CASE MarkerStep
  BY <1>1, <1>4, Zenon DEF MarkerStep
<1>5. CASE EscapeKey
  BY <1>1, <1>5, Zenon DEF EscapeKey
<1>6. CASE CameraStep
  BY <1>1, <1>6, Zenon DEF CameraStep
<1>7. CASE SessionStep /\ UNCHANGED args
  BY <1>7, Zenon DEF SessChange, SessionStep, LoadLayout, CaptureOpened, BadCapture, NoSidecar, Reconnect, Clear
<1>. QED BY <1>1, <1>2, <1>3, <1>4, <1>5, <1>6, <1>7, Zenon DEF Next, vars

\* The invariants of the three parts hold at the start.
LEMMA AllStart == Init => MarkInv /\ CamInv /\ SessInv
BY MarkInit, CamStart, SessStart, Zenon DEF Init

\* The markers' and the camera's invariants are preserved by every step.
LEMMA AllNext ==
  /\ MarkInv /\ [Next]_vars => MarkInv'
  /\ CamInv /\ [Next]_vars => CamInv'
BY MarkerMoves, MarkKeeps, CamMoves, CamKept, Zenon

-----------------------------------------------------------------------------
(* The theorems *)

\* The markers stay consistent under every click, key, drag, deletion, load, new
\* source and first frame: no id twice, no dangling link, no dead selection.
THEOREM MarkersStayConsistent == Spec => []MarkersConsistent
<1>1. MarkInv => MarkersConsistent
  BY JoinedConsistent, Zenon DEF MarkInv
<1>. QED BY <1>1, AllStart, AllNext, PTL DEF Spec

\* capture and restore are inverse to each other in every reachable state, up to
\* the ids, which restore gives anew.
THEOREM LayoutsKeepMarkers == Spec => []LayoutKeepsMarkers
<1>1. MarkInv => LayoutKeepsMarkers
  BY LayoutKept, Zenon DEF MarkInv
<1>. QED BY <1>1, AllStart, AllNext, PTL DEF Spec

\* The bounds and the view are proper whatever the user and the data do: no zoom
\* or pan turns them inside out, and follow mode leaves no bounds behind.
THEOREM ViewStaysWellFormed == Spec => []ViewWellFormed
BY CamWellFormed, AllStart, AllNext, PTL DEF Spec

\* Data that arrives, or is replaced by a capture, does not move a view the user
\* has put down; in follow mode the view ends with the newest sample.
THEOREM ViewStandsStill == Spec => ViewStands
<1>1. CamInv /\ CamInv' /\ [Next]_vars => StandStep
  BY CamMoves, CamStands, Zenon
<1>. QED BY <1>1, AllStart, AllNext, PTL DEF Spec, ViewStands, StandStep

\* One step of DragHoldsCamera.
HoldStep ==
  dragM' # None /\ (~down \/ (markers' # markers /\ Len(markers') = Len(markers))) =>
    /\ UNCHANGED <<mode, free>>
    /\ \A i \in DOMAIN markers : markers[i].id # dragM' => markers'[i] = markers[i]

\* A drag moves either a marker or the time axis: a frame that takes hold of a
\* marker or moves one leaves the camera and the other markers alone, also when a
\* key deletes the marker under the pointer.
THEOREM DragsHoldCamera == Spec => DragHoldsCamera
<1>1. MarkInv /\ [Next]_vars => HoldStep
  <2>. SUFFICES ASSUME MarkInv, [Next]_vars,
                       dragM' # None, ~down \/ (markers' # markers /\ Len(markers') = Len(markers))
                PROVE /\ UNCHANGED <<mode, free>>
                      /\ \A i \in DOMAIN markers : markers[i].id # dragM' => markers'[i] = markers[i]
    BY Zenon DEF HoldStep
  <2>1. (~down => dragM = None) /\ MarkerChange
    BY MarkerMoves, Zenon DEF MarkInv
  <2>2. /\ \/ \E x \in Places, y \in Heights : DragStart(x, y)
           \/ \E x \in Places, y \in Heights : DragMove(x, y)
        /\ \A i \in DOMAIN markers : markers[i].id # dragM' => markers'[i] = markers[i]
    BY <2>1, HeldInDrag, Zenon
  <2>3. ~(~down /\ UNCHANGED pointer)
    BY <2>1, Zenon DEF pointer
  <2>7. UNCHANGED <<mode, free>>
    <3>1. CASE DragFrame
      <4>1. PICK dx \in Steps : Panned(dx, dragM')
        BY <3>1, Zenon DEF DragFrame
      <4>2. UNCHANGED camVars
        BY <4>1, Zenon DEF Panned
      <4>. QED BY <4>2, Zenon DEF camVars
    <3>2. CASE UNCHANGED <<markers, pointer>>
      BY <2>1, <3>2, Zenon DEF pointer
    <3>3. CASE MarkerStep
      BY <3>3, Zenon DEF MarkerStep, camVars
    <3>4. CASE EscapeKey
      BY <3>4, Zenon DEF EscapeKey
    <3>5. CASE CameraStep
      BY <3>2, <3>5, Zenon DEF CameraStep, markerVars, pointer
    <3>6. CASE ~down /\ SessionStep
      BY <2>3, <3>6, Zenon DEF SessionStep, LoadLayout, Load, CaptureOpened, BadCapture, Reconnect,
                               Clear, markerVars, pointer
    <3>7. CASE FirstFrame
      BY <2>3, <3>2, <3>7, Zenon DEF FirstFrame, Load, CaptureOpened, BadCapture, markerVars, pointer
    <3>8. CASE UNCHANGED vars
      BY <3>2, <3>8, Zenon DEF vars, markerVars, pointer
    <3>. QED BY <3>1, <3>3, <3>4, <3>5, <3>6, <3>7, <3>8, Zenon DEF Next
  <2>. QED BY <2>2, <2>7, Zenon
<1>. QED BY <1>1, AllStart, AllNext, PTL DEF Spec, DragHoldsCamera, HoldStep

\* Every entry of the menu is read from the file it names, and Save goes back to
\* the file on the screen, for any names, slugs that collide included.
THEOREM LayoutsStayReachable == ASSUME Apart PROVE Spec => []LayoutsReachable
<1>1. SessInv => LayoutsReachable
  BY Zenon DEF SessInv
<1>2. SessInv /\ [Next]_vars => SessInv'
  BY LayoutMoves, SessKept, Zenon
<1>. QED BY <1>1, <1>2, AllStart, PTL DEF Spec
=============================================================================
