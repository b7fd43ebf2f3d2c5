---------------------------- MODULE SeriesStore -----------------------------
(***************************************************************************)
(* The viewer's store of time series (crate btelem-store): channels are    *)
(* registered, samples appended, and everything the viewer draws is asked  *)
(* of it by range queries that bisect.  Timestamps and values are naturals;*)
(* Ingest models who calls these operations and when.                      *)
(***************************************************************************)
EXTENDS Integers, Sequences, FiniteSets, FiniteSetsExt, Bisect

CONSTANTS Kinds,         \* kind of the channel registered with each id
          Times,         \* timestamps, 0 .. some bound
          Vals,          \* values a channel of each kind takes
          BucketBudgets, \* the max_buckets that query_scalar is asked for
          MaxSamples,    \* bound on the samples held
          MaxDisorder    \* bound on samples older than their predecessor

VARIABLES nchan,         \* channels registered, ids 1 .. nchan
          series,        \* per id: <<t, v>> samples, or the runs of a state
          pushed         \* per id: every <<t, v>> given to push_* since clear

storeVars == <<nchan, series, pushed>>

ASSUME KindsAssumption == Kinds \in Seq({"scalar", "state", "text"})

Ids     == DOMAIN Kinds
Missing == -1                       \* Rust's None; values are naturals
Forever == 1000                     \* u64::MAX

ASSUME TimesAssumption == \E n \in 0 .. Forever - 2 : Times = 0 .. n
ASSUME ValsAssumption  == \A k \in {"scalar", "state", "text"} : Vals[k] \subseteq Nat
ASSUME BudgetsAssumption == BucketBudgets \subseteq Nat \ {0}

Empty   == [c \in Ids |-> <<>>]
Known   == 1 .. nchan
Of(kind) == {c \in Known : Kinds[c] = kind}

NonDecreasing(s) == \A i \in 1 .. Len(s) - 1 : s[i][1] <= s[i + 1][1]
Sorted(c)        == NonDecreasing(pushed[c])
Inversions(s)    == {i \in 1 .. Len(s) - 1 : s[i][1] > s[i + 1][1]}

StoreInit == nchan = 0 /\ series = Empty /\ pushed = Empty

-----------------------------------------------------------------------------
(* Registration, ingest and clear *)

\* add_scalar, add_scalar_int, add_state, add_text: the next id, no samples.
Register ==
  /\ nchan < Len(Kinds)
  /\ nchan' = nchan + 1
  /\ UNCHANGED <<series, pushed>>

\* A run that is not closed when the value changes.
PushStateOpen(runs, t, v) ==
  IF runs # <<>> /\ runs[Len(runs)].v = v THEN [runs EXCEPT ![Len(runs)].e = t]
  ELSE Append(runs, [s |-> t, e |-> t, v |-> v])

\* push_state: extend the last run, or close it and open another.
PushState(runs, t, v) ==
  LET closed == IF runs = <<>> THEN <<>> ELSE [runs EXCEPT ![Len(runs)].e = t]
  IN IF runs # <<>> /\ runs[Len(runs)].v = v THEN closed
     ELSE Append(closed, [s |-> t, e |-> t, v |-> v])

\* Samples pushed since the last clear, over all channels.
Held == FoldSet(LAMBDA a, n : n + Len(pushed[a]), 0, Ids)

\* push_scalar, push_state, push_text: an unknown channel is ignored.
Push(c, t, v) ==
  /\ Held < MaxSamples
  /\ Cardinality(Inversions(Append(pushed[c], <<t, v>>))) <= MaxDisorder
  /\ series' = [series EXCEPT ![c] = IF c > nchan THEN @
                  ELSE IF Kinds[c] = "state" THEN PushState(@, t, v)
                  ELSE Append(@, <<t, v>>)]
  /\ pushed' = [pushed EXCEPT ![c] = IF c > nchan THEN @ ELSE Append(@, <<t, v>>)]
  /\ UNCHANGED nchan

\* clear
Clear == nchan > 0 /\ nchan' = 0 /\ series' = Empty /\ pushed' = Empty

StoreNext ==
  \/ Register
  \/ \E c \in Ids, t \in Times : \E v \in Vals[Kinds[c]] : Push(c, t, v)
  \/ Clear

Spec == StoreInit /\ [][StoreNext]_storeVars

-----------------------------------------------------------------------------
(* Queries *)

\* partition_point(|x| x.0 < t)
FirstNotBefore(s, t) == PartitionPoint(Len(s), {i \in DOMAIN s : s[i][1] < t})

\* The lower end past a sample at t0.
SliceEndsPast(s, t0, t1) == <<FirstNotBefore(s, t0) + 1, FirstNotBefore(s, t1)>>

\* lo and hi, found by two independent bisections.
SliceEnds(s, t0, t1) == <<FirstNotBefore(s, t0), FirstNotBefore(s, t1)>>

\* &samples[lo..hi]: the samples in [t0, t1).
InRange(s, t0, t1) ==
  LET ends == SliceEnds(s, t0, t1) IN SubSeq(s, ends[1] + 1, ends[2])

\* Bucket index rounded up, so the last samples fall in a bucket too many.
BucketIndexUp(t, t0, t1, max) == ((t - t0) * max + (t1 - t0) - 1) \div (t1 - t0)

\* ((t - t0) / bw).floor() with bw = (t1 - t0) / max_buckets.
BucketIndex(t, t0, t1, max) == ((t - t0) * max) \div (t1 - t0)

\* A sample x of index i joins the last bucket or opens the next.
Bucketed(out, i, x) ==
  IF out # <<>> /\ out[Len(out)].i = i
  THEN [out EXCEPT ![Len(out)].min = Min({@, x[2]}),
                   ![Len(out)].max = Max({@, x[2]})]
  ELSE Append(out, [i |-> i, t |-> x[1], min |-> x[2], max |-> x[2]])

\* Consecutive samples of one index make a bucket, stamped with the first.
Downsampled(in, t0, t1, max) ==
  LET filled[k \in 0 .. Len(in)] ==
        IF k = 0 THEN <<>>
        ELSE Bucketed(filled[k - 1], BucketIndex(in[k][1], t0, t1, max), in[k])
      out == filled[Len(in)]
  IN [j \in DOMAIN out |-> [t |-> out[j].t, min |-> out[j].min, max |-> out[j].max]]

Queryable(c, kind, t0, t1, max) == c \in Of(kind) /\ max > 0 /\ t0 < t1

\* query_scalar: the samples themselves if they fit, else min/max buckets.
QueryScalar(c, t0, t1, max) ==
  LET in == InRange(series[c], t0, t1)
  IN IF ~Queryable(c, "scalar", t0, t1, max) THEN <<>>
     ELSE IF Len(in) <= max
          THEN [j \in DOMAIN in |-> [t |-> in[j][1], min |-> in[j][2], max |-> in[j][2]]]
          ELSE Downsampled(in, t0, t1, max)

CeilDiv(a, b) == (a + b - 1) \div b

\* Every stride-th element, so that at most max remain.
Strided(in, max) ==
  LET n == IF Len(in) <= max THEN 1 ELSE CeilDiv(Len(in), max)
  IN [j \in 1 .. CeilDiv(Len(in), n) |-> in[(j - 1) * n + 1]]

\* query_raw of a scalar channel, query_text of a text channel.
QueryRaw(c, kind, t0, t1, max) ==
  IF Queryable(c, kind, t0, t1, max) THEN Strided(InRange(series[c], t0, t1), max)
  ELSE <<>>

\* The trailing run is held for ever; the others end where the next begins.
EffectiveEnd(runs, i) == IF i = Len(runs) THEN Forever ELSE runs[i].e

\* query_state: skip the closed runs that end at or before t0, then take runs
\* that begin before t1.
QueryState(c, t0, t1) ==
  LET runs == IF c \in Of("state") THEN series[c] ELSE <<>>
      skip == PartitionPoint(Len(runs) - 1, {i \in DOMAIN runs : runs[i].e <= t0})
      n    == Max({i \in 0 .. Len(runs) - skip :
                     \A j \in 1 .. i : runs[skip + j].s < t1})
  IN IF runs = <<>> THEN <<>>
     ELSE [j \in 1 .. n |-> [runs[skip + j] EXCEPT !.e = EffectiveEnd(runs, skip + j)]]

\* sample_at of a state channel.
StateAt(c, t) ==
  LET runs == series[c]
      i    == PartitionPoint(Len(runs), {j \in DOMAIN runs : runs[j].s <= t})
  IN IF i = 0 \/ t >= EffectiveEnd(runs, i) THEN Missing ELSE runs[i].v

\* sample_at of a scalar channel: a sample at t (binary_search may find any of
\* several), else linear interpolation, as numerator over denominator.
ScalarAt(c, t) ==
  LET s == series[c]
      i == FirstNotBefore(s, t)
      a == s[i]
      b == s[i + 1]
  IN IF i = Len(s) THEN {}
     ELSE IF b[1] = t THEN {<<x[2], 1>> : x \in {y \in Range(s) : y[1] = t}}
     ELSE IF i = 0 THEN {}
     ELSE {<<a[2] * (b[1] - a[1]) + (t - a[1]) * (b[2] - a[2]), b[1] - a[1]>>}

Times1(c, i) == IF Kinds[c] = "state" THEN series[c][i].s ELSE series[c][i][1]
TimesN(c, i) == IF Kinds[c] = "state" THEN series[c][i].e ELSE series[c][i][1]
Live == {c \in Known : series[c] # <<>>}

\* The end taken from the start of the last run instead of its end.
TimeBoundsStart ==
  IF Live = {} THEN <<>>
  ELSE <<Min({Times1(c, 1) : c \in Live}),
         Max({Times1(c, Len(series[c])) : c \in Live})>>

\* time_bounds: from the first and the last element of every series.
TimeBounds ==
  IF Live = {} THEN <<>>
  ELSE <<Min({Times1(c, 1) : c \in Live}),
         Max({TimesN(c, Len(series[c])) : c \in Live})>>

\* value_bounds: one bucket over all time, or the runs of a state channel.
ValueBounds(c) ==
  LET t0 == TimeBounds[1]  t1 == TimeBounds[2] + 1
      b  == QueryScalar(c, t0, t1, 1)
      vs == {r.v : r \in Range(QueryState(c, t0, t1))}
  IN IF Live = {} THEN <<>>
     ELSE IF b # <<>> THEN <<b[1].min, b[1].max>>
     ELSE IF vs = {} THEN <<>> ELSE <<Min(vs), Max(vs)>>

-----------------------------------------------------------------------------
(* What the queries answer, against what was pushed *)

Ends    == Times \cup {Max(Times) + 1}
Windows == {w \in Ends \X Ends : w[1] < w[2]}

Seen(c, w) == {x \in Range(pushed[c]) : w[1] <= x[1] /\ x[1] < w[2]}

\* The value pushed last at or before t.
LastAt(c, t) ==
  LET n == Max({0} \cup {i \in DOMAIN pushed[c] : pushed[c][i][1] <= t})
  IN IF n = 0 THEN Missing ELSE pushed[c][n][2]

StoreTypeOK ==
  /\ nchan \in 0 .. Len(Kinds)
  /\ \A c \in Ids :
        /\ c > nchan => series[c] = <<>>
        /\ IF Kinds[c] = "state"
           THEN \A r \in Range(series[c]) : r.s \in Times /\ r.e \in Times
           ELSE series[c] = pushed[c]

\* query_scalar over samples in time order: at most max_buckets buckets, in
\* order of time; every sample of [t0, t1) lies within the min and max of the
\* bucket of its time, and every min and max is the value of such a sample.
BucketsExact ==
  \A c \in Of("scalar"), w \in Windows, max \in BucketBudgets :
    LET q == QueryScalar(c, w[1], w[2], max)
        In(b, x) == b.t <= x[1] /\ \A d \in Range(q) : d.t <= b.t \/ d.t > x[1]
    IN Sorted(c) =>
         /\ Len(q) <= max
         /\ \A i \in 1 .. Len(q) - 1 : q[i].t <= q[i + 1].t
         /\ \A x \in Seen(c, w) : \E b \in Range(q) :
               In(b, x) /\ b.min <= x[2] /\ x[2] <= b.max
         /\ \A b \in Range(q) : \A v \in {b.min, b.max} :
               \E x \in Seen(c, w) : In(b, x) /\ x[2] = v

\* sample_at of a state channel is the value observed last, held for ever, and
\* query_state agrees with it at every instant of every window.
StateAgrees ==
  \A c \in Of("state") : Sorted(c) =>
    /\ \A t \in Ends : StateAt(c, t) = LastAt(c, t)
    /\ \A w \in Windows : \A t \in w[1] .. w[2] - 1 :
         {r.v : r \in {x \in Range(QueryState(c, w[1], w[2])) : x.s <= t /\ t < x.e}}
           = {LastAt(c, t)} \ {Missing}

\* time_bounds spans every sample of every channel, and value_bounds every
\* value a channel can show, although neither looks at more than the ends of a
\* series or one bucket.
BoundsExact ==
  (\A c \in Known : Sorted(c)) /\ Live # {} =>
    LET ts    == UNION {{x[1] : x \in Range(pushed[c])} : c \in Known}
        vs(c) == {x[2] : x \in Range(pushed[c])}
        Sees(c) == IF Kinds[c] = "state" THEN {StateAt(c, t) : t \in ts} \ {Missing} ELSE vs(c)
    IN /\ TimeBounds = <<Min(ts), Max(ts)>>
       /\ \A c \in Live \ Of("text") :
             LET b == ValueBounds(c)
             IN Range(b) \subseteq vs(c) /\ \A v \in Sees(c) : b[1] <= v /\ v <= b[2]

\* Whatever the order in which samples arrived, two bisections of one series
\* never make the slice samples[lo..hi] run backwards, which would be a panic.
SliceInOrder ==
  \A c \in Known \ Of("state"), w \in Windows :
    LET ends == SliceEnds(series[c], w[1], w[2])
    IN ends[1] <= ends[2] /\ ends[2] <= Len(series[c])

\* Samples of several producers reach a channel out of order, and bisection
\* then finds an arbitrary place.  sample_at still divides by a positive
\* difference of unsigned times and answers a value between two samples.
InterpolationBracketed ==
  \A c \in Of("scalar"), t \in Ends : \A q \in ScalarAt(c, t) :
    /\ q[2] > 0
    /\ \E x, y \in Range(pushed[c]) : x[2] * q[2] <= q[1] /\ q[1] <= y[2] * q[2]

\* Out of order or not, a query of MockStore neither panics nor invents a value.
DisorderSafe == SliceInOrder /\ InterpolationBracketed
=============================================================================
