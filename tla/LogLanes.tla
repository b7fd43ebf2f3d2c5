------------------------------ MODULE LogLanes ------------------------------
(***************************************************************************)
(* What the viewer draws from the store: the lanes of a logic analyser and *)
(* the table of a log view (plot_renderers.rs).  Both are computed afresh  *)
(* on every frame from the visible window [t0, t1).                        *)
(***************************************************************************)
EXTENDS SeriesStore, SequencesExt

CONSTANTS Filters,     \* sets of column filters a log view may have
          RowBudgets   \* values of max_rows

-----------------------------------------------------------------------------
(* Lanes *)

\* `as i64` of what sample_at returned; values are naturals.
AsInt(q) == q[1] \div q[2]

\* The last run is held to the right edge.
HeldToEdge(runs, t1) == IF runs = <<>> THEN <<>> ELSE [runs EXCEPT ![Len(runs)].e = t1]

\* A run is not closed by the next one.
RunsOfOpen(samples) ==
  FoldLeft(LAMBDA out, x : PushStateOpen(out, x[1], x[2]), <<>>, samples)

\* Successive samples of one value make a run, as push_state does.
RunsOf(samples) == FoldLeft(LAMBDA out, x : PushState(out, x[1], x[2]), <<>>, samples)

\* The gap before the first sample of the window: a run with what sample_at
\* says of t0, or the first run stretched back to t0.
ExtendedLeft(c, runs, t0) ==
  LET held == {AsInt(q) : q \in ScalarAt(c, t0)} \ {runs[1].v}
  IN IF runs = <<>> \/ runs[1].s <= t0 THEN {runs}
     ELSE IF held = {} THEN {[runs EXCEPT ![1].s = t0]}
     ELSE {<<[s |-> t0, e |-> runs[1].s, v |-> v]>> \o runs : v \in held}

\* No sample in the window: the value at the latest time of the store.
LatestHeld(c, t0, t1) ==
  LET at == {AsInt(q) : q \in ScalarAt(c, TimeBounds[2])}
  IN IF Live = {} \/ at = {} THEN {<<>>}
     ELSE {<<[s |-> t0, e |-> t1, v |-> v]>> : v \in at}

\* render_logic_lane of a scalar channel, with at most max samples asked for.
ScalarLane(c, t0, t1, max) ==
  LET runs == HeldToEdge(RunsOf(QueryRaw(c, "scalar", t0, t1, max)), t1)
  IN IF runs = <<>> THEN LatestHeld(c, t0, t1) ELSE ExtendedLeft(c, runs, t0)

\* render_state_lane, and render_logic_lane of a state channel.
StateLane(c, t0, t1) ==
  LET q    == QueryState(c, t0, t1)
      runs == IF q = <<>> /\ StateAt(c, t0) # Missing
              THEN <<[s |-> t0, e |-> t1, v |-> StateAt(c, t0)]>> ELSE q
  IN IF runs # <<>> /\ Last(runs).e < t1 THEN HeldToEdge(runs, t1) ELSE runs

-----------------------------------------------------------------------------
(* Rows of a log view *)

\* build_log_rows: the first text column, else the first column.
Anchor(cols) ==
  IF \E i \in DOMAIN cols : Kinds[cols[i]] = "text"
  THEN cols[Min({i \in DOMAIN cols : Kinds[cols[i]] = "text"})] ELSE cols[1]

\* Samples keyed by timestamp: of several at one time the last stays.
Keyed(c, t0, t1) == QueryRaw(c, Kinds[c], t0, t1, MaxSamples)

\* Carry forward from any sample of the window.
ValueAtAny(c, t, t0, t1) ==
  LET s == Keyed(c, t0, t1) IN IF s = <<>> THEN Missing ELSE Last(s)[2]

\* m.range(..=t).next_back()
ValueAt(c, t, t0, t1) ==
  LET s == Keyed(c, t0, t1)
      n == Cardinality({i \in DOMAIN s : s[i][1] <= t})
  IN IF n = 0 THEN Missing ELSE s[n][2]

\* state_value_at over the runs of the window.
StateValueAt(runs, t) ==
  LET i == PartitionPoint(Len(runs), {j \in DOMAIN runs : runs[j].s <= t})
  IN IF i = 0 \/ t >= runs[i].e THEN Missing ELSE runs[i].v

Cell(c, t, t0, t1) ==
  IF Kinds[c] = "state" THEN StateValueAt(QueryState(c, t0, t1), t)
  ELSE ValueAt(c, t, t0, t1)

\* Times of the rows: the distinct times of the anchor's samples, or the
\* starts of its runs.
AnchorTimes(c, t0, t1) ==
  IF Kinds[c] = "state" THEN LET q == QueryState(c, t0, t1) IN [i \in DOMAIN q |-> q[i].s]
  ELSE SetToSortSeq({x[1] : x \in Range(Keyed(c, t0, t1))}, <)

BuildLogRows(cols, t0, t1) ==
  LET ts == IF cols = <<>> THEN <<>> ELSE AnchorTimes(Anchor(cols), t0, t1)
  IN [i \in DOMAIN ts |->
        [t |-> ts[i], cells |-> [c \in Range(cols) |-> Cell(c, ts[i], t0, t1)]]]

\* ColumnFilter::accepts and is_active.  A filter is the kind of value it
\* takes and the set it accepts; "none" is the identity predicate.
Accepts(f, c, v) ==
  \/ f.kind = "none"
  \/ /\ v # Missing
     /\ (f.kind = "text") <=> (Kinds[c] = "text")
     /\ v \in f.accept

\* row_passes_filters: the conjunction of all; a cell that is not there is missing.
RowPasses(row, fs) ==
  \A f \in fs : Accepts(f, f.col, IF f.col \in DOMAIN row.cells THEN row.cells[f.col]
                                  ELSE Missing)

\* sample_even_over_time: the first row of each of n equal spans of time.
SampleEven(rows, n) ==
  LET first == rows[1].t
      span  == Last(rows).t - first + 1
      slot(r) == ((r.t - first) * n) \div span
      add(out, r) == IF out # <<>> /\ slot(Last(out)) = slot(r) THEN out ELSE Append(out, r)
  IN IF n = 0 THEN <<>>
     ELSE IF Len(rows) <= n THEN rows
     ELSE IF span = 1 THEN SubSeq(Strided(rows, n), 1, n)
     ELSE FoldLeft(add, <<>>, rows)

\* Rows without the value form the lowest tier.
Score(row, pri) == IF pri \in DOMAIN row.cells /\ Kinds[pri] # "text"
                   THEN row.cells[pri] ELSE Missing

\* One tier after another, the highest score first: whole while it fits, then
\* one in part and no more.
Fill(out, tier, max) ==
  IF out.full THEN out
  ELSE IF Len(tier) <= max - Len(out.rows)
       THEN [rows |-> out.rows \o tier, full |-> FALSE]
       ELSE [rows |-> out.rows \o SampleEven(tier, max - Len(out.rows)), full |-> TRUE]

\* tiers.into_iter().rev()
HighestFirst(scores) == SetToSortSeq(scores, >)

TruncateRows(rows, pri, max) ==
  LET scores == HighestFirst({Score(r, pri) : r \in Range(rows)})
      tier(s) == SelectSeq(rows, LAMBDA r : Score(r, pri) = s)
      kept == FoldLeft(LAMBDA out, s : Fill(out, tier(s), max),
                       [rows |-> <<>>, full |-> FALSE], scores).rows
  IN IF Len(rows) <= max THEN rows
     ELSE IF pri = Missing THEN SampleEven(rows, max)
     ELSE SortSeq(kept, LAMBDA a, b : a.t < b.t)

\* The budget applied before the filters.
ShownCutFirst(rows, fs, pri, max) ==
  SelectSeq(TruncateRows(rows, pri, max), LAMBDA r : RowPasses(r, fs))

\* render_log_view, of the rows it has built: filter, then cut down to the budget.
Shown(rows, fs, pri, max) ==
  TruncateRows(SelectSeq(rows, LAMBDA r : RowPasses(r, fs)), pri, max)

-----------------------------------------------------------------------------
AllSorted == \A c \in Known : Sorted(c)

\* Lanes drawn of a channel, with max samples asked of a scalar one.
Lanes(c, w, max) ==
  IF Kinds[c] = "state" THEN {StateLane(c, w[1], w[2])} ELSE ScalarLane(c, w[1], w[2], max)

\* A lane that is drawn has no gap and, unless it is of a state not observed
\* yet at t0, no blank at either edge: run ends meet run starts from t0 to t1.
LanesTile ==
  AllSorted => \A c \in Known \ Of("text"), w \in Windows, max \in {2, MaxSamples} :
    \A lane \in Lanes(c, w, max) : lane # <<>> =>
      /\ \A i \in 1 .. Len(lane) - 1 : lane[i].e = lane[i + 1].s
      /\ Last(lane).e >= w[2]
      /\ lane[1].s <= w[1] \/ (Kinds[c] = "state" /\ LastAt(c, w[1]) = Missing)

\* At every instant from the first sample of the window on, a lane shows the
\* value sampled last; before it, a value between the samples on either side.
LanesHold ==
  AllSorted => \A c \in Known \ Of("text"), w \in Windows :
    \A lane \in Lanes(c, w, MaxSamples) : \A t \in w[1] .. w[2] - 1 :
      LET shown == {r.v : r \in {x \in Range(lane) : x.s <= t /\ t < x.e}}
          led   == \E x \in Seen(c, w) : x[1] <= t
      IN IF led \/ Kinds[c] = "state" THEN shown = {LastAt(c, t)} \ {Missing}
         ELSE Seen(c, w) # {} =>
                \A v \in shown : \E x, y \in Range(pushed[c]) : x[2] <= v /\ v <= y[2]

\* A lane of render_logic_lane or render_state_lane shows one value at every instant
\* of the window: the one the samples say.
LanesExact == LanesTile /\ LanesHold

\* What the comment on the fallback of a scalar lane says: with no sample in
\* the window, the lane keeps showing the channel's last known state.
LaneKeepsLastKnown ==
  AllSorted => \A c \in Of("scalar"), w \in Windows :
    \A lane \in Lanes(c, w, MaxSamples) :
      /\ \A i \in 1 .. Len(pushed[c]) - 1 : pushed[c][i][1] < pushed[c][i + 1][1]
      /\ Seen(c, w) = {} /\ LastAt(c, w[1]) # Missing
      =>
        {r.v : r \in Range(lane)} = {LastAt(c, w[1])}

Columns == {cols \in {<<1>>, <<2>>, <<1, 2>>, <<2, 1>>, <<1, 2, 3>>} : Range(cols) \subseteq Known}

\* build_log_rows: one row for each time of the anchor's samples (or run of a
\* state), in order of time; the anchor's cell is never blank; a state cell is
\* the state at that time and any other the last sample of the window up to it.
LogRowsExact ==
  AllSorted => \A cols \in Columns, w \in Windows :
    LET rows == BuildLogRows(cols, w[1], w[2])
        a    == Anchor(cols)
        UpTo(c, t) == IF Seen(c, <<w[1], t + 1>>) = {} THEN Missing ELSE LastAt(c, t)
    IN /\ \A i \in 1 .. Len(rows) - 1 : rows[i].t <= rows[i + 1].t
       /\ {x[1] : x \in Seen(a, w)} \subseteq {r.t : r \in Range(rows)} \/ Kinds[a] = "state"
       /\ \A r \in Range(rows) :
             /\ r.cells[a] # Missing
             /\ \A c \in Range(cols) :
                   r.cells[c] = IF Kinds[c] = "state" THEN LastAt(c, r.t) ELSE UpTo(c, r.t)

\* Filters run over every row of the window before the budget is applied: if
\* the rows that pass all filters fit, each of them is shown, however rare.
FiltersBeforeBudget ==
  AllSorted => \A cols \in Columns, w \in Windows :
    LET all == BuildLogRows(cols, w[1], w[2]) IN
    \A fs \in Filters, max \in RowBudgets :
      LET ok(r) == \A f \in fs : /\ f.col \in Range(cols)
                                 /\ r.cells[f.col] \in f.accept
                                 /\ (f.kind = "text") <=> (Kinds[f.col] = "text")
          want == SelectSeq(all, ok)
          got  == Shown(all, fs, Missing, max)
      IN IF Len(want) <= max THEN got = want
         ELSE /\ Len(got) \in 1 .. max
              /\ Range(got) \subseteq Range(want)

\* truncate_rows with a priority column: never more than the budget, still in
\* order of time, and no row is left out for one of a lower score.
HighestTiersKept ==
  AllSorted => \A cols \in Columns, w \in Windows :
    LET all == BuildLogRows(cols, w[1], w[2]) IN
    \A pri \in Range(cols), max \in RowBudgets :
      LET got == TruncateRows(all, pri, max)
      IN /\ Len(got) <= max
         /\ \A i \in 1 .. Len(got) - 1 : got[i].t <= got[i + 1].t
         /\ \A r \in Range(all) \ Range(got), k \in Range(got) :
               Score(r, pri) <= Score(k, pri)

\* The rows render_log_view draws: what passes the filters, and of that the rows of
\* highest priority, within the budget.
RowsWithinBudget == FiltersBeforeBudget /\ HighestTiersKept
=============================================================================
