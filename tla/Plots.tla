------------------------------- MODULE Plots --------------------------------
(***************************************************************************)
(* The plots of the viewer (PlotRegistry), the tabs of the dock that show  *)
(* them, what is dragged onto them from the channel tree and chosen in     *)
(* their menus, and their part of a layout file (layout::capture, apply).  *)
(*                                                                         *)
(* A plot names channels by their index in the store's table; a layout     *)
(* names them by path.  Paths are numbers in the order of their names, all *)
(* of one group.  Titles, drawing, the order of a log view's columns, its  *)
(* priority and its row limit are left out, and a dock is one list of tabs.*)
(***************************************************************************)
EXTENDS Integers, Sequences, FiniteSets, SequencesExt, FiniteSetsExt, TLC

CONSTANTS Tables,      \* channel tables a source may bring: Seqs of
                       \* [path, kind, bits], the empty one among them
          Styles,      \* line styles; Plain is the default
          Plain,
          Radices,     \* bases of a numeric lane; Hex is the default
          Hex,
          Queries,     \* sets of paths a search leaves visible
          Legacy,      \* layouts of versions 1 and 2
          MaxPlots,    \* bound on plot ids
          MaxBusy      \* bound on what is on the plots and in the tree at a time

Mixed == <<[path |-> 0, kind |-> "none", bits |-> <<>>]>>
Kinds == {"float", "int", "state", "text"}

ASSUME PlotsAssumption ==
  /\ <<>> \in Tables
  /\ \A T \in Tables : \A i \in DOMAIN T :
       /\ T[i].kind \in Kinds /\ T[i].path \in Nat
       /\ T[i].bits \in Seq(DOMAIN T)
       /\ \A j \in DOMAIN T : T[i].path = T[j].path => i = j
  /\ Plain \in Styles /\ Hex \in Radices

VARIABLES chans,       \* the store's table
          made,        \* the table the ids in plots are of, or Mixed if they are
                       \* of several; not in the code
          plots,       \* PlotRegistry: plot ids to panels
          nextPlot,
          dock,        \* Seq of plot ids
          xyFirst,     \* XYDragAccumulator
          sel, anchor  \* tree_selection and tree_anchor

vars == <<chans, made, plots, nextPlot, dock, xyFirst, sel, anchor>>
tree == <<sel, anchor>>
source == <<chans, made>>

Scalar(T, c) == T[c].kind \in {"float", "int"}
Logic(T, c)  == T[c].kind \in {"int", "state"}          \* accepts_logic
Find(T, p)   == IF \E c \in DOMAIN T : T[c].path = p
                THEN CHOOSE c \in DOMAIN T : T[c].path = p ELSE 0

-----------------------------------------------------------------------------
(* Panels *)

EmptyScalar == [kind |-> "scalar", chs |-> <<>>, style |-> <<>>]
EmptyLogic  == [kind |-> "logic", lanes |-> <<>>]
LogView(grouped, cols, shown) ==
  [kind |-> "log", grouped |-> grouped, columns |-> cols, visible |-> shown,
   filters |-> {}, by |-> 0]

Put(f, c, v)  == [d \in DOMAIN f \cup {c} |-> IF d = c THEN v ELSE f[d]]
Without(f, c) == [d \in DOMAIN f \ {c} |-> f[d]]

\* ScalarPanel::add that takes a channel twice.
AddScalarTwice(T, p, c) ==
  IF ~Scalar(T, c) THEN p
  ELSE [p EXCEPT !.chs = Append(@, c),
                 !.style = IF p.chs # <<>> /\ p.chs[1] \in DOMAIN @ THEN Put(@, c, @[p.chs[1]]) ELSE @]

\* ScalarPanel::add: the style of the first channel is inherited.
AddScalar(T, p, c) ==
  IF ~Scalar(T, c) \/ c \in Range(p.chs) THEN p
  ELSE [p EXCEPT !.chs = Append(@, c),
                 !.style = IF p.chs # <<>> /\ p.chs[1] \in DOMAIN @ THEN Put(@, c, @[p.chs[1]]) ELSE @]

RemoveScalar(p, c) ==
  [p EXCEPT !.chs = SelectSeq(@, LAMBDA d : d # c), !.style = Without(@, c)]

\* LogicAnalyserPanel::add, with default_lane_mode.
AddLane(T, p, c) ==
  IF ~Logic(T, c) \/ \E l \in Range(p.lanes) : l.ch = c THEN p
  ELSE [p EXCEPT !.lanes = Append(@, [ch |-> c, radix |-> Hex,
          mode |-> IF T[c].kind = "state" THEN "named" ELSE "numeric"])]

RemoveLane(p, c) == [p EXCEPT !.lanes = SelectSeq(@, LAMBDA l : l.ch # c)]

\* add_logic_lane: the word of a bitfield stands for its bits.
AddLogicLane(T, p, c) ==
  IF T[c].bits = <<>> THEN AddLane(T, p, c)
  ELSE FoldLeft(LAMBDA q, b : AddLane(T, q, b), p, T[c].bits)

\* The channels a panel draws, and PlotKind::accepts.
Shown(p) == CASE p.kind = "scalar" -> Range(p.chs)
              [] p.kind = "logic"  -> {l.ch : l \in Range(p.lanes)}
              [] p.kind = "log"    -> Range(p.visible)
              [] p.kind = "xy"     -> {p.x, p.y}

Accepts(T, p, c) == CASE p.kind = "logic" -> Logic(T, c)
                      [] p.kind = "log"   -> FALSE
                      [] OTHER            -> Scalar(T, c)

-----------------------------------------------------------------------------
(* Registry and dock *)

\* make_default_dock, in a registry whose next id is n.
DefaultFrom(n) ==
  /\ plots' = (n :> EmptyScalar) @@ (n + 1 :> EmptyLogic)
  /\ dock' = <<n, n + 1>>
  /\ nextPlot' = n + 2

\* push_to_focused_leaf, wherever the focus is.
Insert(panel) ==
  /\ nextPlot <= MaxPlots
  /\ plots' = Put(plots, nextPlot, panel)
  /\ \E i \in 1 .. Len(dock) + 1 : dock' = InsertAt(dock, i, nextPlot)
  /\ nextPlot' = nextPlot + 1

Update(p, panel) == plots' = [plots EXCEPT ![p] = panel] /\ UNCHANGED <<nextPlot, dock>>

Init ==
  /\ chans \in Tables /\ made = chans
  /\ plots = (0 :> EmptyScalar) @@ (1 :> EmptyLogic) /\ dock = <<0, 1>> /\ nextPlot = 2
  /\ xyFirst = 0 /\ sel = {} /\ anchor = 0

\* The buttons of the top bar.
AddPlot ==
  /\ \E panel \in {EmptyScalar, EmptyLogic, LogView(FALSE, {}, <<>>)} : Insert(panel)
  /\ UNCHANGED <<source, xyFirst, tree>>

\* A closed tab takes its plot with it, and the last one brings the default dock.
Close(p) ==
  /\ p \in Range(dock)
  /\ IF DOMAIN plots = {p} THEN nextPlot <= MaxPlots /\ DefaultFrom(nextPlot)
     ELSE /\ plots' = Without(plots, p)
          /\ dock' = SelectSeq(dock, LAMBDA q : q # p)
          /\ UNCHANGED nextPlot
  /\ UNCHANGED <<source, xyFirst, tree>>

-----------------------------------------------------------------------------
(* The channel tree *)

\* The rows of the tree, in order of path, and those of them that a search leaves.
AllRows == [T \in Tables |-> SetToSortSeq(DOMAIN T, LAMBDA c, d : T[c].path < T[d].path)]
Rows(query) == SelectSeq(AllRows[chans], LAMBDA c : chans[c].path \in query)

\* What tree_panel keeps, every frame, of a selection made in another table.
Alive(T) == /\ sel' = sel \cap DOMAIN T
            /\ anchor' = IF anchor \in DOMAIN T THEN anchor ELSE 0

\* update_selection
Select(c, ctrl, shift, query) ==
  LET rows == Rows(query)
      a == IF anchor = 0 THEN c ELSE anchor
      at(d) == CHOOSE i \in DOMAIN rows : rows[i] = d
      range == {rows[k] : k \in at(a) .. at(c) \cup at(c) .. at(a)}
  IN /\ c \in Range(rows)
     /\ \/ /\ shift /\ a \in Range(rows)
           /\ sel' = range /\ anchor' = a
        \/ /\ ~(shift /\ a \in Range(rows)) /\ ctrl
           /\ sel' = (sel \ {c}) \cup ({c} \ sel) /\ anchor' = c
        \/ /\ ~(shift /\ a \in Range(rows)) /\ ~ctrl
           /\ sel' = {c} /\ anchor' = c
     /\ UNCHANGED <<source, plots, nextPlot, dock, xyFirst>>

-----------------------------------------------------------------------------
(* Drops *)

\* A text channel opens a log view of its group, of that one column.
DropText(c) == Insert(LogView(TRUE, DOMAIN chans, <<c>>))

\* One channel on plot p.
DropOne(p, c) ==
  /\ IF Accepts(chans, plots[p], c) /\ plots[p].kind = "scalar"
     THEN Update(p, AddScalar(chans, plots[p], c))
     ELSE IF Accepts(chans, plots[p], c) /\ plots[p].kind = "logic"
     THEN Update(p, AddLogicLane(chans, plots[p], c))
     ELSE chans[c].kind = "text" /\ DropText(c)
  /\ UNCHANGED xyFirst

\* The selection, in the order of the rows; what the panel does not take is left.
DropMany(p, cs) ==
  /\ \/ /\ plots[p].kind = "scalar"
        /\ Update(p, FoldLeft(LAMBDA q, c : AddScalar(chans, q, c), plots[p], cs))
     \/ /\ plots[p].kind = "logic"
        /\ Update(p, FoldLeft(LAMBDA q, c : AddLogicLane(chans, q, c), plots[p], cs))
  /\ UNCHANGED xyFirst

\* XYDragAccumulator::feed: the second of two channels makes the plot.
DropSeed(c) ==
  IF xyFirst \in {0, c} THEN xyFirst' = c /\ UNCHANGED <<plots, nextPlot, dock>>
  ELSE xyFirst' = 0 /\ Insert([kind |-> "xy", x |-> xyFirst, y |-> c])

\* Escape: XYDragAccumulator::cancel.
CancelSeed == xyFirst # 0 /\ xyFirst' = 0 /\ UNCHANGED <<source, plots, nextPlot, dock, tree>>

\* A row of the tree dropped on a plot, in one step from press to release; what is
\* dragged depends on shift and on the part of the selection that a search leaves.
Drop(p, c, shift) ==
  /\ IF shift /\ Scalar(chans, c) /\ Cardinality(sel) <= 1 THEN DropSeed(c)
     ELSE IF c \in sel /\ Cardinality(sel) > 1
     THEN \E query \in Queries :
            /\ c \in Range(Rows(query))
            /\ DropMany(p, SelectSeq(Rows(query), LAMBDA d : d \in sel))
     ELSE DropOne(p, c)
  /\ UNCHANGED <<source, tree>>

\* A group, on a plot or on the dock or by its menu: log_view_from_group.
DropGroup ==
  /\ chans # <<>>
  /\ Insert(LogView(TRUE, DOMAIN chans, AllRows[chans]))
  /\ UNCHANGED <<source, xyFirst, tree>>

-----------------------------------------------------------------------------
(* Menus, of the signals a panel draws *)

Drawn(p, c) ==
  /\ c \in Shown(plots[p]) \cap DOMAIN chans
  /\ \/ plots[p].kind = "scalar" /\ Scalar(chans, c)
     \/ /\ plots[p].kind = "logic"
        /\ \E l \in Range(plots[p].lanes) :
             /\ l.ch = c
             /\ IF l.mode = "named" THEN chans[c].kind = "state" ELSE chans[c].kind # "text"

\* move_targets
Target(p, q, c) == p # q /\ Accepts(chans, plots[q], c)

\* try_move_channel: what an XY plot accepts it does not take.
Move(p, q, c) ==
  LET gone == IF plots[p].kind = "scalar" THEN RemoveScalar(plots[p], c) ELSE RemoveLane(plots[p], c)
      lane == CHOOSE l \in Range(plots[p].lanes) : l.ch = c
      keep == plots[p].kind = "logic" /\ lane.mode = "numeric"
      come == IF plots[q].kind = "scalar" THEN AddScalar(chans, plots[q], c)
              ELSE IF plots[q].kind = "xy" THEN plots[q]
              ELSE LET r == AddLane(chans, plots[q], c)
                   IN [r EXCEPT !.lanes = [i \in DOMAIN @ |->
                         IF keep /\ @[i].ch = c THEN [@[i] EXCEPT !.radix = lane.radix] ELSE @[i]]]
  IN /\ Drawn(p, c) /\ Target(p, q, c)
     /\ plots' = [plots EXCEPT ![p] = gone, ![q] = come]
     /\ UNCHANGED <<nextPlot, dock>>

TakeOff(p, c) ==
  /\ Drawn(p, c)
  /\ \/ plots[p].kind = "scalar" /\ Update(p, RemoveScalar(plots[p], c))
     \/ plots[p].kind = "logic" /\ Update(p, RemoveLane(plots[p], c))

\* signal_style_menu; to open it is to set the default.
Restyle(p, c, s) ==
  /\ plots[p].kind = "scalar" /\ Drawn(p, c)
  /\ Update(p, [plots[p] EXCEPT !.style = Put(@, c, s)])

\* The menus of a lane: "Named" needs labels, only a numeric lane has a radix.
Relane(p, c, mode, radix) ==
  LET i == CHOOSE n \in DOMAIN plots[p].lanes : plots[p].lanes[n].ch = c
      l == plots[p].lanes[i]
  IN /\ plots[p].kind = "logic" /\ Drawn(p, c)
     /\ mode = "named" => chans[c].kind = "state"
     /\ radix # l.radix => l.mode = "numeric" /\ mode = "numeric"
     /\ Update(p, [plots[p] EXCEPT !.lanes[i].mode = mode, !.lanes[i].radix = radix])

\* The menus of a log view, over the columns that resolve: shown or hidden,
\* filtered by the header of a column shown, and coloured by one or none.
ShowColumn(p, c) ==
  /\ plots[p].kind = "log" /\ c \in plots[p].columns \cap DOMAIN chans
  /\ LET shown == plots[p].visible IN
     Update(p, [plots[p] EXCEPT !.visible =
                  IF c \in Range(shown) THEN SelectSeq(@, LAMBDA d : d # c) ELSE Append(@, c)])

\* render_column_filter_editor sets a filter, or removes one that accepts all.
Filter(p, c) ==
  /\ plots[p].kind = "log" /\ c \in Range(plots[p].visible) \cap DOMAIN chans
  /\ Update(p, [plots[p] EXCEPT !.filters = (@ \ {c}) \cup ({c} \ @)])

ColourBy(p, c) ==
  /\ plots[p].kind = "log" /\ c \in (plots[p].columns \cap DOMAIN chans) \cup {0}
  /\ Update(p, [plots[p] EXCEPT !.by = c])

Menu ==
  /\ \E p \in DOMAIN plots, c \in DOMAIN chans \cup {0} :
       \/ \E q \in DOMAIN plots : Move(p, q, c)
       \/ TakeOff(p, c) \/ ShowColumn(p, c) \/ Filter(p, c) \/ ColourBy(p, c)
       \/ \E s \in Styles : Restyle(p, c, s)
       \/ \E m \in {"named", "numeric"}, r \in Radices : Relane(p, c, m, r)
  /\ UNCHANGED <<source, xyFirst, tree>>

-----------------------------------------------------------------------------
(* Layout files *)

PathOf(c)  == IF c \in DOMAIN chans THEN chans[c].path ELSE 0
Resolve(s) == SelectSeq(s, LAMBDA c : c \in DOMAIN chans)
Map(F(_), s) == <<>> \o [i \in DOMAIN s |-> F(s[i])]
Paths(s)   == Map(PathOf, Resolve(s))

\* spec_from_kind: what the table does not have is left out, and is 0 in an XY plot.
SpecOf(p) ==
  CASE p.kind = "scalar" ->
         [kind |-> "scalar", chs |-> Paths(p.chs),
          style |-> [q \in {PathOf(c) : c \in DOMAIN p.style \cap DOMAIN chans} |-> p.style[Find(chans, q)]]]
    [] p.kind = "logic" ->
         [kind |-> "logic", lanes |-> Map(LAMBDA l : [l EXCEPT !.ch = PathOf(@)],
                                          SelectSeq(p.lanes, LAMBDA l : l.ch \in DOMAIN chans))]
    [] p.kind = "log" ->
         [kind |-> "log", grouped |-> p.grouped, visible |-> Paths(p.visible),
          filters |-> {PathOf(c) : c \in p.filters \cap DOMAIN chans}, by |-> PathOf(p.by)]
    [] p.kind = "xy" -> [kind |-> "xy", x |-> PathOf(p.x), y |-> PathOf(p.y)]

\* capture: the tabs in order, then plots without a tab; a tab is saved as its
\* place in that order, of which the plots saved leave out any that are gone.
Capture ==
  LET order == dock \o SetToSeq(DOMAIN plots \ Range(dock))
      there == SelectSeq(order, LAMBDA p : p \in DOMAIN plots)
  IN [plots |-> Map(LAMBDA p : SpecOf(plots[p]), there),
      dock  |-> SelectSeq([i \in DOMAIN dock |-> i], LAMBDA i : dock[i] \in DOMAIN plots)]

Known(T, ps) == SelectSeq(Map(LAMBDA q : Find(T, q), ps), LAMBDA c : c # 0)
\* Styles set before the channels are added, which then inherit the first.
AllScalarStyledFirst(T, ps, style) ==
  FoldLeft(LAMBDA q, c : AddScalar(T, q, c),
           [EmptyScalar EXCEPT !.style = [c \in {d \in DOMAIN T : T[d].path \in DOMAIN style} |-> style[T[c].path]]],
           Known(T, ps))

AllScalar(T, ps, style) ==
  [FoldLeft(LAMBDA q, c : AddScalar(T, q, c), EmptyScalar, Known(T, ps))
     EXCEPT !.style = [c \in {d \in DOMAIN T : T[d].path \in DOMAIN style} |-> style[T[c].path]]]
AllNamed(T, ps) ==
  FoldLeft(LAMBDA q, c : IF T[c].kind = "state" THEN AddLane(T, q, c) ELSE q, EmptyLogic, Known(T, ps))

\* A lane of a file for any channel there is.
RestoreLaneAnyKind(T, p, l) ==
  LET c == Find(T, l.ch)
  IN IF c = 0 \/ \E k \in Range(p.lanes) : k.ch = c THEN p
     ELSE [p EXCEPT !.lanes = Append(@, [l EXCEPT !.ch = c])]

\* A lane of a file, with its mode and radix if the channel can have them.
RestoreLane(T, p, l) ==
  LET c == Find(T, l.ch)
      q == AddLane(T, p, c)
      n == Len(q.lanes)
  IN IF c = 0 \/ q = p THEN p
     ELSE [q EXCEPT !.lanes[n].radix = l.radix,
                    !.lanes[n].mode = IF l.mode = "named" /\ T[c].kind # "state" THEN @ ELSE l.mode]

\* A log view has the columns of its group that there are now; no column named in
\* the file means all of them.
LogOf(T, s) ==
  LET cols == IF s.grouped THEN [i \in DOMAIN T |-> i] ELSE <<>>
      has(c) == c # 0 /\ c \in Range(cols)
  IN [kind |-> "log", grouped |-> s.grouped, columns |-> Range(cols),
      visible |-> IF s.visible = <<>> THEN cols ELSE SelectSeq(Known(T, s.visible), has),
      filters |-> {c \in {Find(T, q) : q \in s.filters} : has(c)},
      by |-> IF has(Find(T, s.by)) THEN Find(T, s.by) ELSE 0]

\* An XY plot without two scalars is dropped.
XyOf(T, s) ==
  LET x == Find(T, s.x)  y == Find(T, s.y)
  IN IF x # 0 /\ y # 0 /\ Scalar(T, x) /\ Scalar(T, y) THEN <<[kind |-> "xy", x |-> x, y |-> y]>> ELSE <<>>

\* A chart of version 1: a scalar plot, and a second panel if it had states.
TimeSeriesOf(T, s) ==
  LET states == AllNamed(T, s.states)
  IN <<AllScalar(T, s.scalars, <<>>)>> \o (IF states.lanes = <<>> THEN <<>> ELSE <<states>>)

\* apply, of one spec: no panel, one or two.
PanelsOf(T, s) ==
  CASE s.kind = "scalar"     -> <<AllScalar(T, s.chs, s.style)>>
    [] s.kind = "logic"      -> <<FoldLeft(LAMBDA q, l : RestoreLane(T, q, l), EmptyLogic, s.lanes)>>
    [] s.kind = "log"        -> <<LogOf(T, s)>>
    [] s.kind = "xy"         -> XyOf(T, s)
    [] s.kind = "timeseries" -> TimeSeriesOf(T, s)
    [] s.kind = "statechart" -> <<AllNamed(T, s.lanes)>>

\* apply and build_dock: plots are numbered in the order of the file; tabs of plots
\* that are gone are dropped, a dock without tabs gets all plots, and the second
\* panel of a v1 chart comes last (insert_next_to).
Apply(T, f) ==
  LET built == Map(LAMBDA s : PanelsOf(T, s), f.plots)
      all   == FlattenSeq(built)
      first(i) == Len(FlattenSeq(SubSeq(built, 1, i - 1)))
      tab(i)   == IF built[i] = <<>> THEN <<>> ELSE <<first(i)>>
      extra(i) == IF Len(built[i]) < 2 THEN <<>> ELSE <<first(i) + 1>>
      each  == [i \in DOMAIN built |-> i]
      saved == FlattenSeq(Map(tab, f.dock))
  IN [plots |-> [p \in 0 .. Len(all) - 1 |-> all[p + 1]],
      dock  |-> (IF saved = <<>> THEN FlattenSeq(Map(tab, each)) ELSE saved)
                  \o FlattenSeq(Map(extra, each))]

\* A load; without any plot left, the frame ends with the default dock.
Replace(T, f) ==
  LET r == Apply(T, f) IN
  /\ IF DOMAIN r.plots = {} THEN DefaultFrom(0)
     ELSE plots' = r.plots /\ dock' = r.dock /\ nextPlot' = Cardinality(DOMAIN r.plots)
  /\ made' = T

\* Loading replaces everything, so a file saved earlier may as well be saved now.
Load ==
  /\ \E f \in {Capture} \cup Legacy : Replace(chans, f)
  /\ UNCHANGED <<chans, xyFirst, tree>>

\* Saved here, and loaded by a viewer started on another source.
Restart(T) ==
  /\ T # chans /\ Replace(T, Capture)
  /\ chans' = T /\ xyFirst' = 0 /\ sel' = {} /\ anchor' = 0

\* A reconnect, a capture or a cleared store changes the table under the plots.
NewTable(T) ==
  /\ T # chans /\ chans' = T
  /\ made' = IF T = <<>> THEN made ELSE IF made \in {<<>>, T} THEN T ELSE Mixed
  /\ Alive(T)
  /\ UNCHANGED <<plots, nextPlot, dock, xyFirst>>

\* The bound: a log view counts three; the first signal of a plot, an XY plot and half
\* of one two; any other signal, a plot with styles or radices, a filter, a colour, a plot
\* added, a third plot, a table the plots are not of and a selection to drag one, and
\* these two together another.
One(b)    == IF b THEN 1 ELSE 0
Weight(v) ==
  CASE v.kind = "log" -> 3 + Cardinality(v.filters) + One(v.by # 0)
    [] v.kind = "xy"  -> 2
    [] OTHER          -> Cardinality(Shown(v)) + One(Shown(v) # {})
                           + One(v.kind = "scalar" /\ v.style # <<>>)
                           + One(v.kind = "logic" /\ \E l \in Range(v.lanes) : l.radix # Hex)
Busy == MapThenSumSet(LAMBDA p : Weight(plots[p]), DOMAIN plots)
          + One(nextPlot > 2) + One(Len(dock) > 2) + 2 * One(xyFirst # 0) + One(chans # made) * (1 + One(sel # {}))
          + One(anchor # 0 \/ sel # {}) + 3 * One(Cardinality(sel) < 2 /\ anchor # 0)

Step ==
  \/ AddPlot \/ DropGroup \/ CancelSeed \/ Menu \/ Load
  \/ \E p \in DOMAIN plots : Close(p)
  \/ /\ ~(Busy = MaxBusy /\ anchor = 0 /\ sel = {})
     /\ \E c \in DOMAIN chans, a, b \in BOOLEAN, q \in Queries : Select(c, a, b, q)
  \/ \E p \in DOMAIN plots, c \in DOMAIN chans, a \in BOOLEAN : Drop(p, c, a)
  \/ \E T \in Tables : Restart(T) \/ NewTable(T)

Next == Step /\ Busy' <= MaxBusy

Spec == Init /\ [][Next]_vars

-----------------------------------------------------------------------------
(* Properties *)

\* Every tab has a plot and every plot a tab, of which there is always one; no
\* panel draws a channel twice, no log view shows or filters what is no column of
\* it; and while the table is the one they were dragged from, a scalar plot has
\* scalars, a lane has a channel that can be a lane, and a named one labels.
PlotsConsistent ==
  /\ IsInjective(dock) /\ Range(dock) = DOMAIN plots /\ dock # <<>>
  /\ \A p \in Range(dock) : p < nextPlot
  /\ \A p \in DOMAIN plots :
       LET v == plots[p] IN
       /\ v.kind = "scalar" => IsInjective(v.chs)
       /\ v.kind = "logic"  => IsInjective(Map(LAMBDA l : l.ch, v.lanes))
       /\ v.kind = "log"    => /\ IsInjective(v.visible)
                               /\ Range(v.visible) \cup v.filters \cup ({v.by} \ {0}) \subseteq v.columns
       /\ chans = made => CASE v.kind = "scalar" -> \A c \in Range(v.chs) : Scalar(chans, c)
                            [] v.kind = "logic" -> \A l \in Range(v.lanes) :
                                 Logic(chans, l.ch) /\ (l.mode = "named" => chans[l.ch].kind = "state")
                            [] OTHER -> TRUE

\* What comes back of a panel: an XY plot needs two scalars, a log view with every
\* column hidden comes back with every column shown, and one that was loaded before
\* there were channels with all of them.
Survives(v) == v.kind = "xy" => \A c \in {v.x, v.y} : c \in DOMAIN chans /\ Scalar(chans, c)
Same(v, w)  == IF v.kind = "log" /\ w.kind = "log"
               THEN /\ w.columns = IF v.grouped THEN DOMAIN chans ELSE v.columns
                    /\ v.columns \in {w.columns, {}}
                    /\ w.filters = v.filters /\ w.by = v.by
                    /\ w.visible = v.visible \/ v.visible = <<>>
               ELSE w = v

\* A layout saved and loaded brings back the same plots, in the order of their
\* tabs, with every signal, style, lane, column and filter.
LayoutKeepsPlots ==
  made = chans =>
    LET r == Apply(chans, Capture)
        kept == SelectSeq(dock, LAMBDA p : Survives(plots[p]))
    IN /\ Len(r.dock) = Len(kept) /\ DOMAIN r.plots = Range(r.dock)
       /\ \A i \in DOMAIN kept : Same(plots[kept[i]], r.plots[r.dock[i]])

\* Loaded on any other table, even one saved under stale ids, each plot shows the
\* signals the file names for it and no others: all that exist and may be there.
LayoutFollowsNames ==
  LET f == Capture IN
  \A T \in Tables :
    LET r == Apply(T, f)
        named(s) == CASE s.kind = "scalar" -> Range(s.chs)
                      [] s.kind = "logic"  -> {l.ch : l \in Range(s.lanes)}
                      [] s.kind = "xy"     -> {s.x, s.y}
                      [] s.kind = "log"    -> Range(s.visible)
        fits(s, c) == CASE s.kind = "logic" -> Logic(T, c) [] s.kind = "log" -> TRUE [] OTHER -> Scalar(T, c)
        wanted(s) == {c \in DOMAIN T : T[c].path \in named(s) /\ fits(s, c)}
        rest == SelectSeq(f.plots, LAMBDA s : s.kind = "xy" => Cardinality(wanted(s)) = Cardinality(named(s)))
    IN /\ Len(rest) = Cardinality(DOMAIN r.plots)
       /\ \A i \in DOMAIN rest :
            (rest[i].kind = "log" /\ rest[i].visible = <<>>) \/ Shown(r.plots[i - 1]) = wanted(rest[i])
=============================================================================
