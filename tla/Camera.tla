------------------------------- MODULE Camera -------------------------------
(***************************************************************************)
(* The time axis all plots share (Camera): follow the newest sample, or    *)
(* stand where the user put the view.  Times are integers in nanoseconds,  *)
(* of which the constants below keep the order and not the size; positions *)
(* computed in f64 are rounded down to them.                               *)
(***************************************************************************)
EXTENDS Integers, FiniteSets, FiniteSetsExt

CONSTANTS MaxTime,             \* bound on the time of a sample
          MinSpan,             \* 1e-6 s, the narrowest a zoom makes the view
          MinHalf,             \* 1 ms, half the narrowest a jump makes it
          MinWindow, MaxWindow,\* 1e6 and 3.6e12 ns
          Windows,             \* values the window field takes
          Steps,               \* distances a frame of a drag pans by
          Factors,             \* <<n, d>>: zoom factors of a scroll
          Reach                \* bound on how far the view is moved

ASSUME CameraAssumption ==
  /\ MaxTime \in Nat /\ MinSpan \in Nat \ {0} /\ MinHalf \in Nat \ {0}
  /\ MinWindow \in Nat \ {0} /\ MaxWindow \in Nat /\ MinWindow <= MaxWindow
  /\ Windows \subseteq MinWindow .. MaxWindow /\ Windows # {}
  /\ Steps \subseteq Int /\ Reach \in Nat
  /\ \A f \in Factors : f \in (Nat \ {0}) \X (Nat \ {0})

VARIABLES mode,        \* "follow" or "pan"
          window,      \* window_ns
          free,        \* free_bounds_s, or <<>>
          data,        \* time bounds of the store, or <<>>
          pendingG     \* one g of gg has been typed

camVars == <<mode, window, free, data, pendingG>>

CamInit ==
  /\ mode = "follow" /\ window = Max(Windows) /\ free = <<>> /\ data = <<>>
  /\ pendingG = FALSE

\* compute_view that keeps the right edge within the data.
ViewClamped ==
  LET e == data[1]  l == data[2]
      left == Max({0, l - window})
      lo == Max({0, free[1]})  hi == Min({l, Max({0, free[2]})})
  IN IF data = <<>> THEN <<>>
     ELSE IF mode = "follow" THEN <<left, Max({l, left + 1})>>
     ELSE IF free # <<>> THEN <<Min({lo, hi}), Max({hi, lo + 1})>>
     ELSE <<e, Max({l, e + 1})>>

\* compute_view
View ==
  LET e == data[1]  l == data[2]
      left == Max({0, l - window})
      lo == Max({0, free[1]})  hi == Max({0, free[2]})
  IN IF data = <<>> THEN <<>>
     ELSE IF mode = "follow" THEN <<left, Max({l, left + 1})>>
     ELSE IF free # <<>> THEN <<Min({lo, hi}), Max({hi, lo + 1})>>
     ELSE <<e, Max({l, e + 1})>>

Base(bounds) == IF free = <<>> THEN bounds ELSE free
Within(b)    == -Reach <= b[1] /\ b[2] <= Reach

\* pan_x
PanBy(dx, cur) ==
  /\ mode' = "pan"
  /\ free' = <<Base(cur)[1] + dx, Base(cur)[2] + dx>>

\* zoom_x: about the pivot, never narrower than MinSpan.
Zoomed(f, pivot, b) ==
  LET lo == pivot + ((b[1] - pivot) * f[1]) \div f[2]
      hi == pivot + ((b[2] - pivot) * f[1]) \div f[2]
      mid == (lo + hi) \div 2
  IN IF hi - lo < MinSpan THEN <<mid - MinSpan \div 2, mid - MinSpan \div 2 + MinSpan>>
     ELSE <<lo, hi>>

ZoomBy(f, pivot, cur) ==
  /\ mode' = "pan"
  /\ free' = Zoomed(f, pivot, Base(cur))

-----------------------------------------------------------------------------
(* The pointer over a plot: handle_camera, drag_pan_x, scroll_zoom_x *)

\* In pan mode, a frame of a drag with the middle button, or with the primary
\* button if nothing else holds it.
Pan(dx, middle, available) ==
  /\ data # <<>>
  /\ mode = "pan" /\ (middle \/ available)
  /\ PanBy(dx, View) /\ Within(free')
  /\ UNCHANGED <<window, data, pendingG>>

\* zoom_window
Clamped(w) == Max({MinWindow, Min({w, MaxWindow})})

Scroll(f, pivot) ==
  /\ data # <<>>
  /\ IF mode = "follow"
     THEN window' = Clamped((window * f[1]) \div f[2]) /\ UNCHANGED <<mode, free>>
     ELSE /\ View[1] <= pivot /\ pivot <= View[2]
          /\ ZoomBy(f, pivot, View) /\ Within(free')
          /\ UNCHANGED window
  /\ UNCHANGED <<data, pendingG>>

\* A double click on a row of a log view: jump_to.
Jump(t) ==
  /\ data # <<>>
  /\ LET b == Base(View)
         half == Max({(b[2] - b[1]) \div 2, MinHalf})
     IN free' = <<t - half, t + half>>
  /\ mode' = "pan"
  /\ UNCHANGED <<window, data, pendingG>>

-----------------------------------------------------------------------------
(* Keys and the top bar: handle_global_keys, top_bar *)

\* F that leaves the bounds behind.
ToggleKeep ==
  /\ mode' = IF mode = "follow" THEN "pan" ELSE "follow"
  /\ UNCHANGED <<free, window, data, pendingG>>

\* F, or the label of the other mode.
Toggle ==
  /\ mode' = IF mode = "follow" THEN "pan" ELSE "follow"
  /\ free' = IF mode = "pan" THEN <<>> ELSE free
  /\ UNCHANGED <<window, data, pendingG>>

\* G: zoom in five times about the middle of the view, or about cursor_t, which
\* is any time the pointer was over in the last CURSOR_IDLE_MS.
ShiftG(cursor) ==
  /\ IF data = <<>> THEN UNCHANGED <<mode, free>>
     ELSE /\ \E pivot \in {cursor, (View[1] + View[2]) \div 2} : ZoomBy(<<1, 5>>, pivot, View)
          /\ Within(free')
  /\ pendingG' = FALSE
  /\ UNCHANGED <<window, data>>

\* g, and view_all on the second; the first expires after 700 ms.
TypeG ==
  /\ pendingG' = ~pendingG
  /\ IF pendingG /\ data # <<>>
     THEN mode' = "pan" /\ free' = <<data[1], Max({data[2], data[1] + 1})>>
     ELSE UNCHANGED <<mode, free>>
  /\ UNCHANGED <<window, data>>

\* The half-typed gg is dropped after 700 ms, or by Escape.
ExpireG == pendingG /\ pendingG' = FALSE /\ UNCHANGED <<mode, window, free, data>>

\* Home, or its button: reset.
Home == mode' = "follow" /\ free' = <<>> /\ UNCHANGED <<window, data, pendingG>>

SetWindow(w) ==
  /\ mode = "follow" /\ window' = w
  /\ UNCHANGED <<mode, free, data, pendingG>>

-----------------------------------------------------------------------------
(* The store, between two frames *)

NewData(t) ==
  /\ data' = IF data = <<>> THEN <<t, t>> ELSE <<Min({data[1], t}), Max({data[2], t})>>
  /\ data' # data
  /\ UNCHANGED <<mode, window, free, pendingG>>

-----------------------------------------------------------------------------
(* Properties *)

\* There is always something to draw: bounds left by any sequence of pans, zooms
\* and jumps are a proper interval, the view of them is not empty, and in follow
\* mode no earlier bounds are left behind to be returned to by surprise.
ViewWellFormed ==
  /\ free # <<>> => free[1] < free[2]
  /\ mode = "follow" => free = <<>>
  /\ window \in MinWindow .. MaxWindow
  /\ data # <<>> => View[1] < View[2] /\ View[1] >= 0

\* The view stands still when data arrives, once the user has moved it; in follow
\* mode its right edge is the newest sample.
ViewStands ==
  [][/\ data # <<>> /\ data' # data /\ free # <<>> => View' = View \/ data' = <<>>
     /\ mode' = "follow" /\ data' # <<>> /\ data'[2] > 0 => View'[2] = data'[2]]_camVars
=============================================================================
