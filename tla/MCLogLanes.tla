----------------------------- MODULE MCLogLanes -----------------------------
(* A small instance of LogLanes for TLC: one channel of each kind. *)
EXTENDS LogLanes

OneOfEach == <<"scalar", "state", "text">>
FourTimes == 0 .. 3
FewVals   == [scalar |-> {0, 2}, state |-> {0, 1}, text |-> {0, 1}]

\* No filter, one on the text, one on the state, both, one of the wrong kind.
SomeFilters ==
  LET text == [col |-> 3, kind |-> "text", accept |-> {1}]
      enum == [col |-> 2, kind |-> "num", accept |-> {1}]
  IN {{}, {text}, {enum}, {text, enum}, {[text EXCEPT !.kind = "num"]}}
=============================================================================
