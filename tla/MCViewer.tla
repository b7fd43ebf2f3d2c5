----------------------------- MODULE MCViewer ------------------------------
(* Small instances of Viewer for TLC. *)
EXTENDS Viewer

\* A file of version 4 with a chain of two markers around one without.
OneChain == {<<[t |-> 0, chain |-> 1], [t |-> 1, chain |-> 0], [t |-> 1, chain |-> 1]>>}

Halve == {<<1, 2>>, <<2, 1>>}
LeftRight == {-1, 1}

Files0 == [a |-> "a.json", A |-> "a.json", b |-> "b.json"]

MarkersAtRest == markers = <<>> /\ nextId = 1 /\ ~markerMode /\ ~down
CameraAtRest  == window = Max(Windows) /\ free \in {<<>>, <<0, 1>>} /\ ~pendingG
LayoutsAtRest == files = [p \in Places0 |-> NoFile] /\ from = NoFile /\ doomed = NoFile /\ ~saveAs
SourceAtRest  == dialog = {} /\ pend = Start /\ conn = Start

\* Each part is explored to the end, but not every state of the one in every state
\* of the others: while one is at work, the others stay near where they began.
OneAtATime ==
  \/ CameraAtRest /\ data = <<0, 0>> /\ LayoutsAtRest /\ SourceAtRest /\ source = Start
  \/ MarkersAtRest /\ LayoutsAtRest /\ SourceAtRest /\ source = Start
  \/ MarkersAtRest /\ CameraAtRest /\ free = <<>> /\ data = <<>> /\ (LayoutsAtRest \/ SourceAtRest)
=============================================================================
