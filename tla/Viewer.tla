------------------------------- MODULE Viewer -------------------------------
(***************************************************************************)
(* Markers, camera and session under one pointer and one keyboard.  A frame*)
(* of a drag goes to the markers first (handle_marker_interaction) and then*)
(* to the camera (handle_camera, drag_pan_x), which pans unless the markers*)
(* have taken the primary button.  A layout brings its markers with it; a  *)
(* new source empties the store under the camera.                          *)
(***************************************************************************)
EXTENDS Markers, Camera, Session

vars == <<markerVars, camVars, sessionVars>>

Init == MarkersInit /\ CamInit /\ SessionInit

\* A pan that looks only at marker mode.
PannedAlways(dx, held) ==
  IF mode = "pan" /\ data # <<>> /\ ~markerMode THEN Pan(dx, FALSE, TRUE)
  ELSE UNCHANGED camVars

\* primary_drag_available, after the markers have seen the frame.
Panned(dx, held) ==
  IF mode = "pan" /\ data # <<>> /\ held = None /\ ~markerMode THEN Pan(dx, FALSE, TRUE)
  ELSE UNCHANGED camVars

\* A plot is drawn, and takes a drag or a click, only if there is data.
DragFrame ==
  \E x \in Places, y \in Heights, dx \in Steps :
    /\ data # <<>>
    /\ DragStart(x, y) \/ DragMove(x, y)
    /\ Panned(dx, dragM')
    /\ UNCHANGED sessionVars

MarkerStep ==
  /\ \/ data # <<>> /\ (Release \/ \E x \in Places, shift \in BOOLEAN : Click(x, shift))
     \/ Delete \/ ToggleMarkerMode
  /\ UNCHANGED <<camVars, sessionVars>>

EscapeKey ==
  /\ Escape
  /\ pendingG' = FALSE
  /\ UNCHANGED <<mode, window, free, data, sessionVars>>

CameraStep ==
  /\ \/ \E dx \in Steps : Pan(dx, TRUE, FALSE)
     \/ \E f \in Factors, p \in 0 .. MaxTime : Scroll(f, p)
     \/ \E t \in 0 .. MaxTime : ShiftG(t) \/ (~down /\ Jump(t)) \/ NewData(t)
     \/ Toggle \/ TypeG \/ ExpireG \/ Home
     \/ \E w \in Windows : SetWindow(w)
  /\ UNCHANGED <<markerVars, sessionVars>>

-----------------------------------------------------------------------------
(* The session *)

StoreEmptied == data' = <<>> /\ UNCHANGED <<mode, window, free, pendingG>>

\* load_capture_file: the samples of the file, then the layout beside it.
CaptureOpened ==
  /\ OpenCapture
  /\ data' \in {<<>>, <<0, 0>>, <<0, MaxTime>>}
  /\ UNCHANGED <<mode, window, free, pendingG>>
  /\ \/ ApplySidecar /\ \E f \in Files : Load(f, FALSE)
     \/ NoSidecar /\ UNCHANGED markerVars

BadCapture == OpenBadCapture /\ StoreEmptied /\ UNCHANGED <<layoutVars, markerVars>>

\* A file that cannot be read or decoded leaves everything.
FirstFrame ==
  \/ TakeFile /\ (CaptureOpened \/ BadCapture)
  \/ TakeFile /\ UNCHANGED <<layoutVars, sourceVars, markerVars, camVars>>
  \/ /\ TakeLayout
     /\ \/ LoadGiven /\ \E f \in Files : Load(f, FALSE)
        \/ UNCHANGED <<layoutVars, markerVars>>
     /\ UNCHANGED <<sourceVars, camVars>>

LoadLayout ==
  /\ \E n \in Names, f \in Files : LoadNamed(n) /\ Load(f, TRUE)
  /\ UNCHANGED <<sourceVars, camVars>>

\* Only a TCP connection empties the store.
Reconnect ==
  /\ Connect
  /\ IF pend \in Tcp THEN StoreEmptied ELSE UNCHANGED camVars
  /\ UNCHANGED <<layoutVars, markerVars>>

\* do_clear
Clear ==
  /\ ConfirmClear
  /\ markers' = <<>> /\ links' = <<>> /\ selected' = None /\ nextId' = 1 /\ nextLink' = 1
  /\ mode' = "follow" /\ free' = <<>> /\ data' = <<>>
  /\ UNCHANGED <<pointer, markerMode, window, pendingG, layoutVars>>

SessionStep ==
  \/ LoadLayout \/ CaptureOpened \/ BadCapture \/ Reconnect \/ Clear
  \/ LayoutStep /\ UNCHANGED <<sourceVars, markerVars, camVars>>
  \/ SourceStep /\ UNCHANGED <<layoutVars, markerVars, camVars>>

Next ==
  \/ FirstFrame
  \/ args = {} /\ (DragFrame \/ MarkerStep \/ EscapeKey \/ CameraStep)
  \/ args = {} /\ ~down /\ SessionStep /\ UNCHANGED args

Spec == Init /\ [][Next]_vars

-----------------------------------------------------------------------------
(* Properties *)

\* "Left-drag pans (when not interacting with markers)": a frame that takes hold of
\* a marker or moves it leaves the time axis and the other markers alone.
DragHoldsCamera ==
  [][dragM' # None /\ (~down \/ (markers' # markers /\ Len(markers') = Len(markers))) =>
       /\ UNCHANGED <<mode, free>>
       /\ \A i \in DOMAIN markers : markers[i].id # dragM' => markers'[i] = markers[i]]_vars
=============================================================================
