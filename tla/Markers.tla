------------------------------ MODULE Markers -------------------------------
(***************************************************************************)
(* Time markers and the links between them (MarkerSet), what the pointer   *)
(* and the keys do to them, and their part of a layout file.  Ids are      *)
(* positive; 0 is None.  A pointer is over one of a few Places of the time *)
(* axis, more than the eight pixels of hit_marker apart, at a Height.      *)
(***************************************************************************)
EXTENDS Integers, Sequences, FiniteSets, FiniteSetsExt, Retain

CONSTANTS Places,      \* times the pointer can be over
          Heights,     \* heights (y_frac) the pointer can be at
          Mid,         \* the height of a new link
          Legacy,      \* layout files of version 4, each a Seq of [t, chain]
          MaxId,       \* bound on marker ids
          MaxLink      \* bound on link ids

ASSUME MarkersAssumption ==
  /\ Mid \in Heights
  /\ MaxId \in Nat /\ MaxLink \in Nat
  /\ \A f \in Legacy : f \in Seq([t : Places, chain : Nat])

VARIABLES markers,     \* Seq of [id, t], in order of creation
          links,       \* Seq of [id, a, b, y]
          selected,    \* id of the selected marker, or None
          nextId, nextLink,
          down,        \* the primary button is held and the pointer has moved
          dragM, dragL,\* dragging_marker and dragging_link, or None
          markerMode

markerVars == <<markers, links, selected, nextId, nextLink, down, dragM, dragL, markerMode>>
pointer == <<down, dragM, dragL>>
set     == <<markers, links, nextId, nextLink>>

None == 0
MarkerIds == {m.id : m \in Range(markers)}

First(s, hits) == IF hits = {} THEN None ELSE s[Min(hits)].id

Time(id) == markers[CHOOSE i \in DOMAIN markers : markers[i].id = id].t

\* hit_marker: the nearest, and of several at one place the first.
Hit(x) == First(markers, {i \in DOMAIN markers : markers[i].t = x})

\* hit_delta_line, over link_pairs: the line lies between its two markers.
HitLine(x, y) ==
  LET on(l) == /\ {l.a, l.b} \subseteq MarkerIds
               /\ l.y = y
               /\ \E p, q \in {Time(l.a), Time(l.b)} : p <= x /\ x <= q
  IN First(links, {i \in DOMAIN links : on(links[i])})

MarkersInit ==
  /\ markers = <<>> /\ links = <<>> /\ selected = None /\ nextId = 1 /\ nextLink = 1
  /\ down = FALSE /\ dragM = None /\ dragL = None /\ markerMode = FALSE

-----------------------------------------------------------------------------
(* The pointer: handle_marker_interaction *)

\* A drag starts on a marker, else on the line of a link, else on the plot.
DragStart(x, y) ==
  /\ ~down
  /\ down' = TRUE
  /\ dragM' = Hit(x)
  /\ dragL' = IF Hit(x) = None THEN HitLine(x, y) ELSE None
  /\ UNCHANGED <<set, selected, markerMode>>

\* Every frame of the drag; the id may be of a marker deleted meanwhile.
DragMove(x, y) ==
  /\ down
  /\ markers' = [i \in DOMAIN markers |->
                   IF markers[i].id = dragM THEN [markers[i] EXCEPT !.t = x] ELSE markers[i]]
  /\ links' = [i \in DOMAIN links |->
                 IF links[i].id = dragL THEN [links[i] EXCEPT !.y = y] ELSE links[i]]
  /\ UNCHANGED <<selected, nextId, nextLink, pointer, markerMode>>

Release ==
  /\ down
  /\ down' = FALSE /\ dragM' = None /\ dragL' = None
  /\ UNCHANGED <<set, selected, markerMode>>

\* MarkerSet::add and select.
Add(x) ==
  /\ nextId <= MaxId
  /\ markers' = Append(markers, [id |-> nextId, t |-> x])
  /\ nextId' = nextId + 1
  /\ selected' = nextId

\* MarkerSet::link
Link(a, b) ==
  /\ nextLink <= MaxLink
  /\ links' = Append(links, [id |-> nextLink, a |-> a, b |-> b, y |-> Mid])
  /\ nextLink' = nextLink + 1

\* Marker mode, on empty space: a free marker, or with shift one linked to the
\* selected or else the last marker, if there is one.
Place(x, shift) ==
  LET anchor == IF selected # None THEN selected
                ELSE IF markers # <<>> THEN markers[Len(markers)].id ELSE None
  IN /\ Add(x)
     /\ IF shift /\ anchor \in MarkerIds THEN Link(anchor, nextId)
        ELSE UNCHANGED <<links, nextLink>>

\* The other clicks: select, deselect, or with shift and a selection link it to
\* the marker hit or to a new one.
PickOrLink(x, shift) ==
  LET hit == Hit(x) IN
  \/ /\ ~shift
     /\ selected' = hit
     /\ UNCHANGED set
  \/ /\ shift /\ selected \in MarkerIds /\ hit = None
     /\ Add(x) /\ Link(selected, nextId)
  \/ /\ shift /\ selected # None /\ hit \notin {None, selected}
     /\ Link(selected, hit)
     /\ UNCHANGED <<selected, markers, nextId>>

Click(x, shift) ==
  /\ ~down
  /\ IF markerMode /\ Hit(x) = None THEN Place(x, shift) ELSE PickOrLink(x, shift)
  /\ UNCHANGED <<pointer, markerMode>>

-----------------------------------------------------------------------------
(* Keys *)

\* remove without its links.
DeleteMarkerOnly ==
  /\ selected # None
  /\ markers' = Keep(markers, {i \in DOMAIN markers : markers[i].id # selected})
  /\ selected' = None
  /\ UNCHANGED <<links, nextId, nextLink, pointer, markerMode>>

\* Delete or Backspace: MarkerSet::remove of the selected marker, even one that
\* is being dragged.
Delete ==
  /\ selected # None
  /\ markers' = Keep(markers, {i \in DOMAIN markers : markers[i].id # selected})
  /\ links' = Keep(links, {i \in DOMAIN links : selected \notin {links[i].a, links[i].b}})
  /\ selected' = None
  /\ UNCHANGED <<nextId, nextLink, pointer, markerMode>>

\* M and the button of the top bar; Escape.
ToggleMarkerMode ==
  /\ markerMode' = ~markerMode
  /\ UNCHANGED <<set, selected, pointer>>

Escape ==
  /\ markerMode' = FALSE
  /\ UNCHANGED <<set, selected, pointer>>

-----------------------------------------------------------------------------
(* Layout files *)

Index(id) == CHOOSE i \in DOMAIN markers : markers[i].id = id

\* Links saved by id, not by place in the list.
CaptureById ==
  [version |-> 6,
   markers |-> [i \in DOMAIN markers |-> [t |-> markers[i].t, chain |-> None]],
   links   |-> [i \in DOMAIN links |-> <<links[i].a, links[i].b, links[i].y>>]]

\* capture: links by the indices of their markers; a dangling one is left out.
Capture ==
  LET whole == Keep(links, {i \in DOMAIN links : {links[i].a, links[i].b} \subseteq MarkerIds}) IN
  [version |-> 6,
   markers |-> [i \in DOMAIN markers |-> [t |-> markers[i].t, chain |-> None]],
   links   |-> [i \in DOMAIN whole |-> <<Index(whole[i].a), Index(whole[i].b), whole[i].y>>]]

\* A marker of a chain and the next one of that chain.
Pairs(ms) ==
  {p \in (1 .. Len(ms)) \X (1 .. Len(ms)) :
     /\ p[1] < p[2] /\ ms[p[1]].chain # None
     /\ {k \in p[1] .. p[2] : ms[k].chain = ms[p[1]].chain} = {p[1], p[2]}}

\* migrate_chains_to_links: each chain in the order of its markers, the chains in
\* the order a hash map happens to have.
Migrated(ms) ==
  LET byChain(q) ==
        \A j, k \in DOMAIN q :
          j < k /\ ms[q[j][1]].chain = ms[q[k][1]].chain =>
            /\ q[j][1] < q[k][1]
            /\ \A i \in j .. k : ms[q[i][1]].chain = ms[q[j][1]].chain
      orders == UNION {Bijection(1 .. n, Pairs(ms)) : n \in 0 .. Len(ms)}
  IN {[k \in DOMAIN q |-> <<q[k][1], q[k][2], Mid>>] : q \in {q \in orders : byChain(q)}}

\* The links a file gives: load migrates version 4, load_layout_file and
\* try_apply_sidecar_layout take them as they are.
LinksOf(f, byName) ==
  IF byName /\ f.version = 4 /\ f.links = <<>> THEN Migrated(f.markers) ELSE {f.links}

\* MarkerSet::restore: fresh ids from 1; a link out of range is left out.
Restored(ms, ls) ==
  LET n     == Len(ms)
      whole == Keep(ls, {i \in DOMAIN ls : {ls[i][1], ls[i][2]} \subseteq 1 .. n})
  IN [markers |-> [i \in 1 .. n |-> [id |-> i, t |-> ms[i].t]],
      links   |-> [i \in DOMAIN whole |-> [id |-> i, a |-> whole[i][1], b |-> whole[i][2], y |-> whole[i][3]]]]

\* A load replaces everything, so loading what was saved in some earlier state is
\* the same as loading it there: the files are the one saved now, and old ones.
Files == {Capture} \cup {[version |-> 4, markers |-> f, links |-> <<>>] : f \in Legacy}

Load(f, byName) ==
  /\ ~down
  /\ \E ls \in LinksOf(f, byName) :
       LET r == Restored(f.markers, ls) IN
       /\ markers' = r.markers /\ links' = r.links
       /\ nextId' = Len(r.markers) + 1 /\ nextLink' = Len(r.links) + 1
  /\ selected' = None
  /\ UNCHANGED <<pointer, markerMode>>

-----------------------------------------------------------------------------
(* Properties *)

\* "removing a marker also removes its links": ids are unique and below the next
\* one, every link joins two different markers that exist, and the selection is
\* of a marker that exists, whatever is deleted, dragged or loaded.
MarkersConsistent ==
  /\ \A i, j \in DOMAIN markers : markers[i].id = markers[j].id => i = j
  /\ \A i, j \in DOMAIN links : links[i].id = links[j].id => i = j
  /\ \A m \in Range(markers) : m.id \in 1 .. nextId - 1
  /\ \A l \in Range(links) :
        l.id \in 1 .. nextLink - 1 /\ l.a # l.b /\ {l.a, l.b} \subseteq MarkerIds
  /\ selected \in MarkerIds \cup {None}

\* Saving and loading changes no marker and no link but their ids: after any
\* deletions each link still joins the same two markers.
LayoutKeepsMarkers ==
  LET r == Restored(Capture.markers, Capture.links) IN
  /\ Len(r.markers) = Len(markers) /\ Len(r.links) = Len(links)
  /\ \A i \in DOMAIN markers : r.markers[i].t = markers[i].t
  /\ \A i \in DOMAIN links :
       /\ r.links[i].y = links[i].y
       /\ markers[r.links[i].a].id = links[i].a /\ markers[r.links[i].b].id = links[i].b
=============================================================================
