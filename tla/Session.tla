------------------------------ MODULE Session -------------------------------
(***************************************************************************)
(* Where the viewer's layouts and its data come from and where they are    *)
(* saved: the layouts menu and its dialogs, the file given by --layout, the*)
(* layout beside a capture, the connection dialog.  A file is the name it  *)
(* holds; its other contents are Markers' and Plots' business.             *)
(***************************************************************************)
EXTENDS Integers, FiniteSets

CONSTANTS Names,       \* display names of layouts
          Slug,        \* [Names -> Slugs]: the name of its file
          Given,       \* the file given by --layout, or NoFile
          Stem,        \* the name a sidecar gets when no layout is current
          Conns,       \* connections the dialog can describe
          Tcp,         \* those of protocol TCP
          Start,       \* the connection of the command line
          NoFile

ASSUME SessionAssumption ==
  /\ Stem \in Names /\ Start \in Conns /\ Tcp \subseteq Conns
  /\ NoFile \notin Names \cup {Slug[n] : n \in Names} \cup Conns

VARIABLES files,       \* per file: the name in it, or NoFile
          name,        \* current_layout_name, or NoFile
          path,        \* current_layout_path, or NoFile
          from,        \* file the arrangement on screen was last read from or
                       \* written to; not in the code
          saveAs,      \* the Save As dialog is open
          doomed,      \* delete_confirm, or NoFile
          dialog,      \* connection and clear dialogs that are open
          pend, conn,  \* pending_connection and connection
          source,      \* what feeds the store: a connection, "capture", or NoFile
          args         \* of --file and --layout, those still to be taken up

layoutVars == <<files, name, path, from, saveAs, doomed>>
sourceVars == <<dialog, pend, conn, source>>
sessionVars == <<layoutVars, sourceVars, args>>

Slugs  == {Slug[n] : n \in Names}
Side   == "sidecar"
Places0 == Slugs \cup {Side} \cup ({Given} \ {NoFile})

\* layout::list
Listed == {files[s] : s \in Slugs} \ {NoFile}

SessionInit ==
  /\ files \in [Places0 -> Names \cup {NoFile}]
  /\ \A s \in Slugs : files[s] # NoFile => Slug[files[s]] = s
  /\ name = NoFile /\ path = NoFile /\ from = NoFile
  /\ saveAs = FALSE /\ doomed = NoFile
  /\ dialog = {} /\ pend = Start /\ conn = Start
  /\ args \in SUBSET {"file", "layout"} /\ ("layout" \in args => Given # NoFile)
  /\ source \in IF "file" \in args THEN {NoFile} ELSE {Start, NoFile}

-----------------------------------------------------------------------------
(* Layouts *)

\* load_layout_file
LoadGiven ==
  /\ files[Given] # NoFile
  /\ name' = files[Given] /\ path' = Given /\ from' = Given
  /\ UNCHANGED <<files, saveAs, doomed>>

\* The path of an earlier layout is kept.
LoadNamedKeepPath(n) ==
  LET f == files[Slug[n]] IN
  /\ n \in Listed /\ f # NoFile
  /\ name' = f /\ from' = Slug[n]
  /\ UNCHANGED <<files, path, saveAs, doomed>>

\* do_load_layout of a name in the menu; layout::load looks for its slug.
LoadNamed(n) ==
  LET f == files[Slug[n]] IN
  /\ n \in Listed /\ f # NoFile
  /\ name' = f /\ path' = NoFile /\ from' = Slug[n]
  /\ UNCHANGED <<files, saveAs, doomed>>

\* do_save_layout: to the given file if there is one, else under the name's slug;
\* nothing changes if writing fails.
SaveLayout(n) ==
  \/ /\ path # NoFile
     /\ files' = [files EXCEPT ![path] = n]
     /\ from' = path
     /\ UNCHANGED <<name, path>>
  \/ /\ path = NoFile
     /\ files' = [files EXCEPT ![Slug[n]] = n]
     /\ name' = n /\ from' = Slug[n]
     /\ UNCHANGED path
  \/ UNCHANGED <<files, name, path, from>>

MenuSave == name # NoFile /\ SaveLayout(name) /\ UNCHANGED <<saveAs, doomed>>

OpenSaveAs == ~saveAs /\ saveAs' = TRUE /\ UNCHANGED <<files, name, path, from, doomed>>

\* OK or Enter, with the name typed; an empty name saves nothing.
CommitSaveAs(n) == saveAs /\ saveAs' = FALSE /\ SaveLayout(n) /\ UNCHANGED doomed
CancelSaveAs    == saveAs /\ saveAs' = FALSE /\ UNCHANGED <<files, name, path, from, doomed>>

OpenDelete(n) == n \in Listed /\ doomed' = n /\ UNCHANGED <<files, name, path, from, saveAs>>
CancelDelete  == doomed # NoFile /\ doomed' = NoFile /\ UNCHANGED <<files, name, path, from, saveAs>>

\* do_delete_layout: the file of that slug, whatever it holds by now; or it fails.
ConfirmDelete ==
  /\ doomed # NoFile
  /\ doomed' = NoFile
  /\ \/ /\ files' = [files EXCEPT ![Slug[doomed]] = NoFile]
        /\ name' = IF name = doomed THEN NoFile ELSE name
     \/ UNCHANGED <<files, name>>
  /\ UNCHANGED <<path, from, saveAs>>

\* write_sidecar_layout, after a capture was saved.
SaveSidecar ==
  /\ files' = [files EXCEPT ![Side] = IF name = NoFile THEN Stem ELSE name]
  /\ UNCHANGED <<name, path, from, saveAs, doomed>>

\* try_apply_sidecar_layout
ApplySidecar ==
  /\ files[Side] # NoFile
  /\ name' = files[Side] /\ from' = Side
  /\ UNCHANGED <<files, path, saveAs, doomed>>

NoSidecar == files[Side] = NoFile /\ UNCHANGED layoutVars

LayoutStep ==
  \/ MenuSave \/ OpenSaveAs \/ CancelSaveAs \/ CancelDelete \/ ConfirmDelete
  \/ SaveSidecar \/ \E n \in Names : CommitSaveAs(n) \/ OpenDelete(n)

-----------------------------------------------------------------------------
(* Sources *)

OpenConnection ==
  /\ pend' = conn /\ dialog' = dialog \cup {"connection"}
  /\ UNCHANGED <<conn, source>>

EditConnection(c) ==
  /\ "connection" \in dialog
  /\ pend' = c
  /\ UNCHANGED <<dialog, conn, source>>

\* Connect, and reconnect: only TCP is implemented, and it may fail.
Connect ==
  /\ "connection" \in dialog
  /\ conn' = pend
  /\ source' \in IF pend \in Tcp THEN {pend, NoFile} ELSE {source}
  /\ dialog' = dialog \ {"connection"}
  /\ UNCHANGED pend

Dismiss(d) == d \in dialog /\ dialog' = dialog \ {d} /\ UNCHANGED <<pend, conn, source>>

\* load_capture_file: the source is dropped, then the file's channels are made,
\* which may fail before the sidecar is looked at.
OpenCapture == source' = "capture" /\ UNCHANGED <<dialog, pend, conn>>
OpenBadCapture == source' = NoFile /\ UNCHANGED <<dialog, pend, conn>>

ConfirmClear == Dismiss("clear")

AskClear == dialog' = dialog \cup {"clear"} /\ UNCHANGED <<pend, conn, source>>

SourceStep ==
  \/ OpenConnection \/ AskClear
  \/ \E c \in Conns : EditConnection(c)
  \/ \E d \in {"connection", "clear"} : Dismiss(d)

\* The first frame takes up --file and then --layout, before any dialog; a file
\* that cannot be read changes nothing.
TakeFile   == "file" \in args /\ args' = args \ {"file"}
TakeLayout == args = {"layout"} /\ args' = {}

-----------------------------------------------------------------------------
(* Properties *)

\* Every entry of the layouts menu loads the file it was read from; and Save writes
\* to the file the arrangement on screen came from, given or in the menu, unless it
\* came with a capture.
LayoutsReachable ==
  /\ \A s \in Slugs : files[s] # NoFile => Slug[files[s]] = s
  /\ name # NoFile /\ path = NoFile => from \in {Slug[name], Side}
  /\ path # NoFile => from \in {path, Side}

\* "Save back to the external file the layout was loaded from": with a path set, the
\* arrangement is that file's.  Not so after the layout beside a capture is applied.
PathIsSource == path # NoFile => from = path
=============================================================================
