------------------------------- MODULE Ingest -------------------------------
(***************************************************************************)
(* The viewer's live path: the ingest thread of btelem-ingest/tcp.rs       *)
(* (connect, read the schema, register channels, read packets, reconnect), *)
(* the store of btelem-store/mock.rs it fills, the capture ring of         *)
(* btelem-capture/lib.rs it tees packets into, and the user-interface      *)
(* thread of app.rs that clears, reconnects, saves and opens files.        *)
(*                                                                         *)
(* A schema is the sequence of its channels' paths.  Each packet carries   *)
(* one sample for every channel, and a sample is known by the path it      *)
(* belongs to; of the samples of a channel only the paths are kept.  Every *)
(* lock of the code is held for one step.                                  *)
(***************************************************************************)
EXTENDS Naturals, Sequences

CONSTANTS Schemas,     \* schemas the target may announce
          Sizes,       \* sizes of packets
          CapBytes,    \* cap_bytes of the capture ring
          Uses,        \* what the user does: "clear", "reconnect", "save", "open", "plot"
          MaxBoots,    \* bound on the boots of the target
          MaxPackets,  \* bound on packets_total
          None

\* The paths of the channels.
Paths == UNION {{s[i] : i \in DOMAIN s} : s \in Schemas}

ASSUME IngestAssumption ==
  /\ Schemas \subseteq Seq(Paths) /\ None \notin Schemas
  /\ CapBytes \in Nat /\ Sizes \subseteq Nat \ {0}
  /\ MaxBoots \in Nat /\ MaxPackets \in Nat
  /\ Uses \subseteq {"clear", "reconnect", "save", "open", "plot"}

VARIABLES
  target,  \* the target: up, its schema, boots so far; link: our connection stands
  ing,     \* ingest: where it is, its schema, map and packet; mid: a read has
           \* got some but not all of its bytes; sync: it runs in the caller of
           \* TcpSource::connect
  stop,    \* the flag that dropping the SourceHandle sets
  store,   \* MockStore: per channel its path and the paths of its samples
  cap,     \* Capture
  ui,      \* where the user-interface thread is
  file,    \* the last .btlm saved
  plot     \* a channel on a plot: the id it is drawn from, the path it was added as

vars == <<target, ing, stop, store, cap, ui, file, plot>>

Packets == [schema : Schemas, size : Sizes]

\* The bytes of a sequence of packets.
Bytes(q) ==
  LET sum[i \in 0 .. Len(q)] == IF i = 0 THEN 0 ELSE sum[i - 1] + q[i].size
  IN sum[Len(q)]

EmptyCap == [schema |-> None, packets |-> <<>>, bytes |-> 0, total |-> 0, dropped |-> 0]

\* ViewerApp::new connects before anything else happens.
Init ==
  /\ \E s \in Schemas : target = [up |-> TRUE, schema |-> s, boots |-> 0, link |-> FALSE]
  /\ ing = [pc |-> "dial", sync |-> TRUE, mid |-> FALSE, schema |-> <<>>,
            map |-> <<>>, pkt |-> None]
  /\ stop = FALSE
  /\ store = <<>>
  /\ cap = EmptyCap
  /\ ui = "idle"
  /\ file = None
  /\ plot = None

-----------------------------------------------------------------------------
(* The target and the network *)

Crash ==
  /\ target.up
  /\ target' = [target EXCEPT !.up = FALSE, !.link = FALSE]
  /\ UNCHANGED <<ing, stop, store, cap, ui, file, plot>>

Boot ==
  /\ ~target.up /\ target.boots < MaxBoots
  /\ \E s \in Schemas :
       target' = [target EXCEPT !.up = TRUE, !.schema = s, !.boots = @ + 1]
  /\ UNCHANGED <<ing, stop, store, cap, ui, file, plot>>

\* Some bytes of what is being read arrive, and the rest does not yet.
Partial ==
  /\ ing.pc \in {"schema", "prefix", "body"} /\ ~ing.mid /\ target.link
  /\ ing' = [ing EXCEPT !.mid = TRUE]
  /\ UNCHANGED <<target, stop, store, cap, ui, file, plot>>

-----------------------------------------------------------------------------
(* connect_once, called by TcpSource::connect (sync) or run_with_reconnect *)

At(p) == ing' = [ing EXCEPT !.pc = p, !.mid = FALSE]

\* Giving up on the first failure to reconnect.
ConnectFailedGivesUp ==
  /\ ing' = [ing EXCEPT !.pc = "off", !.mid = FALSE, !.sync = FALSE]
  /\ target' = [target EXCEPT !.link = FALSE]

\* An error of connect_once: returned to the caller of connect, retried after a
\* pause by the thread.
ConnectFailed ==
  /\ ing' = [ing EXCEPT !.pc = IF ing.sync THEN "off" ELSE "backoff",
                        !.mid = FALSE, !.sync = FALSE]
  /\ target' = [target EXCEPT !.link = FALSE]

Dial ==
  /\ ing.pc = "dial"
  /\ \/ target.up /\ At("schema") /\ target' = [target EXCEPT !.link = TRUE]
     \/ ConnectFailed
  /\ UNCHANGED <<stop, store, cap, ui, file, plot>>

\* Starting from the channels registered for the previous schema.
ReadSchemaKeepMap ==
  /\ ing.pc = "schema" /\ target.link
  /\ ing' = [ing EXCEPT !.pc = "build", !.mid = FALSE, !.schema = target.schema]
  /\ UNCHANGED <<target, stop, store, cap, ui, file, plot>>

ReadSchema ==
  /\ ing.pc = "schema" /\ target.link
  /\ ing' = [ing EXCEPT !.pc = "build", !.mid = FALSE, !.schema = target.schema,
                        !.map = <<>>]
  /\ UNCHANGED <<target, stop, store, cap, ui, file, plot>>

\* End of file, or a timeout before the first byte.
SchemaFails ==
  /\ ing.pc = "schema" /\ (~target.link \/ ~ing.mid)
  /\ ConnectFailed
  /\ UNCHANGED <<stop, store, cap, ui, file, plot>>

Channel(p) == [path |-> p, got |-> {}]

\* ChannelMap::build registers one channel: its id is its index in the store.
Build ==
  /\ ing.pc = "build" /\ Len(ing.map) < Len(ing.schema)
  /\ store' = Append(store, Channel(ing.schema[Len(ing.map) + 1]))
  /\ ing' = [ing EXCEPT !.map = Append(@, Len(store) + 1)]
  /\ UNCHANGED <<target, stop, cap, ui, file, plot>>

\* The map is complete: Capture::set_schema, and the packet loop begins.
Announce ==
  /\ ing.pc = "build" /\ Len(ing.map) >= Len(ing.schema)
  /\ cap' = [cap EXCEPT !.schema = ing.schema]
  /\ ing' = [ing EXCEPT !.pc = "prefix", !.sync = FALSE]
  /\ UNCHANGED <<target, stop, store, ui, file, plot>>

-----------------------------------------------------------------------------
(* packet_loop and run_with_reconnect *)

\* A packet loop that never looks at stop.
StopSeenNever ==
  /\ FALSE
  /\ UNCHANGED vars

\* while !stop, looked at before each packet and after a timeout with no bytes.
StopSeen ==
  /\ ing.pc = "prefix" /\ ~ing.mid /\ stop
  /\ At("off")
  /\ target' = [target EXCEPT !.link = FALSE]
  /\ UNCHANGED <<stop, store, cap, ui, file, plot>>

ReadPrefix ==
  /\ ing.pc = "prefix" /\ target.link
  /\ At("body")
  /\ UNCHANGED <<target, stop, store, cap, ui, file, plot>>

ReadBody ==
  /\ ing.pc = "body" /\ target.link /\ cap.total < MaxPackets
  /\ \E n \in Sizes : ing' = [ing EXCEPT !.pc = "dispatch", !.mid = FALSE,
                              !.pkt = [schema |-> ing.schema, size |-> n]]
  /\ UNCHANGED <<target, stop, store, cap, ui, file, plot>>

\* packet_loop returns an error: end of file, or a timeout before the first byte
\* of a body.  The thread retries unless it has been told to stop.
Lost ==
  /\ \/ ing.pc \in {"prefix", "body"} /\ ~target.link
     \/ ing.pc = "body" /\ ~ing.mid
  /\ At(IF stop THEN "off" ELSE "backoff")
  /\ target' = [target EXCEPT !.link = FALSE]
  /\ UNCHANGED <<stop, store, cap, ui, file, plot>>

\* push_scalar, push_state, push_text: a sample for every channel of the map.  One
\* for an id the store no longer has is dropped.
Pushed(st, map, schema) ==
  [ch \in DOMAIN st |->
     [st[ch] EXCEPT !.got = @ \cup {schema[i] : i \in {j \in DOMAIN map : map[j] = ch}}]]

\* ChannelMap::dispatch of the packet's entries.  Clearing the store in the middle
\* leaves what clearing it afterwards does.
Dispatch ==
  /\ ing.pc = "dispatch"
  /\ store' = Pushed(store, ing.map, ing.schema)
  /\ At("push")
  /\ UNCHANGED <<target, stop, cap, ui, file, plot>>

\* Evicted packets that are not counted.
FitUncounted(c) ==
  LET k == CHOOSE k \in 0 .. Len(c.packets) :
             /\ Bytes(SubSeq(c.packets, k + 1, Len(c.packets))) <= CapBytes
             /\ \A j \in 0 .. k - 1 : Bytes(SubSeq(c.packets, j + 1, Len(c.packets))) > CapBytes
      kept == SubSeq(c.packets, k + 1, Len(c.packets))
  IN [c EXCEPT !.packets = kept, !.bytes = Bytes(kept)]

\* evict_to_fit: the oldest packets go until the budget holds.
Fit(c) ==
  LET k == CHOOSE k \in 0 .. Len(c.packets) :
             /\ Bytes(SubSeq(c.packets, k + 1, Len(c.packets))) <= CapBytes
             /\ \A j \in 0 .. k - 1 : Bytes(SubSeq(c.packets, j + 1, Len(c.packets))) > CapBytes
      kept == SubSeq(c.packets, k + 1, Len(c.packets))
  IN [c EXCEPT !.packets = kept, !.dropped = @ + k,
               !.bytes = @ - Bytes(SubSeq(c.packets, 1, k))]

\* Capture::push_packet
PushPacket(c, p) ==
  Fit([c EXCEPT !.packets = Append(@, p), !.bytes = @ + p.size, !.total = @ + 1])

Push ==
  /\ ing.pc = "push"
  /\ cap' = PushPacket(cap, ing.pkt)
  /\ ing' = [ing EXCEPT !.pc = "prefix", !.pkt = None]
  /\ UNCHANGED <<target, stop, store, ui, file, plot>>

\* The pause ends, or is cut short by stop.
Backoff ==
  /\ ing.pc = "backoff"
  /\ At(IF stop THEN "off" ELSE "wipe")
  /\ UNCHANGED <<target, stop, store, cap, ui, file, plot>>

Wipe ==
  /\ ing.pc = "wipe"
  /\ store' = <<>>
  /\ At("wipecap")
  /\ UNCHANGED <<target, stop, cap, ui, file, plot>>

\* A reconnect that keeps the packets captured so far.
WipeCapKeep ==
  /\ ing.pc = "wipecap"
  /\ At("dial")
  /\ UNCHANGED <<target, stop, store, cap, ui, file, plot>>

WipeCap ==
  /\ ing.pc = "wipecap"
  /\ cap' = EmptyCap
  /\ At("dial")
  /\ UNCHANGED <<target, stop, store, ui, file, plot>>

IngestStep == Dial \/ ReadSchema \/ SchemaFails \/ Build \/ Announce \/ StopSeen
                \/ ReadPrefix \/ ReadBody \/ Lost \/ Dispatch \/ Push
                \/ Backoff \/ Wipe \/ WipeCap

-----------------------------------------------------------------------------
(* The user-interface thread; it is not available while it connects (sync) *)

Free == ui = "idle" /\ ~ing.sync

\* do_clear, in the order of its two locks.
ClearStore ==
  /\ "clear" \in Uses /\ Free
  /\ store' = <<>>
  /\ ui' = "clear"
  /\ UNCHANGED <<target, ing, stop, cap, file, plot>>

ClearCap ==
  /\ ui = "clear"
  /\ cap' = EmptyCap
  /\ ui' = "idle"
  /\ UNCHANGED <<target, ing, stop, store, file, plot>>

\* Dropping the handle, in reconnect and load_capture_file (whose file was read
\* before): stop is set and the thread joined.
DropHandle(next) ==
  /\ next \in Uses /\ Free /\ (next = "open" => file # None)
  /\ stop' = TRUE
  /\ ui' = next
  /\ UNCHANGED <<target, ing, store, cap, file, plot>>

Reconnect ==
  /\ ui = "reconnect" /\ ing.pc = "off"
  /\ store' = <<>> /\ cap' = EmptyCap /\ stop' = FALSE
  /\ ing' = [ing EXCEPT !.pc = "dial", !.sync = TRUE]
  /\ ui' = "idle"
  /\ UNCHANGED <<target, file, plot>>

\* push_packet for every packet of a file.
Replayed(c, q) ==
  LET after[i \in 0 .. Len(q)] == IF i = 0 THEN c ELSE PushPacket(after[i - 1], q[i])
  IN after[Len(q)]

\* The replay without set_schema.
OpenNoSchema ==
  /\ ui = "open" /\ ing.pc = "off"
  /\ LET ids == [i \in DOMAIN file.schema |-> i]
         st  == [i \in DOMAIN file.schema |-> Channel(file.schema[i])] IN
     store' = IF file.packets = <<>> THEN st ELSE Pushed(st, ids, file.schema)
  /\ cap' = Replayed(EmptyCap, file.packets)
  /\ stop' = FALSE /\ ui' = "idle"
  /\ UNCHANGED <<target, ing, file, plot>>

\* load_capture_file, once no thread is left: register the file's channels, set
\* its schema, replay its packets into the store and the capture.
Open ==
  /\ ui = "open" /\ ing.pc = "off"
  /\ LET ids == [i \in DOMAIN file.schema |-> i]
         st  == [i \in DOMAIN file.schema |-> Channel(file.schema[i])] IN
     store' = IF file.packets = <<>> THEN st ELSE Pushed(st, ids, file.schema)
  /\ cap' = Replayed([EmptyCap EXCEPT !.schema = file.schema], file.packets)
  /\ stop' = FALSE /\ ui' = "idle"
  /\ UNCHANGED <<target, ing, file, plot>>

\* do_save_capture: there must be packets when the dialog opens; what is written
\* is there when it closes.
SaveDialog ==
  /\ "save" \in Uses /\ Free /\ cap.packets # <<>>
  /\ ui' = "save"
  /\ UNCHANGED <<target, ing, stop, store, cap, file, plot>>

Save ==
  /\ ui = "save"
  /\ file' = IF cap.schema = None THEN file
             ELSE [schema |-> cap.schema, packets |-> cap.packets]
  /\ ui' = "idle"
  /\ UNCHANGED <<target, ing, stop, store, cap, plot>>

\* A channel is dragged on a plot, which keeps its id.
Plot ==
  /\ "plot" \in Uses /\ Free
  /\ \E ch \in DOMAIN store : plot' = [ch |-> ch, path |-> store[ch].path]
  /\ UNCHANGED <<target, ing, stop, store, cap, ui, file>>

UiStep == ClearCap \/ Reconnect \/ Open \/ Save

-----------------------------------------------------------------------------
Next ==
  \/ Crash \/ Boot \/ Partial
  \/ IngestStep
  \/ ClearStore \/ SaveDialog \/ Plot \/ UiStep
  \/ \E next \in {"reconnect", "open"} : DropHandle(next)

Spec == Init /\ [][Next]_vars

\* The threads run.  Nothing is assumed of the user or of what the target sends,
\* but that a target that is up is reached and tells its schema in the end.
FairSpec ==
  /\ Spec
  /\ WF_vars(StopSeen) /\ WF_vars(Dispatch) /\ WF_vars(Push) /\ WF_vars(Lost)
  /\ WF_vars(Build) /\ WF_vars(Announce) /\ WF_vars(SchemaFails)
  /\ WF_vars(Backoff) /\ WF_vars(Wipe) /\ WF_vars(WipeCap) /\ WF_vars(Dial)
  /\ SF_vars(target.up /\ Dial /\ target'.link) /\ SF_vars(ReadSchema)
  /\ WF_vars(UiStep)

-----------------------------------------------------------------------------
(* Properties *)

TypeOK ==
  /\ target \in [up : BOOLEAN, schema : Schemas, boots : 0 .. MaxBoots, link : BOOLEAN]
  /\ ing \in [pc : {"off", "dial", "schema", "build", "prefix", "body", "dispatch",
                    "push", "backoff", "wipe", "wipecap"},
              sync : BOOLEAN, mid : BOOLEAN, schema : Schemas \cup {<<>>},
              map : Seq(Nat), pkt : Packets \cup {None}]
  /\ stop \in BOOLEAN
  /\ cap.schema \in Schemas \cup {None} /\ cap.packets \in Seq(Packets)
  /\ cap.bytes \in Nat /\ cap.total \in 0 .. MaxPackets /\ cap.dropped \in 0 .. MaxPackets
  /\ ui \in {"idle", "clear", "reconnect", "open", "save"}

\* A channel holds the samples of its own path: the ids in ChannelMap are those of
\* the channels it registered, in the store as it is now.
SamplesBelong == \A ch \in DOMAIN store : store[ch].got \subseteq {store[ch].path}

\* What is captured, and what was saved, under one schema was received under it:
\* no packet of an earlier connection stays behind a new schema.
CaptureConsistent ==
  \A c \in {cap, file} : c # None /\ c.schema # None =>
    \A i \in DOMAIN c.packets : c.packets[i].schema = c.schema

\* The capture ring keeps to its byte budget and counts every packet: it is in the
\* ring or was dropped.
CaptureAccounting ==
  /\ cap.bytes = Bytes(cap.packets) /\ cap.bytes <= CapBytes
  /\ cap.total = Len(cap.packets) + cap.dropped

\* The user can save the ring at any time: packets come with their schema.
Saveable == cap.packets # <<>> => cap.schema # None

\* Dropping the SourceHandle, which joins the ingest thread, returns unless a read
\* is left half done.
DropReturnsUnlessMid ==
  ui \in {"reconnect", "open"} ~> (ui = "idle" \/ ing.mid)

\* A thread that lost its connection comes back to the packet loop when the target
\* is up, unless it is told to stop.
ComesBack ==
  ing.pc = "backoff" ~> (ing.pc = "prefix" \/ stop \/ ~target.up)

-----------------------------------------------------------------------------
(* What comments and documentation say and the code does not do: TLC refutes   *)
(* each of these.                                                             *)

\* A plot shows the channel that was put on it, if there is one with its id.
PlotShowsItsChannel ==
  plot # None /\ plot.ch \in DOMAIN store => store[plot.ch].path = plot.path

\* The thread reconnects, and wipes the store, only when the link drops.
ReconnectsOnLinkDrop ==
  [][ing.pc \in {"prefix", "body"} /\ ing'.pc = "backoff" => ~target.link]_vars

\* Dropping the SourceHandle returns: the thread exits on the next timeout.
DropReturns == ui \in {"reconnect", "open"} ~> ui = "idle"
=============================================================================
