# TLA+ models of btelem

btelem is a telemetry system: C programs log structs into a lock-free ring, servers stream the ring
to viewers over TCP or UDP, and Python and Rust programs decode, record, query and plot what they
receive. This directory models the parts of it whose correctness depends on order, concurrency,
failure, long sequences of user actions or the agreement of two implementations, checks them with TLC
on small instances and proves the central ones of the C library, of ingest and capture, of the log
file, of the store and of the viewer with TLAPS.

## The system and what is modelled

| Part | Source | State it keeps | Module |
|---|---|---|---|
| Ring and clients | `src/src/btelem.c`, `include/btelem/btelem.h` | head, slots with seq, client table | `BtelemRing`, `LossyLog` |
| TCP server | `src/src/btelem_serve.c` | accept thread, client threads, connection table | `BtelemServe` |
| UDP server | `src/src/btelem_serve_udp.c` | one client and its drain thread | life cycle in `BtelemServe` |
| Ingest thread | `viewer/crates/btelem-ingest/src/tcp.rs`, `mapper.rs` | connection, channel map, stop flag | `Ingest` |
| Capture ring | `viewer/crates/btelem-capture/src/lib.rs` | packets, byte budget, counters, schema blob | `Ingest`; its files in `BtlmFile` |
| Source and file commands | `viewer/crates/btelem-viewer/src/app.rs` | what the buttons do to store, capture ring and thread | `Ingest` |
| Log file | `python/btelem/storage.py`, `decoder.py` | file, footer index | `BtlmFile` |
| Native Capture | `python/btelem/_native.c` | mapped file, index | index and time ranges in `BtlmFile` |
| Store | `viewer/crates/btelem-store/src/mock.rs` | channels and their samples | `SeriesStore`; who calls it and when in `Ingest` |
| Lanes and log views | `btelem-viewer/src/plot_renderers.rs`, `view_state.rs` | none: computed from the store on every frame | `LogLanes` |
| Markers and links | `view_state.rs`, `plot_renderers.rs`, `layout.rs` | marker set, selection, drag | `Markers` |
| Camera | `view_state.rs`, `plot_renderers.rs`, `app.rs` | time base, window, bounds | `Camera` |
| Layout files, captures, connections | `app.rs`, `layout.rs` | current name and path, dialogs, source | `Session` |
| The three together | `app.rs` | one pointer, one keyboard, one frame | `Viewer` |
| Plots, dock, their part of a layout | `view_state.rs`, `app.rs`, `plot_renderers.rs`, `layout.rs` | registry, tabs, tree selection | `Plots` |

How they interact: producers and drain calls share the ring; the accept thread, the client threads
and the application share the table of ring clients; a client thread's packets reach the ingest
thread through a TCP stream that may stop anywhere; the ingest thread and the user interface share
store and capture ring; a capture is saved to a file that Python and Rust both read; what is drawn is
asked of the store, within the window of the camera, for the channels on the plots; and layouts carry
markers and plots to other sources, whose channels have other numbers.

What makes each part hard:

- ring: a producer overwrites what a client copies; a producer is held up for a lap; a client falls
  behind; a packet is too small for what there is;
- TCP server: half-way refusals, teardown in unlocked steps, viewers that vanish or do not read, a
  stop while all this happens;
- ingest: the target reboots with another schema, a packet arrives in pieces, and the user clears,
  reconnects, saves or opens a file at any moment;
- file: the writer dies at any word; three readers and two writers have to agree;
- store and lanes: half-open windows, runs that are still open, samples out of order, bisections that
  assume an order;
- viewer: markers, camera and dialogs want the same pointer and keys; ids outlive what they name; a
  layout is applied to channels it was not saved with.

`PROJECT.json` lists these hazards at their lines, with the properties that cover them.

## BtelemRing and LossyLog

One action per access to shared memory, so that every interleaving of producers and drain calls is a
behaviour. `BTELEM_LOG_ID` is `Claim` (fetch_add), `Invalidate` (release store of 0), one
`StoreWord` per word, `Publish` (release store of slot + 1). `btelem_drain` and
`btelem_drain_packed` share one loop: `DrainStart` (load head, skip what was overwritten), `LoadSeq`,
`LoadWord`, `LoadSeq2`, then `DropTorn`, `SkipFiltered`, `NoRoom` or `Deliver`. `Open`, `Close` and
`SetFilter` are the client table; `Available` is `btelem_client_available`.

An entry is abstracted to the claim that wrote it: claim s writes the tag s + 1 in both words of its
slot, so a copy is whole exactly when its words carry one tag. `Ordered` says whether the machine
keeps plain accesses on their side of the atomic ones. `lapped` is a history variable: a producer has
been held up, between fetch_add and its last store, while the others went once around the ring.

`LossyLog` is what the ring promises: entries are claimed in order and committed in any order; a
client takes or passes the committed entry at its cursor and misses, and counts, an entry only when
Capacity newer ones have been claimed. `ImplementsLog` states that the ring implements it, with the
mapping that follows it in the module.

The payload bytes, the clock and the registration of schemas are left out. One client is enough for
the runs: clients share nothing but the rule that `Open` takes the first free slot, and the theorems
hold for any number.

## BtelemServe

Threads are program counters: `acc` (accept thread), `thr[k]` (thread of peer k), `stop`
(`btelem_server_stop`), `udp` (an application that starts and stops a UDP server). A connection is
named by its peer and a peer connects once. `conn` is `srv->clients` and `ring` the active flags of
the ring clients. The two steps of `btelem_client_open`, test and set, are two actions, because
nothing guards them; the four steps of the teardown likewise. `clients_mu` is held for one step except in
the scan of `btelem_server_stop`, which excludes `Clear`.

A peer may close (`fin`), vanish (`lost`, found out later: `reset`), and stop reading and resume
while its thread writes. A blocked write, and one that times out and is retried, is a `SendAll` that is not enabled.
`Faults` turns on failures of accept() and pthread_create.

## Ingest

The ingest thread is a program counter through `connect_once`, `packet_loop` and
`run_with_reconnect`; `sync` says that it runs in the caller of `TcpSource::connect`. `mid` says that
a read has some of its bytes, in which case a timeout is retried and otherwise reported, as in
`read_exact_or_eof`. `ChannelMap::build` registers one channel per step. A schema is the sequence of
its channels' paths, and a sample is known by the path it belongs to. `cap` is the capture ring with
its budget and counters. The user interface clears (two locks, two steps), reconnects and opens files
(dropping the handle joins the thread), saves (a dialog, then the write) and puts channels on plots.

Malformed data, the length of pauses and the contents of samples are left out.

## BtlmFile

The file is a sequence of 32-bit words with the real layout: 4-word packet and entry headers, 7-word
index entries, a 4-word footer. `WritePacket`, `Flush`, `CloseBegin`, `CloseEnd` are LogWriter;
`Crash` cuts off any part of what was not flushed. The readers are operators on the file:
`Sequential`, `Indexed` and `Entries` (LogReader), `NativeIndex`, `LowerBound` and `Series`
(Capture), `RustRead` (`read_btlm`); `RustFile` is what `save_btlm` writes. The file header and
schema are `DataStart` words without structure (`Preamble`); payloads are words that name their entry.
`LowerBound` is the binary search of `index_lower_bound` (`PartitionPoint`, module `Bisect`, on any
index, sorted or not), and `Within` filters entries with `Keep` of module `Retain`.

`FileAssumption` says that counts, ids and lengths fit in the 16 bits `struct.pack` gives them.
`MagicAssumption` says that no word of a packet is INDEX_MAGIC: the readers take any file that ends
with that word, in a position that fits, for a closed one, so a crash that cut a file right behind such
a word could make a footer of a payload. What is said of a file after a crash depends on it, what is
said of a closed file does not.

## SeriesStore and LogLanes

`SeriesStore` is MockStore: `Register`, `Push` and `Clear` change it, and every query is an
operator on its state, written with the bisections of the code (`PartitionPoint` of module `Bisect`,
with `Halved` for one turn of its loop) and its scan for buckets (`Bucketed` for one sample). `pushed` is a
history variable, the samples as they were given, against which the queries are defined by
quantifiers. A state channel keeps runs, of which the last is held for ever. Interpolated values are a
numerator and a denominator. Samples may be older than their predecessor, up to `MaxDisorder` times:
several producers share a channel. Its assumptions are that a channel is a scalar or a state, that
times and values are natural numbers and times end before `Forever`, and that a budget of buckets
(`BucketBudgets`) is positive: the plots ask for one per pixel and for at least 64.

`LogLanes` is what is drawn from it: `StateLane` and `ScalarLane` are the runs of a logic analyser's
lane, `BuildLogRows` the rows of a log view, `Shown` the rows left by filters and by `truncate_rows`.
They keep no state, so the module adds no action.

## Markers, Camera, Session and Viewer

`Markers`: a pointer is over one of a few `Places`; a drag is `DragStart`, any number of `DragMove`
and `Release`; `Click` places, picks or links; `Delete`, `ToggleMarkerMode` and `Escape` are keys.
`Capture` and `Load` are the markers' part of a layout, with the migration of version 4: `Pairs` are
the neighbours in a chain and `Migrated` lists them chain by chain, in whatever order a hash map has.
`Keep` (module `Retain`) is what `Vec::retain` and `Iterator::filter` leave of a sequence.

`Camera`: follow or pan, with the bounds of the store as `data`. Every way to move the view is an
action (`Pan`, `Scroll`, `Jump`, `Toggle`, `ShiftG`, `TypeG`, `Home`, `SetWindow`), and `NewData` is
the store growing between two frames. Times are small integers; positions computed in f64 are rounded
down.

`Session`: which layout file is current, what the menu and its dialogs do to the files (a file is the
name in it), `--file` and `--layout`, the layout beside a capture, the connection and clear dialogs.
`from` is a history variable: the file the arrangement on screen was read from or written to.

`Viewer` composes the three: a frame of a drag goes first to the markers and then, if they have not
taken the pointer, to the camera (`DragFrame`); a layout brings its markers; a new source empties the
store under the camera; `Clear` is `do_clear`. Nothing of the session happens in the middle of a drag.

## Plots

`plots` is PlotRegistry, `dock` the tabs, `chans` the store's table of channels. A plot names channels
by their index in that table and a layout names them by path, so a new table (`NewTable`: reconnect,
capture, clear) changes what a plot means. `made` is a history variable: the table the ids were made
with. `Select` is the channel tree, `Drop` what is dragged from it (one channel, a selection, the two
of an XY plot), `Menu` everything chosen on a plot. `Capture` and `Apply` are the plots' part of a
layout, with versions 1 and 2; `Load` applies it here and `Restart` in a viewer on another source.

## Runs

All bounds are in the `.cfg` files. Deadlock is checked for the ring, which never stops, and for
store, viewer and plots, where some action is always possible. The other systems may stop: a server
that was stopped, a target that stays down, a file that is closed.

| Run | Instance | Shows |
|---|---|---|
| `RingSafety` | 2 producers, 1 client, 2 slots, 4 claims, packets of 0 or 1 entries, a filter, 1-bit drop field | `RingInv` (the inductive invariant, types included), no torn delivery and exclusive slots unless lapped, every entry accounted once, drops are overwrites |
| `RingUnlapped` | 2 producers, 3 claims, packets of 2, both drains, with and without filter | the ring implements `LossyLog`, and a client that keeps draining catches up |
| `ServeSlots` | 3 peers, 2 slots, 2 ring clients | one owner for every ring client, slot and socket; nothing leaked; a completed stop leaves nothing |
| `ServeLive` | 2 peers, 1 slot, 1 ring client, UDP server, failing thread creation | dead viewers are noticed, connections answered, stop returns and ends all threads |
| `IngestCapture` | 2 schemas, 2 packet sizes, budget 2, 1 reboot, 3 packets, all commands | captures and files hold packets of one schema; budget and counters |
| `IngestLive` | 1 packet size, 2 packets, all commands but Clear | samples on their own channels, packets saveable, lost connections come back, drop returns unless a read is half done |
| `FileRead` | files of up to 3 of 6 packets, in and out of time order, with and without payload | every reader gives back what was logged, from closed files and after a crash before the index |
| `StoreQueries` | a scalar, a state and a text channel, 3 samples at 4 times, one out of order, every window, 5 filters, budgets 1 and 2 | buckets, state, bounds, lanes and log rows are what their definitions by quantifiers say; out of order nothing panics and no value is invented |
| `Viewer` | 3 marker ids, 2 links, 2 places, times to 3, 2 windows, 3 layout names of which two share a file, 2 connections | no dangling link or selection, layouts keep markers, the view is never empty and stands still, a drag moves a marker or the time axis, the menu's entries load their files |
| `Plots` | 3 plot ids, 3 tables of channels, an old layout, 2 searches | tabs and plots match, a layout brings back what was saved, and by name on any other table |

Why the bounds are enough: two slots and four claims go around the ring twice, so a slot is reused, a
client is overrun and a producer is lapped; two producers are the least that lap one another. The
callback drain differs from the packed one only in what ends its loop, and is in `RingUnlapped` and
in the theorems. Three peers on two slots give refusal, reuse and teardown at once. Two schemas with
different numbers of channels make ids collide. Three packets give the binary search a middle, and two
index entries are enough to misread an index. Three samples give a series a first, a middle and a last
one, and four times an instant between, before and after. Three markers and two links make a link that
shares a marker with another and one that survives a deletion.

Two bounds are not constants of the system. `OneAtATime` (MCViewer) lets markers, camera and session
each be explored to the end while the others stay near their initial states; the places where they
meet (a drag, a load, a new source, clear) are all within it. `MaxBusy` (Plots) bounds a weighted sum
of what is on the plots, in the tree and out of date at a time; with 4 a plot holds three signals, or
two that were dragged as a selection, or a log view next to something else.

Two runs record a disagreement between the code and its documentation or comments, each with a
finding in `PROJECT.json`:

- `RingTableFull`: `btelem_drain_packed` passes the entry that does not fit without counting it.
- `IngestUnsaveable`: after Clear on a live source the capture cannot be saved until a reconnect.

### Other statements that do not hold

Met while modelling. Five have a configuration of their own, which ends with TLC's counterexample
(`tlc -config RingTorn.cfg MCBtelemRing`, and likewise `ServeSlow.cfg MCBtelemServe`,
`FileUnsorted.cfg MCBtlmFile`, `LaneGap.cfg MCLogLanes`, `SaveElsewhere.cfg MCViewer`):

- `RingTorn`: the torn-read protection (README.md:143) does not cover a lapped producer.
- `ServeSlow`: a viewer that does not read is never disconnected, contrary to `btelem_serve.c:110`;
  the timed-out write is retried.
- `FileUnsorted`: time-range queries of the native Capture (`_native.c:179`) need packets in time
  order, which neither the writer nor the ring guarantees.
- `LaneGap`: with no sample in the window a scalar lane does not keep "its last known state"
  (`plot_renderers.rs:1829`): the fallback interpolates, or finds nothing behind the last sample.
- `SaveElsewhere`: after a capture has brought its own layout, Save still writes to the file given by
  `--layout`, "the external file the layout was loaded from" (`app.rs:959`).

Others are a definition at the end of a module, or a property of a run under other constants:

- `NoTornUnlessLapped` with `Ordered = FALSE`: the release store of 0 and the acquire load of seq2 do
  not order the plain accesses after and before them (`btelem.c:178`).
- `EventuallyCaughtUp` under `FairSpec`: a lapped producer publishes an old seq over a newer one and
  the client waits at that slot until it is overwritten (`btelem.h:99`).
- `IndependentClients` with `Udp = TRUE` and two ring clients: `btelem_client_open` from two threads
  hands out one client twice (`btelem.c:70`).
- `StopJoinsAll`: stop waits a second for the detached threads and then destroys their mutex
  (`btelem_serve.c:355`).
- `ConnectionAnswered` with `Faults = {"accept"}`: any error of accept() ends the accept thread
  (`btelem_serve.c:216`).
- `SlotsReclaimed` with `ProbeEvery = 3`, `StatusEvery = 2`, that is, where fewer than 256 turns of the
  drain loop fit in two seconds: the report resets the count the probe needs (`btelem_serve.c:186`).
- `SamplesBelong` with Clear: the store is emptied while the thread registers channels, and two
  channels get one id (`app.rs:282`).
- `PlotShowsItsChannel`, `ReconnectsOnLinkDrop`, `DropReturns` (Ingest): plots keep ids across a
  reboot; a body that is late by one read timeout drops the link; a half-done read ignores stop.
- `CrashReadsBack`, `RangeFiltered` (BtlmFile): a partial index is read as packets; without an index
  the time range is ignored.

What the viewer's models had to follow although a reader of the code may expect otherwise:

- chains of a version 4 layout become links only when it is loaded by name, not by `--layout` or from
  beside a capture (`LinksOf`); a drag of a link's line also pans (`Panned` asks about markers only);
- a jump widens a view narrower than 2 ms; leaving follow mode with no bounds shows everything;
  half-open queries leave out the newest sample at the right edge;
- Save As with a path set writes the file but leaves the current name; a layout deleted from the menu
  leaves the path; connecting by UDP leaves the TCP source running;
- a signal moved to an XY plot is lost, and a moved lane loses its mode; a log view with every column
  hidden comes back with all of them; a layout loaded while its channels are absent, and saved again,
  is empty; the first half of an XY drag survives a reconnect.

### Fairness

- Ring (`Fairness`): a producer that claimed a slot is scheduled until it published, and a client
  keeps draining, as the drain threads do. Nothing makes a producer log.
- Server (`FairSpec`): no thread is starved, and the kernel gives up on a peer that vanished
  (keepalive is set, and unacknowledged data times out). Nothing makes a peer connect, read or close.
- Ingest (`FairSpec`): the threads run. Strong fairness of a successful dial and of the schema read
  says that a target that is up is reached in the end; nothing is assumed of the user or of packets.
- Store, viewer and plots have safety properties only: everything in them is a reaction to the user or
  to a sample, and nothing obliges either.

## Proofs

| Module | Theorems | Hold for any | From |
|---|---|---|---|
| `RingProofs` | `TypeCorrect` (`TypeOK`), `CursorsInRange` (`CursorWithinRing`), `AvailableIsSound` (`AvailableSound`), `EveryEntryAccounted` (`Accounting`) | number of producers, clients and slots, any packet buffers and filters | `RingAssumption` |
| | `RingInvariant` (`RingInv`), `NoTornReads` (`NoTornUnlessLapped`), `SlotsAreExclusive` (`ExclusiveSlots`), `OnlyOverwritesDropped` (`DropsAreOverwrites`) | the same | and `Ordered` |
| | `RoomyLosesNothing` (`NoSilentLoss`) | the same | and `Roomy` |
| | `RingImplementsLog` (`ImplementsLog`) | the same | `Ordered`, `Roomy`, no lapped producer (`UnlappedSpec`) |
| `ServeProofs` | `OwnersAreUnique` (`OneOwner`) | number of viewers, slots and ring clients, any probe, report and wait intervals | no UDP server |
| | `NothingIsLeaked` (`NothingLeaked`), `StopIsComplete` (`StopComplete`) | the same | and threads can be created |
| `IngestProofs` | `CaptureKeepsSchema` (`CaptureConsistent`), `CaptureKeepsAccounts` (`CaptureAccounting`) | schemas, packet sizes and budget, reboots, commands | `IngestAssumption` |
| | `SamplesReachTheirChannels` (`SamplesBelong`), `CaptureCanBeSaved` (`Saveable`) | the same | and nobody presses Clear |
| `StoreProofs` | `StoreInvariant` (`StoreInv`), `StoreIsDisorderSafe` (`DisorderSafe`), `StoreStatesAgree` (`StateAgrees`), `StoreBucketsExact` (`BucketsExact`), `StoreBoundsExact` (`BoundsExact`) | channels and kinds, times and values, samples, disorder, windows and budgets of buckets | the assumptions of `SeriesStore` |
| `FileProofs` | `FileInvariant` (`FileInv`), `FileFormatsAgree` (`FormatsAgree`) | packets, number of packets, entries and payload words, sizes of header and schema | `FileAssumption` |
| `FileReadProofs` | `FileReadsBack` (`ClosedReadsBack`), `FileSeriesExact` (`SeriesExactIfSorted`) | the same, and any ids and time ranges | `FileAssumption` |
| | `FileKeepsWholePackets` (`CrashKeepsWholePackets`) | the same, and any moment and extent of the crash | and `MagicAssumption` |
| `ViewerProofs` | `MarkersStayConsistent`, `LayoutsKeepMarkers`, `ViewStaysWellFormed`, `ViewStandsStill`, `DragsHoldCamera` | number of markers and links, places, times, windows, steps and zoom factors, version 4 files | the assumptions of the modules |
| | `LayoutsStayReachable` (`LayoutsReachable`) | names and slugs, colliding ones included | and `Apart` |

Each invariant is proved from one that is inductive.

The ring. Types alone are not inductive: dropped stays a natural number only because the cursor is
never ahead of head (`Typed`). `Core` adds that claims in flight are distinct, below head and not yet
published, and that a drain call lies between its cursor and the head it loaded. That much holds
lapped or not. While nobody is lapped, `Contents` adds that the claims in flight are among the last
Capacity, hence in different slots (`WindowDistinct`, from the arithmetic of remainders); that a slot
with a seq holds the one entry that seq names; and, for a client in the middle of its copy, that a
word from another claim was copied after seq had changed for good. Then seq2 = seq means that no word
was foreign, which is `NoTornReads`. TLC checks the whole invariant as `RingInv` in `RingSafety`.

The refinement. `Roomy` says that every packet buffer has room for as many entries as the ring has
slots and that their number fits in uint16_t. Then a drain never stops for want of room
(`RoomInvariant`, `AlwaysRoom`): it has no more left to pass than it has room for. This is exactly what
`RingTableFull` shows to be needed: where it fails, an entry is passed that the log would count.
With it every step of the ring is a step of `LossyLog` (`Claim`; `Publish` commits; `Deliver` and
`SkipFiltered` take and pass; `DrainStart` and `DropTorn` miss) or changes nothing the log can see.

The server. `OneOwner` is not inductive: nothing in it keeps a connection from being served twice, or
a client that the accept thread has found free from being taken before it is claimed. `Owned` adds
that a connection is in one place, the backlog, the accept thread or its own thread (`OnePlace`), and
who uses which ring client, the accept thread between its two steps included (`OneUser`). Most steps
are quiet, they hand nothing over (`Quiet`), and one lemma covers them all; what is left is the
connection, the accept thread and the last steps of a client thread. `Kept` states the converse, that
everything taken has a holder, and needs threads to be created: the code leaves a slot active
whose thread was not. `Stopping` states what stop has behind it at each of its steps. The two
assumptions are real: with a UDP server, or any second caller of `btelem_client_open`, `OneOwner` is
false.

Ingest. That a capture holds packets of one schema is not inductive, because `do_clear` takes the
ring's schema away while packets keep coming: `CapInv` ties the packets to the schema of the *thread*
as long as it is in its packet loop, and says that the ring is empty whenever a schema can be
announced. The budget needs that eviction ends with what fits, for every sequence of packets, and a
file that is opened is replayed into an empty ring packet by packet. Without Clear, `LiveInv` says that
the store holds exactly the channels of the map in its order, so that ids are places; Clear breaks
this, which is the finding of `IngestUnsaveable` and the reason for the hypothesis.

The viewer. `Sound` is `MarkersConsistent` with the types of markers and links; `MarkInv` adds that no
marker is held while the button is up, which `DragsHoldCamera` needs. Every way to change the markers
(place, place and link, link, move, delete, load) has a lemma that it keeps `Sound`; that a deletion
does rests on what `Vec::retain` leaves (`KeepIs`), and that a load does on what a file can hold,
migrated chains included (`MigratedIs`, `FilesReadable`). `LayoutKept` composes `CaptureIs` and
`RestoredIs`: a captured link names the places of its two ends, and restore numbers markers by place.
`CamInv` is what a pan, zoom or jump leaves: a proper interval or nothing, and nothing in follow mode.
For the layouts `LayoutsReachable` is inductive once names and dialogs are typed. `Apart` says that
neither the sidecar of a capture nor the file given by `--layout` lies in the layouts directory: the
code does not compare them, and a `--layout` file inside the directory may carry a name with another
slug.

The log file. `FileInv` says of every state what the file is, word for word: the preamble and the
packets one after the other (`Body`) while it is open, that and the index and the footer (`ClosedFile`) once it is
closed, and after a crash some first part of the latter that has all that was flushed; and that
LogWriter's index is the one `write_btlm_inner` would make. That an offset in the index is where its
packet stands is a fact about sums of lengths (`ConcatHolds`, with `Concat` and `Total` as recursive
functions), and gives `FileFormatsAgree`. For the readers the file is known by what stands where in it
(`At`): `PacketLaid` and `BodyLaid` place headers, payloads and packets, `Decode` of a packet that
stands somewhere is its content, and a scan that starts at the first of m packets that stand one after
the other, with none behind them, finds these m (`ScanFinds`, from `Standing`). A closed file is such a
standing because the scan ends at the footer's offset; a cut file is one with the packets that are
whole, because the next one is not (`CutStanding`), provided the cut file has no footer
(`CutNoFooter`, where `MagicAssumption` is used). That filtering packet by packet is filtering the whole
(`WithinConcat`) then gives `FileReadsBack`, with the packets that are skipped by the index having
nothing to give (`OutsideGivesNothing`). `FileSeriesExact` adds that for packets in time order what lies
before the binary search's answer ends too early and what lies behind the early break starts too late
(`SkippedEarly`, `SkippedLate`).

The store. What a bisection returns is proved first (in `RetainProofs`), as the loop of the code and without asking that
the slice be sorted: `Bisected` gives a place with the predicate true just before it and false just
after it, and `PartitionPointCounts` says that this place is the number of elements that satisfy it
when they come first. The first form is all that is left of the queries on samples out of order and
carries `StoreIsDisorderSafe`; the second, on samples in order, makes a slice the samples of its window
(`SliceIs`). `StoreInv` is the inductive invariant: a scalar's series is what was pushed, and a state's
runs `Follow` it, that is every run starts at a sample with its value, ends where the next one starts,
and the last has no end. From it come what `state_at` and `query_state` answer (`StateAtIs`,
`QueryStateIs`). A scan for buckets is followed sample by sample by `Filled`: the open bucket covers
exactly the samples since its first one, none of which is missed by its minimum and maximum;
`DownsampledIs` lifts this to the recursive function, and `BucketsExact` follows because indices grow
with times (`IndexGrows`). `BoundsExact` rests on what a minimum and a maximum of a non-empty finite
set are. TLC checks the four properties on the same definitions in `StoreQueries`.

`RetainProofs` holds what these need of sequences. An induction over data would need an operator as a
parameter, which the provers cannot instantiate; stated for a *set* (`SetInduction`: a set that has 0
and, with n, n + 1, has every natural number) it can be cited, and gives the least element of a set of
numbers, what `Keep` leaves, what a loop that counts down reaches (`Iterated`), what a bisection
returns, in `IngestProofs` what eviction and replay leave, and in the two modules on the file what
concatenations and scans return.

Only model-checked: all liveness properties, which are beyond the prover; the lanes and log views, and
the plots. What they say is mostly what a fold over a sequence returns for every input, and the folds
take an operator, of which the provers know nothing.

## Not modelled

- UDP JSON encoder: formatting into one bounded buffer; no state between datagrams.
- Schema blob, Rust packet decoding, expansion of fields into channels (`mapper.rs`): byte formats
  and pure decoders. The models take a schema as one value and packets as decoded.
- Stream decoder, Recorder and transports (Python): the receive loop and its buffers; the file they
  write is in `BtlmFile`.
- LiveCapture (`_native.c`): the rolling window with its index.
- Of the plots: titles and the rename dialog, selected signals of a link, priority and row limit as
  settings (what they do to the rows is in `LogLanes`), highlights, the splits of the dock, and a new
  table in the middle of a drag.
- Drawing, platform layer, command line, examples, build helper: no state of their own.
