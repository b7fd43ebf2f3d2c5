------------------------------ MODULE BtlmFile ------------------------------
(***************************************************************************)
(* The .btlm log file: the writer of storage.py (LogWriter), a crash at    *)
(* any point of it, and the three readers: LogReader of storage.py, the    *)
(* native Capture of _native.c, and read_btlm of btelem-capture/lib.rs.    *)
(*                                                                         *)
(* The file is a sequence of 32-bit words.  Offsets and sizes are counted  *)
(* in words, and 64-bit values take two words of which the high one is     *)
(* zero.  The file header and the schema are DataStart words that no       *)
(* property looks into.  The words of a payload all hold its entry's       *)
(* timestamp, so that a payload is known to be the right one.              *)
(***************************************************************************)
EXTENDS Integers, Sequences, FiniteSetsExt, Retain, Bisect

CONSTANTS Packets,     \* packets given to write_packet: sequences of entries
          Times,       \* bounds of time-range queries
          DataStart,   \* words of file header and schema
          MaxPackets,  \* bound on the packets of a file
          NoTime       \* a bound that is not given

VARIABLES
  file,     \* the words written so far
  flushed,  \* words known to have reached the file
  index,    \* LogWriter._index
  written,  \* history: the packets written
  mode      \* "open", "index" (close has begun), "closed", "crashed"

vars == <<file, flushed, index, written, mode>>

HeaderWords == 4      \* PACKET_HEADER_SIZE
EntryWords  == 4      \* ENTRY_HEADER_SIZE
IndexWords  == 7      \* INDEX_ENTRY_SIZE
FooterWords == 4      \* INDEX_FOOTER_SIZE
U16   == 65536        \* struct.pack refuses a count, an id or a length from here on
Magic == 1073741824   \* INDEX_MAGIC
Filler == 0           \* a word of file header or schema

Preamble == [i \in 1 .. DataStart |-> Filler]

Entry == [id : 0 .. U16 - 1, ts : Nat, len : 0 .. U16 - 1]

ASSUME FileAssumption ==
  /\ DataStart \in Nat \ {0} /\ MaxPackets \in Nat /\ Times \subseteq Nat /\ NoTime \notin Nat
  /\ Packets \subseteq {p \in Seq(Entry) : Len(p) < U16}

\* The sequences of ss one after the other.
Concat(ss) ==
  LET joined[n \in 0 .. Len(ss)] == IF n = 0 THEN <<>> ELSE joined[n - 1] \o ss[n]
  IN joined[Len(ss)]

Total(s) ==
  LET sum[n \in 0 .. Len(s)] == IF n = 0 THEN 0 ELSE sum[n - 1] + s[n]
  IN sum[Len(s)]

-----------------------------------------------------------------------------
(* Packets: build_packet, _packet_ts_range *)

Stamps(p) == {p[i].ts : i \in DOMAIN p}
Offset(p, i) == Total([j \in 1 .. i - 1 |-> p[j].len])

EntryHeader(p, i) == <<p[i].id + U16 * p[i].len, Offset(p, i), p[i].ts, 0>>

\* The payload of an entry.
Payload(e) == [j \in 1 .. e.len |-> e.ts]

PacketWords(p) ==
  <<Len(p), Offset(p, Len(p) + 1), 0, 0>>
    \o Concat([i \in DOMAIN p |-> EntryHeader(p, i)])
    \o Concat([i \in DOMAIN p |-> Payload(p[i])])

\* A packet without the words of INDEX_MAGIC: a cut right behind them could pass for
\* a footer.
ASSUME MagicAssumption ==
  \A p \in Packets : \A i \in DOMAIN PacketWords(p) : PacketWords(p)[i] # Magic

\* The range that takes the first and the last entry for the extremes.
TsRangeEnds(p) == IF p = <<>> THEN [min |-> 0, max |-> 0]
                  ELSE [min |-> p[1].ts, max |-> p[Len(p)].ts]

TsRange(p) == IF p = <<>> THEN [min |-> 0, max |-> 0]
              ELSE [min |-> Min(Stamps(p)), max |-> Max(Stamps(p))]

-----------------------------------------------------------------------------
(* LogWriter *)

Init ==
  /\ file = Preamble
  /\ flushed = 0
  /\ index = <<>> /\ written = <<>>
  /\ mode = "open"

WritePacket(p) ==
  /\ mode = "open" /\ Len(written) < MaxPackets
  /\ file' = file \o PacketWords(p)
  /\ index' = Append(index, [offset |-> Len(file), min |-> TsRange(p).min,
                             max |-> TsRange(p).max, n |-> Len(p)])
  /\ written' = Append(written, p)
  /\ UNCHANGED <<flushed, mode>>

Flush ==
  /\ mode = "open" /\ flushed < Len(file)
  /\ flushed' = Len(file)
  /\ UNCHANGED <<file, index, written, mode>>

IndexLine(ie) == <<ie.offset, 0, ie.min, 0, ie.max, 0, ie.n>>

\* A footer that points past the index.
IndexTailPast ==
  LET entries == Concat([k \in DOMAIN index |-> IndexLine(index[k])])
  IN entries \o <<Len(file) + Len(entries), 0, Len(index), Magic>>

\* close: _write_index, then the file is closed.  The writes are buffered, so
\* they reach the file word by word or all at once: Crash cuts them anywhere.
IndexTail ==
  Concat([k \in DOMAIN index |-> IndexLine(index[k])])
    \o <<Len(file), 0, Len(index), Magic>>

CloseBegin ==
  /\ mode = "open"
  /\ file' = file \o IndexTail
  /\ mode' = "index"
  /\ UNCHANGED <<flushed, index, written>>

CloseEnd ==
  /\ mode = "index"
  /\ flushed' = Len(file)
  /\ mode' = "closed"
  /\ UNCHANGED <<file, index, written>>

\* The writer dies: any part of what it had not flushed is missing at the end.
Crash ==
  /\ mode \in {"open", "index"}
  /\ \E n \in flushed .. Len(file) : file' = SubSeq(file, 1, n)
  /\ mode' = "crashed"
  /\ UNCHANGED <<flushed, index, written>>

Next == \/ \E p \in Packets : WritePacket(p)
        \/ Flush \/ CloseBegin \/ CloseEnd \/ Crash

Spec == Init /\ [][Next]_vars

-----------------------------------------------------------------------------
(* What the readers have in common *)

\* The file header and the schema are there: open and Capture_init do not raise.
Opens(f) == Len(f) >= DataStart

Size(f, pos) == HeaderWords + EntryWords * (f[pos + 1] % U16) + f[pos + 2]

\* Asking for a word after the packet.
WholeAndMore(f, pos) == pos + HeaderWords <= Len(f) /\ pos + Size(f, pos) < Len(f)

\* A whole packet starts at pos.
Whole(f, pos) == pos + HeaderWords <= Len(f) /\ pos + Size(f, pos) <= Len(f)

\* The offsets of the packets found one after the other from DataStart to end:
\* _entries_sequential and Capture_build_index.
Scan(f, end) ==
  LET at[pos \in 0 .. Len(f)] ==
        IF pos >= end \/ ~Whole(f, pos) THEN <<>>
        ELSE <<pos>> \o at[pos + Size(f, pos)]
  IN at[DataStart]

\* decode_packet on the words of one packet.
Decode(pkt) ==
  LET n    == pkt[1] % U16
      base == HeaderWords + EntryWords * n
      eh(i) == HeaderWords + EntryWords * (i - 1)
  IN [i \in 1 .. n |->
        [id |-> pkt[eh(i) + 1] % U16, ts |-> pkt[eh(i) + 3],
         payload |-> LET at == base + pkt[eh(i) + 2]
                     IN SubSeq(pkt, at + 1,
                               Min({at + pkt[eh(i) + 1] \div U16, Len(pkt)}))]]

PacketAt(f, pos) == SubSeq(f, pos + 1, pos + Size(f, pos))

\* _try_load_index, Capture_init: a footer at the end that fits the file.
FooterOK(f) ==
  /\ Len(f) >= DataStart + FooterWords
  /\ f[Len(f)] = Magic
  /\ f[Len(f) - 3] + IndexWords * f[Len(f) - 1] + FooterWords = Len(f)

FooterCount(f)  == f[Len(f) - 1]
FooterOffset(f) == f[Len(f) - 3]

IndexEntry(f, k) ==
  LET at == FooterOffset(f) + IndexWords * (k - 1)
  IN [offset |-> f[at + 1], min |-> f[at + 3], max |-> f[at + 5], n |-> f[at + 7]]

InRange(t, t0, t1) == (t0 = NoTime \/ t >= t0) /\ (t1 = NoTime \/ t <= t1)

Within(entries, ids, t0, t1) ==
  Keep(entries, {i \in DOMAIN entries : entries[i].id \in ids /\ InRange(entries[i].ts, t0, t1)})

-----------------------------------------------------------------------------
(* LogReader.entries *)

Sequential(f, ids) ==
  LET end == IF FooterOK(f) THEN FooterOffset(f) ELSE Len(f)
      ps  == Scan(f, end)
  IN Concat([i \in DOMAIN ps |-> Within(Decode(PacketAt(f, ps[i])), ids, NoTime, NoTime)])

Outside(ie, t0, t1) ==
  (t1 # NoTime /\ ie.min > t1) \/ (t0 # NoTime /\ ie.max < t0)

Indexed(f, ids, t0, t1) ==
  Concat([k \in 1 .. FooterCount(f) |->
    LET ie == IndexEntry(f, k) IN
    IF Outside(ie, t0, t1) THEN <<>>
    ELSE Within(Decode(PacketAt(f, ie.offset)), ids, t0, t1)])

Entries(f, ids, t0, t1) ==
  IF FooterOK(f) /\ (t0 # NoTime \/ t1 # NoTime) THEN Indexed(f, ids, t0, t1)
  ELSE Sequential(f, ids)

-----------------------------------------------------------------------------
(* Capture of _native.c *)

\* The index in the file, or one built by scanning it.
NativeIndex(f) ==
  IF FooterOK(f) THEN [k \in 1 .. FooterCount(f) |-> IndexEntry(f, k)]
  ELSE LET ps == Scan(f, Len(f)) IN
       [k \in DOMAIN ps |->
          LET es == Decode(PacketAt(f, ps[k]))
              r  == TsRange(es)
          IN [offset |-> ps[k], min |-> r.min, max |-> r.max, n |-> Len(es)]]

\* The bound that skips the packet it should start with.
LowerBoundPast(idx, t0) == PartitionPoint(Len(idx), {k \in DOMAIN idx : idx[k].max <= t0})

\* index_lower_bound: the first packet with ts_max >= t0.
LowerBound(idx, t0) == PartitionPoint(Len(idx), {k \in DOMAIN idx : idx[k].max < t0})

\* count_entries_exact, fill_series, fill_table: from the lower bound to the first
\* packet that starts after t1.
Series(f, id, t0, t1) ==
  LET idx   == NativeIndex(f)
      start == IF t0 = NoTime THEN 0 ELSE LowerBound(idx, t0)
      stops == {k \in start + 1 .. Len(idx) : t1 # NoTime /\ idx[k].min > t1}
      last  == IF stops = {} THEN Len(idx) ELSE Min(stops) - 1
  IN Concat([k \in 1 .. last - start |->
               Within(Decode(PacketAt(f, idx[start + k].offset)), {id}, t0, t1)])

-----------------------------------------------------------------------------
(* btelem-capture: write_btlm_inner and read_btlm *)

\* Where the k-th of the packets ps starts.
PacketStart(ps, k) == DataStart + Total([i \in 1 .. k - 1 |-> Len(PacketWords(ps[i]))])

RustEntry(ps, k) ==
  [offset |-> PacketStart(ps, k), min |-> TsRange(ps[k]).min, max |-> TsRange(ps[k]).max,
   n |-> Len(ps[k])]

\* The file save_btlm writes for the packets ps of the capture ring.
RustFile(ps) ==
  Preamble
    \o Concat([k \in DOMAIN ps |-> PacketWords(ps[k])])
    \o Concat([k \in DOMAIN ps |-> IndexLine(RustEntry(ps, k))])
    \o <<PacketStart(ps, Len(ps) + 1), 0, Len(ps), Magic>>

\* Packets lie between one offset of the index and the next.
RustRead(f) ==
  [k \in 1 .. FooterCount(f) |->
     SubSeq(f, IndexEntry(f, k).offset + 1,
            IF k < FooterCount(f) THEN IndexEntry(f, k + 1).offset ELSE FooterOffset(f))]

-----------------------------------------------------------------------------
(* Properties *)

\* What a reader is to find of a packet.
Content(p) == [j \in DOMAIN p |-> [id |-> p[j].id, ts |-> p[j].ts, payload |-> Payload(p[j])]]

\* What was logged in the first n packets.
Logged(n) == Concat([i \in 1 .. n |-> Content(written[i])])

\* Where the n-th packet ends.
EndOf(n) == PacketStart(written, n + 1)

\* The number of packets that are whole in the file.
Survivors == Max({n \in 0 .. Len(written) : EndOf(n) <= Len(file)})

Ids == UNION {{p[i].id : i \in DOMAIN p} : p \in Packets}
Bounds == Times \cup {NoTime}

TypeOK ==
  /\ \A i \in DOMAIN file : file[i] \in Nat
  /\ flushed \in 0 .. Len(file)
  /\ \A k \in DOMAIN index : index[k].offset \in DataStart .. EndOf(Len(written)) - HeaderWords
  /\ Len(index) = Len(written) /\ Len(written) <= MaxPackets
  /\ mode \in {"open", "index", "closed", "crashed"}

\* A closed file gives back to LogReader what was logged: all of it and any time
\* range of it, for any set of ids, in the order it was written.
ClosedReadsBack ==
  mode = "closed" =>
    \A ids \in SUBSET Ids, t0, t1 \in Bounds :
      Entries(file, ids, t0, t1) = Within(Logged(Len(written)), ids, t0, t1)

\* The Python and the Rust side agree on the format: a file of LogWriter is the one
\* save_btlm writes for the same packets, and read_btlm slices it into them.
FormatsAgree ==
  mode = "closed" =>
    /\ file = RustFile(written)
    /\ RustRead(file) = [i \in DOMAIN written |-> PacketWords(written[i])]

\* After a crash before the index is written, the sequential scan and the rebuilt
\* index find exactly the packets that are whole in the file, and a flushed packet
\* is one of them.
CrashKeepsWholePackets ==
  mode = "crashed" /\ Opens(file) /\ Len(file) <= EndOf(Len(written)) =>
    /\ Sequential(file, Ids) = Logged(Survivors)
    /\ \A id \in Ids : Series(file, id, NoTime, NoTime)
                         = Within(Logged(Survivors), {id}, NoTime, NoTime)
    /\ \A n \in 0 .. Len(written) : EndOf(n) <= flushed => n <= Survivors

\* The packets are in time order.
Sorted == \A i, j \in DOMAIN index : i < j =>
            index[i].min <= index[j].min /\ index[i].max <= index[j].max

\* A time range of a series of the native Capture is exact, from the file's index.
SeriesExactFor(id) ==
  \A t0, t1 \in Bounds :
    Series(file, id, t0, t1) = Within(Logged(Len(written)), {id}, t0, t1)

\* Series and tables of the native Capture over a time range are exact if the
\* packets are in time order: the binary search and the early break lose nothing.
SeriesExactIfSorted ==
  mode = "closed" /\ Sorted => \A id \in Ids : SeriesExactFor(id)

-----------------------------------------------------------------------------
(* What comments and documentation say and the code does not do: TLC refutes   *)
(* each of these.                                                             *)

\* "If the footer is missing (crash before close), the reader falls back to
\* sequential scanning": wherever the crash cut the file, what is read was logged.
CrashReadsBack ==
  mode = "crashed" /\ Opens(file) => Sequential(file, Ids) = Logged(Survivors)

\* The index is "time-sorted", so the time ranges of the native Capture (series,
\* table) are exact for every file.
SeriesExact ==
  mode = "closed" => \A id \in Ids : SeriesExactFor(id)

\* LogReader.entries filters by time range; without an index it "falls back to
\* sequential scan" for the same entries.
RangeFiltered ==
  mode \in {"closed", "crashed"} /\ Opens(file) =>
    \A t0, t1 \in Bounds :
      Entries(file, Ids, t0, t1) = Within(Entries(file, Ids, NoTime, NoTime), Ids, t0, t1)
=============================================================================
