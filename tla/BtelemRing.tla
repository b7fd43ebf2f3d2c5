----------------------------- MODULE BtelemRing -----------------------------
(***************************************************************************)
(* The lossy ring of btelem.c and btelem.h: producers log entries with     *)
(* BTELEM_LOG_ID, clients drain them with btelem_drain or                  *)
(* btelem_drain_packed.  One action per access to shared memory.           *)
(*                                                                         *)
(* An entry is abstracted to the claim that wrote it.  Claim s (the value  *)
(* s that fetch_add returned) writes the tag s+1 in every word of its      *)
(* slot, so a copied entry is intact exactly when all its words carry one  *)
(* tag; tag 0 is the zeroed memory of btelem_init.  The words are "hdr"    *)
(* (timestamp, id, payload_size) and "pay" (payload).                      *)
(*                                                                         *)
(* Only seq is accessed atomically.  Ordered says whether the build keeps  *)
(* plain accesses on their side of it: TRUE on a machine whose stores      *)
(* become visible, and whose loads are done, in program order; FALSE where *)
(* a store may pass the release store of 0 before it and the release order *)
(* of the last store is the only one left, and a load may be done after    *)
(* the acquire load that follows it.                                       *)
(***************************************************************************)
EXTENDS Integers, Sequences

CONSTANTS Producers,    \* threads that call BTELEM_LOG_ID
          MaxClients,   \* BTELEM_MAX_CLIENTS
          Capacity,     \* ring entries, a power of two in the code
          MaxSchema,    \* BTELEM_MAX_SCHEMA_ENTRIES
          Ids,          \* registered schema ids
          Requests,     \* lists of ids a caller passes as a filter
          TableSizes,   \* entries the caller's packet buffers have room for
          Kinds,        \* drain functions in use: "emit", "packed"
          U32Max,       \* largest value of the packet header's dropped field
          U16Range,     \* values of a uint16_t, the type max_entries is cast to
          Ordered,      \* see above
          MaxHead       \* bound on the number of claims

ASSUME RingAssumption ==
  /\ MaxClients \in Nat /\ Capacity \in Nat \ {0} /\ MaxHead \in Nat
  /\ MaxSchema \in Nat /\ Ids \subseteq 0 .. MaxSchema - 1
  /\ Requests \subseteq SUBSET Nat
  /\ TableSizes \subseteq Nat /\ U32Max \in Nat \ {0} /\ U16Range \in Nat \ {0}
  /\ Kinds \subseteq {"emit", "packed"} /\ Ordered \in BOOLEAN

VARIABLES
  head,      \* ring->head
  seq,       \* entries[i].seq
  data,      \* entries[i]: the tag in each word
  pslot,     \* the claim each producer is writing, Idle if none
  pdone,     \* the stores of that claim which are visible
  ids,       \* ids[s + 1] is the id that claim s logs
  active, cursor, filter, dropped, reported,   \* struct btelem_client
  pc,        \* where the client's drain call stands
  dhead,     \* its local: head
  kind,      \* which function it is
  count,     \* its local: entry_count
  maxent,    \* its local: max_entries
  got,       \* its locals: seq2 and the words of the stack copy
  opened, emitted, filtered, lost, last,  \* history of the client
  lapped     \* history: a claim was made on a slot still being written

prodVars   == <<head, seq, data, pslot, pdone, ids, lapped>>
clientVars == <<active, cursor, filter, dropped, reported>>
drainVars  == <<pc, dhead, kind, count, maxent, got>>
histVars   == <<opened, emitted, filtered, lost, last>>
vars       == <<prodVars, clientVars, drainVars, histVars>>

Words   == {"hdr", "pay"}
Loads   == Words \cup {"seq2"}
Stores  == Words \cup {"inv"}
Idle    == -1
Unread  == -1
Slots   == 0 .. Capacity - 1
Clients == 0 .. MaxClients - 1

\* mask one bit short: half the ring is never used.
IndexShortMask(s) == s % (Capacity \div 2)

\* entries[s & mask]; Capacity is a power of two, so the mask is a remainder.
Index(s) == s % Capacity

\* The seq value, and the tag, of claim s.
SeqOf(s) == s + 1

Empty   == [w \in Loads |-> Unread]
NoEntry == [slot |-> -1, hdr |-> 0, pay |-> 0]

Init ==
  /\ head = 0
  /\ seq = [i \in Slots |-> 0]
  /\ data = [i \in Slots |-> [w \in Words |-> 0]]
  /\ pslot = [p \in Producers |-> Idle]
  /\ pdone = [p \in Producers |-> {}]
  /\ ids = <<>>
  /\ active = [c \in Clients |-> FALSE]
  /\ cursor = [c \in Clients |-> 0]
  /\ filter = [c \in Clients |-> [on |-> FALSE, ids |-> {}]]
  /\ dropped = [c \in Clients |-> 0]
  /\ reported = [c \in Clients |-> 0]
  /\ pc = [c \in Clients |-> "idle"]
  /\ dhead = [c \in Clients |-> 0]
  /\ kind = [c \in Clients |-> "emit"]
  /\ count = [c \in Clients |-> 0]
  /\ maxent = [c \in Clients |-> 0]
  /\ got = [c \in Clients |-> Empty]
  /\ opened = [c \in Clients |-> 0]
  /\ emitted = [c \in Clients |-> 0]
  /\ filtered = [c \in Clients |-> 0]
  /\ lost = [c \in Clients |-> 0]
  /\ last = [c \in Clients |-> NoEntry]
  /\ lapped = FALSE

-----------------------------------------------------------------------------
(* BTELEM_LOG_ID *)

InFlight(p) == pslot[p] # Idle

\* A claim that keeps the record of the producer's last stores, as if the slot
\* were already invalidated and written.
ClaimNoReset(p) ==
  /\ ~InFlight(p) /\ head < MaxHead
  /\ head' = head + 1
  /\ pslot' = [pslot EXCEPT ![p] = head]
  /\ \E id \in Ids : ids' = Append(ids, id)
  /\ lapped' = (lapped \/ \E q \in Producers :
                             InFlight(q) /\ pslot[q] + Capacity <= head)
  /\ UNCHANGED <<pdone, seq, data, clientVars, drainVars, histVars>>

\* fetch_add on head.  The claim laps a producer still writing this slot.
Claim(p) ==
  /\ ~InFlight(p) /\ head < MaxHead
  /\ head' = head + 1
  /\ pslot' = [pslot EXCEPT ![p] = head]
  /\ pdone' = [pdone EXCEPT ![p] = {}]
  /\ \E id \in Ids : ids' = Append(ids, id)
  /\ lapped' = (lapped \/ \E q \in Producers :
                             InFlight(q) /\ pslot[q] + Capacity <= head)
  /\ UNCHANGED <<seq, data, clientVars, drainVars, histVars>>

\* The release store of 0 that invalidates the slot.
Invalidate(p) ==
  /\ InFlight(p) /\ "inv" \notin pdone[p]
  /\ seq' = [seq EXCEPT ![Index(pslot[p])] = 0]
  /\ pdone' = [pdone EXCEPT ![p] = @ \cup {"inv"}]
  /\ UNCHANGED <<head, data, pslot, ids, lapped, clientVars, drainVars, histVars>>

\* A store to one word.  A release store does not hold back the stores after
\* it, so without Ordered a word may become visible before the invalidation.
StoreWord(p, w) ==
  /\ InFlight(p) /\ w \notin pdone[p]
  /\ Ordered => "inv" \in pdone[p]
  /\ data' = [data EXCEPT ![Index(pslot[p])][w] = SeqOf(pslot[p])]
  /\ pdone' = [pdone EXCEPT ![p] = @ \cup {w}]
  /\ UNCHANGED <<head, seq, pslot, ids, lapped, clientVars, drainVars, histVars>>

\* The release store of slot + 1, after every earlier store.
Publish(p) ==
  /\ InFlight(p) /\ pdone[p] = Stores
  /\ seq' = [seq EXCEPT ![Index(pslot[p])] = SeqOf(pslot[p])]
  /\ pslot' = [pslot EXCEPT ![p] = Idle]
  /\ UNCHANGED <<head, data, pdone, ids, lapped, clientVars, drainVars, histVars>>

-----------------------------------------------------------------------------
(* Client management *)

\* NULL or an empty list accepts everything; ids out of range are skipped, so
\* a list with nothing but those accepts nothing.
FilterFor(R) == [on |-> R # {}, ids |-> {i \in R : i < MaxSchema}]
Accepts(c, tag) == filter[c].on => ids[tag] \in filter[c].ids

\* btelem_client_open: the first free slot, from the current head.
Open(c) ==
  /\ ~active[c] /\ pc[c] = "idle"
  /\ \A b \in Clients : b < c => active[b]
  /\ \E R \in Requests : filter' = [filter EXCEPT ![c] = FilterFor(R)]
  /\ active' = [active EXCEPT ![c] = TRUE]
  /\ cursor' = [cursor EXCEPT ![c] = head]
  /\ dropped' = [dropped EXCEPT ![c] = 0]
  /\ reported' = [reported EXCEPT ![c] = 0]
  /\ opened' = [opened EXCEPT ![c] = head]
  /\ emitted' = [emitted EXCEPT ![c] = 0]
  /\ filtered' = [filtered EXCEPT ![c] = 0]
  /\ lost' = [lost EXCEPT ![c] = 0]
  /\ last' = [last EXCEPT ![c] = NoEntry]
  /\ UNCHANGED <<prodVars, drainVars>>

\* btelem_client_close, by the thread that drains the client.
Close(c) ==
  /\ active[c] /\ pc[c] = "idle"
  /\ active' = [active EXCEPT ![c] = FALSE]
  /\ UNCHANGED <<cursor, filter, dropped, reported, prodVars, drainVars, histVars>>

\* btelem_client_set_filter, by the thread that drains the client.
SetFilter(c) ==
  /\ active[c] /\ pc[c] = "idle"
  /\ \E R \in Requests : filter' = [filter EXCEPT ![c] = FilterFor(R)]
  /\ UNCHANGED <<active, cursor, dropped, reported, prodVars, drainVars, histVars>>

\* Off by one: an entry is given up that is still there.
OldestTooNew(h) == IF h > Capacity THEN h - Capacity + 1 ELSE 0

\* The oldest claim whose slot has not been claimed again when head is h.
Oldest(h) == IF h > Capacity THEN h - Capacity ELSE 0

\* No skip: the client waits for an entry that is gone.
ResumeInPlace(c, h) == cursor[c]

\* Where a client resumes: behind the oldest entry it skips forward to it.
Resume(c, h) == IF cursor[c] < Oldest(h) THEN Oldest(h) ELSE cursor[c]

\* The skip not counted.
SkippedUncounted(c, h) == 0

\* The entries it skips, all overwritten.
Skipped(c, h) == Resume(c, h) - cursor[c]

\* btelem_client_available: the entries to read, and *dropped.
Available(c) == head - Resume(c, head)
AvailableDropped(c) == Skipped(c, head)

-----------------------------------------------------------------------------
(* btelem_drain and btelem_drain_packed.  They share the loop over the     *)
(* ring; the packed one fills a table of maxent entries.                   *)

Min2(a, b) == IF a < b THEN a ELSE b

\* Entry to either function: load head, skip what was overwritten.  The packed
\* one returns at once when there is nothing to read or no room for an entry.
DrainStart(c, k, room) ==
  /\ active[c] /\ pc[c] = "idle"
  /\ LET start == Resume(c, head)
         max   == Min2(room, head - start)
         enter == start < head /\ (k = "packed" => max > 0)
     IN /\ dropped' = [dropped EXCEPT ![c] = @ + Skipped(c, head)]
        /\ cursor' = [cursor EXCEPT ![c] = start]
        /\ IF enter
           THEN /\ pc' = [pc EXCEPT ![c] = "seq"]
                /\ dhead' = [dhead EXCEPT ![c] = head]
                /\ kind' = [kind EXCEPT ![c] = k]
                /\ maxent' = [maxent EXCEPT ![c] = max]
           ELSE UNCHANGED <<pc, dhead, kind, maxent>>
  /\ UNCHANGED <<got, count, active, filter, reported, prodVars, histVars>>

\* drop_delta: what was dropped and not yet reported.
DropDelta(c) == dropped'[c] - reported[c]

\* The end of the call; its locals are gone.  A packet that holds an entry goes
\* out with the drops since the last one in its 32-bit field.
Return(c, n) ==
  LET field == IF kind[c] = "packed" /\ n > 0 THEN Min2(DropDelta(c), U32Max) ELSE 0
  IN /\ reported' = [reported EXCEPT ![c] = @ + field]
     /\ pc' = [pc EXCEPT ![c] = "idle"]
     /\ got' = [got EXCEPT ![c] = Empty]
     /\ dhead' = [dhead EXCEPT ![c] = 0]
     /\ kind' = [kind EXCEPT ![c] = "emit"]
     /\ count' = [count EXCEPT ![c] = 0]
     /\ maxent' = [maxent EXCEPT ![c] = 0]

\* Once more around the while loop, with n entries in the packet.
Continue(c, n) ==
  /\ pc' = [pc EXCEPT ![c] = "seq"]
  /\ got' = [got EXCEPT ![c] = Empty]
  /\ count' = [count EXCEPT ![c] = n]
  /\ UNCHANGED <<reported, dhead, kind, maxent>>

NextEntry(c, n) == IF cursor'[c] < dhead[c] THEN Continue(c, n) ELSE Return(c, n)

\* The acquire load of seq.  Anything but cursor + 1 ends the call.
LoadSeq(c) ==
  /\ pc[c] = "seq"
  /\ UNCHANGED <<active, cursor, filter, dropped, prodVars, histVars>>
  /\ IF seq[Index(cursor[c])] = SeqOf(cursor[c])
     THEN /\ pc' = [pc EXCEPT ![c] = "copy"]
          /\ UNCHANGED <<reported, dhead, kind, count, maxent, got>>
     ELSE Return(c, count[c])

\* memcpy loads one word of the slot into the stack copy.
LoadWord(c, w) ==
  /\ pc[c] = "copy" /\ got[c][w] = Unread
  /\ got' = [got EXCEPT ![c][w] = data[Index(cursor[c])][w]]
  /\ UNCHANGED <<pc, dhead, kind, count, maxent, prodVars, clientVars, histVars>>

\* The load of seq2.  An acquire load does not hold back the loads before it,
\* so without Ordered the copy may still be under way.
LoadSeq2(c) ==
  /\ pc[c] = "copy" /\ got[c]["seq2"] = Unread
  /\ Ordered => \A w \in Words : got[c][w] # Unread
  /\ got' = [got EXCEPT ![c]["seq2"] = seq[Index(cursor[c])]]
  /\ UNCHANGED <<pc, dhead, kind, count, maxent, prodVars, clientVars, histVars>>

\* The copy taken without looking at seq again.
SeqHeldUnchecked(c) == TRUE

\* seq2 == seq.
SeqHeld(c) == got[c]["seq2"] = SeqOf(cursor[c])

CopyDone(c) == pc[c] = "copy" /\ \A w \in Loads : got[c][w] # Unread
Passes(c)   == Accepts(c, got[c]["hdr"])

\* entry_count >= (uint16_t)max_entries.
TableFull(c) == kind[c] = "packed" /\ count[c] >= maxent[c] % U16Range

Advance(c)  == cursor' = [cursor EXCEPT ![c] = @ + 1]

\* seq2 # seq: the entry was overwritten during the copy.
DropTorn(c) ==
  /\ CopyDone(c) /\ ~SeqHeld(c)
  /\ Advance(c)
  /\ dropped' = [dropped EXCEPT ![c] = @ + 1]
  /\ NextEntry(c, count[c])
  /\ UNCHANGED <<active, filter, prodVars, histVars>>

\* The client's filter rejects the id in the copy.
SkipFiltered(c) ==
  /\ CopyDone(c) /\ SeqHeld(c) /\ ~Passes(c)
  /\ Advance(c)
  /\ filtered' = [filtered EXCEPT ![c] = @ + 1]
  /\ UNCHANGED <<active, filter, dropped, opened, emitted, lost, last, prodVars>>
  /\ NextEntry(c, count[c])

\* btelem_drain_packed: no room.  The cursor has already moved past the entry.
NoRoom(c) ==
  /\ CopyDone(c) /\ SeqHeld(c) /\ Passes(c) /\ TableFull(c)
  /\ Advance(c)
  /\ lost' = [lost EXCEPT ![c] = @ + 1]
  /\ UNCHANGED <<active, filter, dropped, opened, emitted, filtered, last, prodVars>>
  /\ Return(c, count[c])

\* The entry goes to the emit callback, which may ask to stop, or into the packet.
Deliver(c) ==
  /\ CopyDone(c) /\ SeqHeld(c) /\ Passes(c) /\ ~TableFull(c)
  /\ Advance(c)
  /\ emitted' = [emitted EXCEPT ![c] = @ + 1]
  /\ last' = [last EXCEPT ![c] = [slot |-> cursor[c], hdr |-> got[c]["hdr"],
                                  pay |-> got[c]["pay"]]]
  /\ UNCHANGED <<active, filter, dropped, opened, filtered, lost, prodVars>>
  /\ \/ NextEntry(c, count[c] + 1)
     \/ kind[c] = "emit" /\ Return(c, count[c] + 1)

-----------------------------------------------------------------------------
Produce(p) ==
  \/ Claim(p)
  \/ Invalidate(p)
  \/ \E w \in Words : StoreWord(p, w)
  \/ Publish(p)

Room(k) == IF k = "packed" THEN TableSizes ELSE {0}

Drain(c) ==
  \/ \E k \in Kinds : \E room \in Room(k) : DrainStart(c, k, room)
  \/ LoadSeq(c)
  \/ \E w \in Words : LoadWord(c, w)
  \/ LoadSeq2(c)
  \/ DropTorn(c)
  \/ SkipFiltered(c)
  \/ NoRoom(c)
  \/ Deliver(c)

Manage(c) == Open(c) \/ Close(c) \/ SetFilter(c)

Next == \/ \E p \in Producers : Produce(p)
        \/ \E c \in Clients : Manage(c) \/ Drain(c)

Spec == Init /\ [][Next]_vars

-----------------------------------------------------------------------------
Entry == [slot : Int, hdr : Nat, pay : Nat]

\* Types of the ring, of the client table and of the locals of the drain calls.
TypeOK ==
  /\ head \in Nat /\ lapped \in BOOLEAN
  /\ seq \in [Slots -> Nat] /\ data \in [Slots -> [Words -> Nat]]
  /\ pslot \in [Producers -> Nat \cup {Idle}] /\ pdone \in [Producers -> SUBSET Stores]
  /\ ids \in Seq(Ids) /\ Len(ids) = head
  /\ active \in [Clients -> BOOLEAN] /\ cursor \in [Clients -> Nat]
  /\ filter \in [Clients -> [on : BOOLEAN, ids : SUBSET Nat]]
  /\ dropped \in [Clients -> Nat] /\ reported \in [Clients -> Nat]
  /\ pc \in [Clients -> {"idle", "seq", "copy"}]
  /\ dhead \in [Clients -> Nat] /\ kind \in [Clients -> {"emit", "packed"}]
  /\ count \in [Clients -> Nat] /\ maxent \in [Clients -> Nat]
  /\ got \in [Clients -> [Loads -> Nat \cup {Unread}]]
  /\ opened \in [Clients -> Nat] /\ emitted \in [Clients -> Nat]
  /\ filtered \in [Clients -> Nat] /\ lost \in [Clients -> Nat]
  /\ last \in [Clients -> Entry]

\* What the README promises as torn-read protection: an entry handed to a
\* client has every word from the claim the client's cursor was at.
Intact(e) == e.slot >= 0 => e.hdr = SeqOf(e.slot) /\ e.pay = SeqOf(e.slot)
NoTornDelivery == \A c \in Clients : Intact(last[c])

\* The protection the seq protocol gives: it holds as long as no producer is
\* held up between its fetch_add and its last store for a whole lap of the ring.
NoTornUnlessLapped == ~lapped => NoTornDelivery

\* Every claim a client moved past since it was opened is accounted for exactly
\* once: delivered, filtered, counted in dropped, or lost for want of room.
Balanced(c) == cursor[c] - opened[c] = emitted[c] + filtered[c] + dropped[c] + lost[c]
Accounting == \A c \in Clients : Balanced(c)

\* "Clients detect and report drops": every entry a client passed and did not
\* get is in its dropped count.
NoSilentLoss == \A c \in Clients : lost[c] = 0

\* A client is never ahead of the ring, and what its packets reported never
\* exceeds what it counted.
CursorWithinRing ==
  \A c \in Clients :
     /\ opened[c] <= cursor[c] /\ cursor[c] <= head
     /\ reported[c] <= dropped[c]

\* dropped only counts entries whose slot was claimed again: the ring gives up
\* nothing it still holds.
DropsAreOverwrites ==
  [][\A c \in Clients :
        dropped'[c] > dropped[c] /\ ~lapped => cursor'[c] + Capacity <= head]_vars

\* Two producers never write the same slot at once, unless one is lapped.
ExclusiveSlots ==
  ~lapped => \A p, q \in Producers :
                p # q /\ InFlight(p) /\ InFlight(q) => Index(pslot[p]) # Index(pslot[q])

\* What btelem_client_available promises agrees with what the next drain does:
\* it never offers more than the ring holds, and loses none between the two.
AvailableSound ==
  \A c \in Clients : active[c] =>
     /\ Available(c) <= Capacity
     /\ Available(c) + AvailableDropped(c) = head - cursor[c]

-----------------------------------------------------------------------------
(* Why it holds: the inductive invariant behind the safety properties.     *)

\* Claims are below head, no two producers write the same one, and a claim
\* being written has not been published.
ClaimsInv ==
  /\ \A i \in Slots : seq[i] <= head
  /\ \A p \in Producers : InFlight(p) =>
        /\ pslot[p] < head
        /\ seq[Index(pslot[p])] # SeqOf(pslot[p])
        /\ \A q \in Producers : q # p => pslot[q] # pslot[p]

\* Without a lapped producer: the claims being written are among the last
\* Capacity; a slot whose seq is not 0 holds one entry, that of its seq; each
\* producer finds its stores where it left them; and a published claim keeps
\* its slot until the slot is claimed again.
SlotsInv ==
  /\ \A p \in Producers : InFlight(p) => head <= pslot[p] + Capacity
  /\ \A i \in Slots : seq[i] # 0 => \A w \in Words : data[i][w] = seq[i]
  /\ \A p \in Producers : InFlight(p) =>
        /\ "inv" \in pdone[p] => seq[Index(pslot[p])] = 0
        /\ \A w \in Words : w \in pdone[p] =>
              "inv" \in pdone[p] /\ data[Index(pslot[p])][w] = SeqOf(pslot[p])
  /\ \A s \in 0 .. head - 1 :
        head <= s + Capacity /\ (\A p \in Producers : pslot[p] # s)
           => seq[Index(s)] = SeqOf(s)

\* A drain call is between its cursor and the head it loaded; while it copies
\* a claim, that claim is published.
CallInv(c) ==
  /\ pc[c] # "idle" => active[c] /\ cursor[c] < dhead[c] /\ dhead[c] <= head
  /\ pc[c] # "copy" => got[c] = Empty
  /\ pc[c] = "copy" => \A p \in Producers : pslot[p] # cursor[c]

\* Without a lapped producer: a word that is not from the claim at the cursor
\* was copied after the slot's seq had changed for good, so seq2 tells.
CopyInv(c) ==
  pc[c] = "copy" =>
     LET i == Index(cursor[c])
         t == SeqOf(cursor[c])
     IN /\ \A w \in Words : got[c][w] \in {Unread, t} \/ seq[i] # t
        /\ got[c]["seq2"] = t => \A w \in Words : got[c][w] = t
        /\ got[c]["seq2"] \notin {Unread, t} => cursor[c] + Capacity < head

RingInv ==
  /\ TypeOK /\ CursorWithinRing /\ ClaimsInv
  /\ \A c \in Clients : CallInv(c)
  /\ ~lapped => SlotsInv /\ \A c \in Clients : CopyInv(c) /\ Intact(last[c])

-----------------------------------------------------------------------------
\* A producer that claimed a slot is eventually scheduled until it published;
\* a client keeps calling its drain function and each call runs on.
Fairness ==
  /\ \A p \in Producers :
        WF_vars(Invalidate(p) \/ (\E w \in Words : StoreWord(p, w)) \/ Publish(p))
  /\ \A c \in Clients : WF_vars(Drain(c))

FairSpec == Spec /\ Fairness

CaughtUp(c) == active[c] => cursor[c] = head

\* "Calls emit for each committed entry from the cursor up to the head": once
\* the producers pause, a client that keeps draining catches up with the head.
EventuallyCaughtUp == \A c \in Clients : []<>CaughtUp(c)

-----------------------------------------------------------------------------
\* The system while no producer is held up for a whole lap.
UnlappedSpec == Init /\ [][Next /\ ~lapped']_vars

\* ... and runs on.
UnlappedFairSpec == UnlappedSpec /\ Fairness

\* What the ring promises its clients (LossyLog): a claim is committed once its
\* producer has published it; a torn delivery is no entry of the log.
Committed == {s \in 0 .. head - 1 : \A p \in Producers : pslot[p] # s}
Delivered(c) == IF Intact(last[c]) THEN last[c].slot ELSE -2

Log == INSTANCE LossyLog WITH
         size <- head, committed <- Committed, on <- active, pos <- cursor,
         taken <- emitted, unwanted <- filtered, missed <- dropped,
         latest <- [c \in Clients |-> Delivered(c)]

\* The ring implements the lossy log.
ImplementsLog == Log!Spec
=============================================================================
