---------------------------- MODULE RingProofs ------------------------------
(***************************************************************************)
(* The ring for any number of producers and clients and any capacity: the  *)
(* invariant of types, claims and drain calls, which holds lapped or not,  *)
(* with what follows for cursors, btelem_client_available and the          *)
(* accounting of entries; and, while no producer has been lapped, that the *)
(* seq protocol keeps slots and copies whole and that only overwritten     *)
(* entries are dropped.  Last, the ring implements LossyLog while no       *)
(* producer is lapped and the packet buffers have room for a full ring,    *)
(* and room alone makes every entry a client does not get a counted one.   *)
(***************************************************************************)
EXTENDS BtelemRing, TLAPS

\* The types, and the bounds on the cursors that keep the counters natural.
Typed == TypeOK /\ CursorWithinRing

\* A drain call resumes at or after its cursor and not beyond head.
LEMMA ResumeBounds ==
  ASSUME NEW c \in Clients, Typed
  PROVE /\ Resume(c, head) \in Nat /\ Skipped(c, head) \in Nat
        /\ cursor[c] <= Resume(c, head) /\ Resume(c, head) <= head
        /\ Resume(c, head) = cursor[c] + Skipped(c, head)
        /\ Skipped(c, head) > 0 => Resume(c, head) + Capacity = head
        /\ head - Resume(c, head) <= Capacity
<1>1. head \in Nat /\ cursor[c] \in Nat /\ cursor[c] <= head
  BY Zenon DEF Typed, TypeOK, CursorWithinRing
<1>2. Capacity \in Nat \ {0}
  BY RingAssumption, Zenon
<1>. QED BY <1>1, <1>2 DEF Resume, Skipped, Oldest

\* The end of a drain call reports at most the drops it counted.
LEMMA ReturnTyped ==
  ASSUME NEW c \in Clients, NEW n \in Nat, Typed, Return(c, n),
         dropped' \in [Clients -> Nat], \A d \in Clients : dropped[d] <= dropped'[d]
  PROVE /\ reported' \in [Clients -> Nat]
        /\ \A d \in Clients : reported'[d] <= dropped'[d]
        /\ pc' \in [Clients -> {"idle", "seq", "copy"}]
        /\ got' \in [Clients -> [Loads -> Nat \cup {Unread}]]
        /\ dhead' \in [Clients -> Nat] /\ kind' \in [Clients -> {"emit", "packed"}]
        /\ count' \in [Clients -> Nat] /\ maxent' \in [Clients -> Nat]
<1>. DEFINE field == IF kind[c] = "packed" /\ n > 0 THEN Min2(DropDelta(c), U32Max) ELSE 0
<1>1. field \in Nat /\ reported[c] + field <= dropped'[c]
  <2>1. U32Max \in Nat
    BY RingAssumption, Zenon
  <2>2. reported[c] \in Nat /\ dropped[c] \in Nat /\ dropped'[c] \in Nat
        /\ reported[c] <= dropped[c] /\ dropped[c] <= dropped'[c]
    BY Zenon DEF Typed, TypeOK, CursorWithinRing
  <2>. QED BY <2>1, <2>2 DEF Min2, DropDelta
<1>2. reported' = [reported EXCEPT ![c] = @ + field]
  BY Zenon DEF Return
<1>. HIDE DEF field
<1>3. reported' \in [Clients -> Nat] /\ \A d \in Clients : reported'[d] <= dropped'[d]
  <2>1. reported \in [Clients -> Nat] /\ dropped \in [Clients -> Nat]
        /\ \A d \in Clients : reported[d] <= dropped[d]
    BY Zenon DEF Typed, TypeOK, CursorWithinRing
  <2>. QED BY <1>1, <1>2, <2>1
<1>4. Empty \in [Loads -> Nat \cup {Unread}]
  BY Zenon DEF Empty
<1>. QED BY <1>3, <1>4, Zenon DEF Return, Typed, TypeOK

\* One more turn of the loop, or the end of the call.
LEMMA NextEntryTyped ==
  ASSUME NEW c \in Clients, NEW n \in Nat, Typed, NextEntry(c, n),
         dropped' \in [Clients -> Nat], \A d \in Clients : dropped[d] <= dropped'[d]
  PROVE /\ reported' \in [Clients -> Nat]
        /\ \A d \in Clients : reported'[d] <= dropped'[d]
        /\ pc' \in [Clients -> {"idle", "seq", "copy"}]
        /\ got' \in [Clients -> [Loads -> Nat \cup {Unread}]]
        /\ dhead' \in [Clients -> Nat] /\ kind' \in [Clients -> {"emit", "packed"}]
        /\ count' \in [Clients -> Nat] /\ maxent' \in [Clients -> Nat]
<1>1. CASE Return(c, n)
  BY <1>1, ReturnTyped, Zenon
<1>2. CASE Continue(c, n)
  <2>1. Empty \in [Loads -> Nat \cup {Unread}]
    BY Zenon DEF Empty
  <2>2. reported \in [Clients -> Nat] /\ dropped \in [Clients -> Nat]
        /\ \A d \in Clients : reported[d] <= dropped[d]
    BY Zenon DEF Typed, TypeOK, CursorWithinRing
  <2>3. reported' = reported
    BY <1>2, Zenon DEF Continue
  <2>4. reported' \in [Clients -> Nat] /\ \A d \in Clients : reported'[d] <= dropped'[d]
    BY <2>2, <2>3
  <2>. QED BY <1>2, <2>1, <2>4, Zenon DEF Continue, Typed, TypeOK
<1>. QED BY <1>1, <1>2, Zenon DEF NextEntry

\* No step of a producer breaks a type or moves a client.
LEMMA ProduceTyped ==
  ASSUME Typed, NEW p \in Producers, Produce(p)
  PROVE Typed'
<1>. USE RingAssumption DEF Typed
<1>1. CASE Claim(p)
  <2>1. PICK id \in Ids : ids' = Append(ids, id)
    BY <1>1, Zenon DEF Claim
  <2>2. ids' \in Seq(Ids) /\ Len(ids') = head' /\ head' = head + 1 /\ head' \in Nat
    <3>1. ids \in Seq(Ids) /\ Len(ids) = head /\ head \in Nat /\ head' = head + 1
      BY <1>1, Zenon DEF Claim, TypeOK
    <3>. QED BY <2>1, <3>1
  <2>3. lapped' \in BOOLEAN
    BY <1>1, Zenon DEF Claim, TypeOK
  <2>4. pslot' \in [Producers -> Nat \cup {Idle}] /\ pdone' \in [Producers -> SUBSET Stores]
    BY <1>1, Zenon DEF Claim, TypeOK
  <2>5. TypeOK'
    BY <1>1, <2>2, <2>3, <2>4, Zenon DEF Claim, TypeOK, clientVars, drainVars, histVars
  <2>6. CursorWithinRing'
    <3>1. head \in Nat /\ cursor \in [Clients -> Nat]  BY Zenon DEF TypeOK
    <3>. QED BY <1>1, <2>2, <3>1 DEF Claim, CursorWithinRing, clientVars, histVars
  <2>. QED BY <2>5, <2>6, Zenon
<1>2. CASE Invalidate(p)
  <2>2. seq' \in [Slots -> Nat]
    BY <1>2, Zenon DEF Invalidate, TypeOK
  <2>3. pdone' \in [Producers -> SUBSET Stores]
    BY <1>2, Zenon DEF Invalidate, TypeOK, Stores
  <2>. QED BY <1>2, <2>2, <2>3, Zenon DEF Invalidate, TypeOK, CursorWithinRing, clientVars, drainVars, histVars
<1>3. ASSUME NEW w \in Words, StoreWord(p, w) PROVE Typed'
  <2>1. pslot[p] \in Nat
    BY <1>3, Zenon DEF StoreWord, TypeOK, InFlight
  <2>2. data' \in [Slots -> [Words -> Nat]]
    <3>1. data \in [Slots -> [Words -> Nat]] /\ SeqOf(pslot[p]) \in Nat
      BY <2>1 DEF TypeOK, SeqOf
    <3>. QED BY <1>3, <3>1, Zenon DEF StoreWord
  <2>3. pdone' \in [Producers -> SUBSET Stores]
    BY <1>3, ZenonT(30) DEF StoreWord, TypeOK, Stores
  <2>. QED BY <1>3, <2>2, <2>3, Zenon DEF StoreWord, TypeOK, CursorWithinRing, clientVars, drainVars, histVars
<1>4. CASE Publish(p)
  <2>1. pslot[p] \in Nat
    BY <1>4, Zenon DEF Publish, TypeOK, InFlight
  <2>2. seq' \in [Slots -> Nat]
    <3>1. seq \in [Slots -> Nat] /\ SeqOf(pslot[p]) \in Nat
      BY <2>1 DEF TypeOK, SeqOf
    <3>. QED BY <1>4, <3>1, Zenon DEF Publish
  <2>3. pslot' \in [Producers -> Nat \cup {Idle}]
    BY <1>4, Zenon DEF Publish, TypeOK
  <2>. QED BY <1>4, <2>2, <2>3, Zenon DEF Publish, TypeOK, CursorWithinRing, clientVars, drainVars, histVars
<1>. QED BY <1>1, <1>2, <1>3, <1>4, Zenon DEF Produce

\* Opening, closing and re-filtering a client keep the types.
LEMMA ManageTyped ==
  ASSUME Typed, NEW c \in Clients, Manage(c)
  PROVE Typed'
<1>. USE RingAssumption DEF Typed
<1>1. ASSUME NEW R \in Requests PROVE FilterFor(R) \in [on : BOOLEAN, ids : SUBSET Nat]
  BY <1>1, Zenon DEF FilterFor
<1>2. (\E R \in Requests : filter' = [filter EXCEPT ![c] = FilterFor(R)])
         => filter' \in [Clients -> [on : BOOLEAN, ids : SUBSET Nat]]
  BY <1>1 DEF TypeOK
<1>3. CASE Open(c)
  <2>1. NoEntry \in Entry
    BY DEF NoEntry, Entry
  <2>2. TypeOK'
    BY <1>2, <1>3, <2>1, Zenon DEF Open, TypeOK, prodVars, drainVars
  <2>3. CursorWithinRing'
    <3>1. head \in Nat /\ head' = head
      BY <1>3, Zenon DEF Open, TypeOK, prodVars
    <3>. QED BY <1>3, <3>1 DEF Open, TypeOK, CursorWithinRing
  <2>. QED BY <2>2, <2>3, Zenon
<1>4. CASE Close(c)
  BY <1>4, Zenon DEF Close, TypeOK, CursorWithinRing, prodVars, drainVars, histVars
<1>5. CASE SetFilter(c)
  BY <1>2, <1>5, Zenon DEF SetFilter, TypeOK, CursorWithinRing, prodVars, drainVars, histVars
<1>. QED BY <1>3, <1>4, <1>5, Zenon DEF Manage

\* A step of a drain call keeps the types.
LEMMA DrainTyped ==
  ASSUME Typed, \A d \in Clients : CallInv(d), NEW c \in Clients, Drain(c)
  PROVE Typed'
<1>. USE RingAssumption DEF Typed
<1>0. /\ head \in Nat
      /\ \A d \in Clients : cursor[d] \in Nat /\ opened[d] \in Nat /\ dropped[d] \in Nat /\ reported[d] \in Nat
                            /\ opened[d] <= cursor[d] /\ cursor[d] <= head /\ reported[d] <= dropped[d]
      /\ count[c] \in Nat
  BY Zenon DEF TypeOK, CursorWithinRing
<1>1. ASSUME NEW k \in Kinds, NEW room \in Room(k), DrainStart(c, k, room) PROVE Typed'
  <2>. DEFINE start == Resume(c, head)
              max == Min2(room, head - start)
              skip == Skipped(c, head)
  <2>1. start \in Nat /\ skip \in Nat /\ cursor[c] <= start /\ start <= head
    BY ResumeBounds, Zenon
  <2>2. room \in Nat
    BY <1>1 DEF Room
  <2>3. start < head => max \in Nat
    BY <1>0, <2>1, <2>2 DEF Min2
  <2>4. /\ dropped' = [dropped EXCEPT ![c] = @ + skip]
        /\ cursor' = [cursor EXCEPT ![c] = start]
        /\ UNCHANGED <<got, count, active, filter, reported, prodVars, histVars>>
    BY <1>1, Zenon DEF DrainStart
  <2>5. \/ /\ pc' = [pc EXCEPT ![c] = "seq"] /\ dhead' = [dhead EXCEPT ![c] = head]
           /\ kind' = [kind EXCEPT ![c] = k] /\ maxent' = [maxent EXCEPT ![c] = max]
           /\ start < head
        \/ UNCHANGED <<pc, dhead, kind, maxent>>
    BY <1>1, Zenon DEF DrainStart
  <2>. HIDE DEF start, max, skip
  <2>6. /\ pc' \in [Clients -> {"idle", "seq", "copy"}] /\ dhead' \in [Clients -> Nat]
        /\ kind' \in [Clients -> {"emit", "packed"}] /\ maxent' \in [Clients -> Nat]
    <3>1. /\ k \in {"emit", "packed"} /\ head \in Nat
          /\ pc \in [Clients -> {"idle", "seq", "copy"}] /\ dhead \in [Clients -> Nat]
          /\ kind \in [Clients -> {"emit", "packed"}] /\ maxent \in [Clients -> Nat]
      BY <1>1, Zenon DEF TypeOK
    <3>. QED BY <2>3, <2>5, <3>1
  <2>7. dropped' \in [Clients -> Nat] /\ cursor' \in [Clients -> Nat]
    <3>1. dropped \in [Clients -> Nat] /\ cursor \in [Clients -> Nat]
      BY Zenon DEF TypeOK
    <3>. QED BY <2>1, <2>4, <3>1
  <2>8. TypeOK'
    BY <2>4, <2>6, <2>7, Zenon DEF TypeOK, prodVars, histVars
  <2>9. CursorWithinRing'
    <3>1. dropped \in [Clients -> Nat] /\ cursor \in [Clients -> Nat]
          /\ opened' = opened /\ head' = head /\ reported' = reported
      BY <2>4, Zenon DEF TypeOK, prodVars, histVars
    <3>. QED BY <1>0, <2>1, <2>4, <3>1 DEF CursorWithinRing
  <2>. QED BY <2>8, <2>9, Zenon
<1>2. CASE LoadSeq(c)
  <2>1. UNCHANGED <<active, cursor, filter, dropped, prodVars, histVars>>
    BY <1>2, Zenon DEF LoadSeq
  <2>2. dropped' \in [Clients -> Nat] /\ \A d \in Clients : dropped[d] <= dropped'[d]
    BY <1>0, <2>1 DEF TypeOK
  <2>3. CASE Return(c, count[c])
    <3>1. CursorWithinRing'
      BY <1>0, <2>1, <2>2, <2>3, ReturnTyped, Zenon DEF CursorWithinRing, prodVars, histVars
    <3>. QED BY <1>0, <2>1, <2>2, <2>3, <3>1, ReturnTyped, Zenon DEF TypeOK, prodVars, histVars
  <2>4. CASE /\ pc' = [pc EXCEPT ![c] = "copy"]
             /\ UNCHANGED <<reported, dhead, kind, count, maxent, got>>
    <3>1. CursorWithinRing'
      BY <2>1, <2>4, Zenon DEF CursorWithinRing, prodVars, histVars
    <3>. QED BY <2>1, <2>4, <3>1, Zenon DEF TypeOK, prodVars, histVars
  <2>. QED BY <1>2, <2>3, <2>4, Zenon DEF LoadSeq
<1>3. ASSUME NEW w \in Loads, NEW v \in Nat, got' = [got EXCEPT ![c][w] = v],
             UNCHANGED <<pc, dhead, kind, count, maxent, prodVars, clientVars, histVars>>
      PROVE Typed'
  <2>1. got' \in [Clients -> [Loads -> Nat \cup {Unread}]]
    BY <1>3, Zenon DEF TypeOK
  <2>. QED BY <1>3, <2>1, Zenon DEF TypeOK, CursorWithinRing, prodVars, clientVars, histVars
<1>4. Index(cursor[c]) \in Slots
  BY <1>0 DEF Index, Slots
<1>5. ASSUME NEW w \in Words, LoadWord(c, w) PROVE Typed'
  <2>1. data[Index(cursor[c])][w] \in Nat /\ w \in Loads
    BY <1>4 DEF TypeOK, Loads
  <2>. QED BY <1>3, <1>5, <2>1, Zenon DEF LoadWord
<1>6. CASE LoadSeq2(c)
  <2>1. seq[Index(cursor[c])] \in Nat /\ "seq2" \in Loads
    BY <1>4, Zenon DEF TypeOK, Loads
  <2>. QED BY <1>3, <1>6, <2>1, Zenon DEF LoadSeq2
<1>7. ASSUME CopyDone(c), Advance(c), NEW n \in Nat, NextEntry(c, n) \/ Return(c, n),
             dropped' = dropped \/ dropped' = [dropped EXCEPT ![c] = @ + 1],
             emitted' = emitted \/ emitted' = [emitted EXCEPT ![c] = @ + 1],
             filtered' = filtered \/ filtered' = [filtered EXCEPT ![c] = @ + 1],
             lost' = lost \/ lost' = [lost EXCEPT ![c] = @ + 1],
             last' \in [Clients -> Entry],
             UNCHANGED <<active, filter, opened, prodVars>>
      PROVE Typed'
  <2>1. cursor[c] < head
    <3>1. pc[c] = "copy" /\ dhead[c] \in Nat /\ CallInv(c)
      BY <1>7, Zenon DEF CopyDone, TypeOK
    <3>. QED BY <1>0, <3>1 DEF CallInv
  <2>2. dropped' \in [Clients -> Nat] /\ \A d \in Clients : dropped[d] <= dropped'[d]
    <3>1. dropped \in [Clients -> Nat]  BY Zenon DEF TypeOK
    <3>. QED BY <1>7, <3>1
  <2>3. /\ emitted' \in [Clients -> Nat] /\ filtered' \in [Clients -> Nat]
        /\ lost' \in [Clients -> Nat]
    <3>1. emitted \in [Clients -> Nat] /\ filtered \in [Clients -> Nat] /\ lost \in [Clients -> Nat]
      BY Zenon DEF TypeOK
    <3>. QED BY <1>7, <3>1
  <2>4. cursor' \in [Clients -> Nat] /\ \A d \in Clients : opened'[d] <= cursor'[d] /\ cursor'[d] <= head'
    <3>1. cursor \in [Clients -> Nat] /\ head' = head /\ opened' = opened
      BY <1>7, Zenon DEF TypeOK, prodVars
    <3>. QED BY <1>0, <1>7, <2>1, <3>1 DEF Advance
  <2>5. /\ reported' \in [Clients -> Nat]
        /\ \A d \in Clients : reported'[d] <= dropped'[d]
        /\ pc' \in [Clients -> {"idle", "seq", "copy"}]
        /\ got' \in [Clients -> [Loads -> Nat \cup {Unread}]]
        /\ dhead' \in [Clients -> Nat] /\ kind' \in [Clients -> {"emit", "packed"}]
        /\ count' \in [Clients -> Nat] /\ maxent' \in [Clients -> Nat]
    BY <1>7, <2>2, ReturnTyped, NextEntryTyped, Zenon
  <2>6. TypeOK'
    BY <1>7, <2>2, <2>3, <2>4, <2>5, Zenon DEF TypeOK, prodVars
  <2>7. CursorWithinRing'
    BY <2>4, <2>5, Zenon DEF CursorWithinRing
  <2>. QED BY <2>6, <2>7, Zenon
<1>8. last \in [Clients -> Entry] /\ count[c] + 1 \in Nat
  BY <1>0, SMTT(30) DEF TypeOK
<1>9. CASE DropTorn(c)
  BY <1>0, <1>7, <1>8, <1>9, Zenon DEF DropTorn, histVars
<1>10. CASE SkipFiltered(c)
  BY <1>0, <1>7, <1>8, <1>10, Zenon DEF SkipFiltered
<1>11. CASE NoRoom(c)
  BY <1>0, <1>7, <1>8, <1>11, Zenon DEF NoRoom
<1>12. CASE Deliver(c)
  <2>1. got[c]["hdr"] \in Nat /\ got[c]["pay"] \in Nat
    BY <1>12, SMTT(30) DEF Deliver, CopyDone, TypeOK, Loads, Words
  <2>2. [slot |-> cursor[c], hdr |-> got[c]["hdr"], pay |-> got[c]["pay"]] \in Entry
    BY <1>0, <2>1 DEF Entry
  <2>3. last' \in [Clients -> Entry]
    BY <1>8, <1>12, <2>2, Zenon DEF Deliver
  <2>. QED BY <1>7, <1>8, <1>12, <2>3, Zenon DEF Deliver
<1>. QED BY <1>1, <1>2, <1>5, <1>6, <1>9, <1>10, <1>11, <1>12, Zenon DEF Drain

-----------------------------------------------------------------------------
(* Claims and drain calls *)

\* Claims and drain calls, lapped or not.
Core == Typed /\ ClaimsInv /\ \A c \in Clients : CallInv(c)

\* A step of a producer keeps the claims apart and the drain calls in bounds.
LEMMA ProduceCore ==
  ASSUME Core, NEW p \in Producers, Produce(p)
  PROVE ClaimsInv' /\ \A c \in Clients : CallInv(c)'
<1>. USE RingAssumption DEF Core
<1>1. /\ head \in Nat /\ seq \in [Slots -> Nat]
      /\ pslot \in [Producers -> Nat \cup {Idle}]
      /\ \A c \in Clients : cursor[c] \in Nat /\ cursor[c] <= head /\ dhead[c] \in Nat
  BY Zenon DEF Typed, TypeOK, CursorWithinRing
<1>2. \A s \in Nat : Index(s) \in Slots
  BY DEF Index, Slots
<1>3. UNCHANGED <<clientVars, drainVars>>
  BY Zenon DEF Produce, Claim, Invalidate, StoreWord, Publish
<1>4. ASSUME head' \in Nat, head <= head',
             \A q \in Producers : pslot'[q] \in {pslot[q], Idle, head}
      PROVE \A c \in Clients : CallInv(c)'
  <2>. SUFFICES ASSUME NEW c \in Clients PROVE CallInv(c)'
    BY Zenon
  <2>1. /\ cursor'[c] = cursor[c] /\ pc'[c] = pc[c] /\ active'[c] = active[c]
        /\ dhead'[c] = dhead[c] /\ got'[c] = got[c]
    BY <1>3, Zenon DEF clientVars, drainVars
  <2>2. CallInv(c)  BY Zenon
  <2>3. pc[c] # "idle" => cursor[c] < head
    BY <1>1, <2>2 DEF CallInv
  <2>. QED BY <1>1, <1>4, <2>1, <2>2, <2>3 DEF CallInv, Idle
<1>5. CASE Claim(p)
  <2>1. head' = head + 1 /\ seq' = seq /\ pslot' = [pslot EXCEPT ![p] = head]
    BY <1>5, Zenon DEF Claim
  <2>2. ClaimsInv'
    BY <1>1, <1>2, <2>1 DEF ClaimsInv, InFlight, SeqOf, Idle
  <2>. QED BY <1>1, <1>4, <2>1, <2>2
<1>6. CASE Invalidate(p)
  <2>1. head' = head /\ seq' = [seq EXCEPT ![Index(pslot[p])] = 0] /\ pslot' = pslot
    BY <1>6, Zenon DEF Invalidate
  <2>2. ClaimsInv'
    BY <1>1, <1>2, <2>1 DEF ClaimsInv, InFlight, SeqOf, Idle
  <2>. QED BY <1>1, <1>4, <2>1, <2>2
<1>7. ASSUME NEW w \in Words, StoreWord(p, w)
      PROVE ClaimsInv' /\ \A c \in Clients : CallInv(c)'
  <2>1. head' = head /\ seq' = seq /\ pslot' = pslot
    BY <1>7, Zenon DEF StoreWord
  <2>2. ClaimsInv'
    BY <2>1, Zenon DEF ClaimsInv, InFlight
  <2>. QED BY <1>1, <1>4, <2>1, <2>2
<1>8. CASE Publish(p)
  <2>1. /\ head' = head /\ seq' = [seq EXCEPT ![Index(pslot[p])] = SeqOf(pslot[p])]
        /\ pslot' = [pslot EXCEPT ![p] = Idle] /\ InFlight(p)
    BY <1>8, Zenon DEF Publish
  <2>2. ClaimsInv'
    BY <1>1, <1>2, <2>1 DEF ClaimsInv, InFlight, SeqOf, Idle
  <2>. QED BY <1>1, <1>4, <2>1, <2>2
<1>. QED BY <1>5, <1>6, <1>7, <1>8, Zenon DEF Produce

\* A drain call that goes on is between its cursor and its head.
LEMMA NextEntryCall ==
  ASSUME NEW c \in Clients, NEW n \in Nat, Core, pc[c] # "idle",
         NextEntry(c, n) \/ Return(c, n), Advance(c),
         UNCHANGED <<active, prodVars>>
  PROVE \A d \in Clients : CallInv(d)'
<1>. SUFFICES ASSUME NEW d \in Clients PROVE CallInv(d)'
  BY Zenon
<1>1. cursor \in [Clients -> Nat] /\ CallInv(c) /\ CallInv(d)
      /\ pc \in [Clients -> {"idle", "seq", "copy"}] /\ dhead \in [Clients -> Nat]
      /\ got \in [Clients -> [Loads -> Nat \cup {Unread}]]
  BY Zenon DEF Core, Typed, TypeOK
<1>2. head' = head /\ pslot' = pslot /\ active' = active
  BY Zenon DEF prodVars
<1>3. CASE d # c
  <2>1. cursor'[d] = cursor[d] /\ pc'[d] = pc[d] /\ dhead'[d] = dhead[d] /\ got'[d] = got[d]
    BY <1>1, <1>3, Zenon DEF Advance, NextEntry, Continue, Return
  <2>. QED BY <1>1, <1>2, <2>1, Zenon DEF CallInv
<1>4. CASE d = c
  <2>1. CASE Return(c, n)
    BY <1>1, <1>4, <2>1, Zenon DEF Return, CallInv
  <2>2. CASE Continue(c, n) /\ cursor'[c] < dhead[c]
    <3>1. pc'[c] = "seq" /\ got'[c] = Empty /\ dhead'[c] = dhead[c] /\ active'[c] = active[c]
      BY <1>1, <1>2, <2>2, Zenon DEF Continue
    <3>. QED BY <1>1, <1>2, <1>4, <2>2, <3>1, Zenon DEF CallInv
  <2>. QED BY <2>1, <2>2, Zenon DEF NextEntry
<1>. QED BY <1>3, <1>4, Zenon

\* A step of a client keeps the claims as they are and its call in bounds.
LEMMA ClientCore ==
  ASSUME Core, NEW c \in Clients, Manage(c) \/ Drain(c)
  PROVE ClaimsInv' /\ \A d \in Clients : CallInv(d)'
<1>. USE RingAssumption DEF Core
<1>1. UNCHANGED prodVars
  BY Zenon DEF Manage, Open, Close, SetFilter, Drain, DrainStart, LoadSeq, LoadWord,
         LoadSeq2, DropTorn, SkipFiltered, NoRoom, Deliver
<1>2. ClaimsInv'
  BY <1>1, Zenon DEF ClaimsInv, InFlight, prodVars
<1>. SUFFICES \A d \in Clients : CallInv(d)'
  BY <1>2, Zenon
<1>3. /\ cursor \in [Clients -> Nat] /\ dhead \in [Clients -> Nat] /\ head \in Nat
      /\ pc \in [Clients -> {"idle", "seq", "copy"}] /\ active \in [Clients -> BOOLEAN]
      /\ got \in [Clients -> [Loads -> Nat \cup {Unread}]]
      /\ count[c] \in Nat /\ cursor[c] <= head
  BY Zenon DEF Typed, TypeOK, CursorWithinRing
<1>4. head' = head /\ pslot' = pslot /\ seq' = seq
  BY <1>1, Zenon DEF prodVars
<1>5. ASSUME \A d \in Clients : d # c =>
                /\ cursor'[d] = cursor[d] /\ pc'[d] = pc[d] /\ dhead'[d] = dhead[d]
                /\ got'[d] = got[d] /\ active'[d] = active[d],
             CallInv(c)'
      PROVE \A d \in Clients : CallInv(d)'
  <2>. SUFFICES ASSUME NEW d \in Clients, d # c PROVE CallInv(d)'
    BY <1>5, Zenon
  <2>1. CallInv(d)  BY Zenon
  <2>. QED BY <1>4, <1>5, <2>1, Zenon DEF CallInv
<1>6. CASE Manage(c)
  <2>1. /\ \A d \in Clients : d # c =>
              /\ cursor'[d] = cursor[d] /\ pc'[d] = pc[d] /\ dhead'[d] = dhead[d]
              /\ got'[d] = got[d] /\ active'[d] = active[d]
        /\ pc'[c] = "idle" /\ got'[c] = got[c] /\ pc[c] = "idle"
    BY <1>3, <1>6, Zenon DEF Manage, Open, Close, SetFilter, drainVars
  <2>2. CallInv(c)  BY Zenon
  <2>3. CallInv(c)'
    BY <2>1, <2>2, Zenon DEF CallInv
  <2>. QED BY <1>5, <2>1, <2>3, Zenon
<1>7. ASSUME NEW k \in Kinds, NEW room \in Room(k), DrainStart(c, k, room)
      PROVE \A d \in Clients : CallInv(d)'
  <2>1. /\ \A d \in Clients : d # c =>
              /\ cursor'[d] = cursor[d] /\ pc'[d] = pc[d] /\ dhead'[d] = dhead[d]
              /\ got'[d] = got[d] /\ active'[d] = active[d]
        /\ got' = got /\ active' = active /\ active[c] /\ pc[c] = "idle"
        /\ cursor'[c] = Resume(c, head)
        /\ \/ Resume(c, head) < head /\ pc'[c] = "seq" /\ dhead'[c] = head
           \/ pc'[c] = "idle"
    BY <1>3, <1>7, Zenon DEF DrainStart
  <2>2. CallInv(c)'
    BY <1>3, <1>4, <2>1 DEF CallInv
  <2>. QED BY <1>5, <2>1, <2>2, Zenon
<1>8. CASE LoadSeq(c)
  <2>1. CASE Return(c, count[c])
    <3>1. /\ \A d \in Clients : d # c =>
                /\ cursor'[d] = cursor[d] /\ pc'[d] = pc[d] /\ dhead'[d] = dhead[d]
                /\ got'[d] = got[d] /\ active'[d] = active[d]
          /\ pc'[c] = "idle" /\ got'[c] = Empty
      BY <1>3, <1>8, <2>1, Zenon DEF LoadSeq, Return
    <3>2. CallInv(c)'
      BY <3>1, Zenon DEF CallInv
    <3>. QED BY <1>5, <3>1, <3>2, Zenon
  <2>2. CASE /\ seq[Index(cursor[c])] = SeqOf(cursor[c])
             /\ pc' = [pc EXCEPT ![c] = "copy"]
             /\ UNCHANGED <<reported, dhead, kind, count, maxent, got>>
    <3>1. /\ \A d \in Clients : d # c =>
                /\ cursor'[d] = cursor[d] /\ pc'[d] = pc[d] /\ dhead'[d] = dhead[d]
                /\ got'[d] = got[d] /\ active'[d] = active[d]
          /\ pc'[c] = "copy" /\ cursor' = cursor /\ dhead' = dhead /\ active' = active
          /\ pc[c] = "seq"
      BY <1>3, <1>8, <2>2, Zenon DEF LoadSeq
    <3>2. \A q \in Producers : pslot[q] # cursor[c]
      BY <1>3, <2>2 DEF ClaimsInv, InFlight, Idle
    <3>3. CallInv(c)  BY Zenon
    <3>4. CallInv(c)'
      BY <1>4, <3>1, <3>2, <3>3, Zenon DEF CallInv
    <3>. QED BY <1>5, <3>1, <3>4, Zenon
  <2>. QED BY <1>8, <2>1, <2>2, Zenon DEF LoadSeq
<1>9. ASSUME UNCHANGED <<cursor, pc, dhead, active>>, pc[c] = "copy",
             \A d \in Clients : d # c => got'[d] = got[d]
      PROVE \A d \in Clients : CallInv(d)'
  <2>1. CallInv(c)  BY Zenon
  <2>2. CallInv(c)'
    BY <1>4, <1>9, <2>1, Zenon DEF CallInv
  <2>. QED BY <1>5, <1>9, <2>2, Zenon
<1>10. ASSUME NEW w \in Words, LoadWord(c, w) PROVE \A d \in Clients : CallInv(d)'
  BY <1>3, <1>9, <1>10, Zenon DEF LoadWord, clientVars
<1>11. CASE LoadSeq2(c)
  BY <1>3, <1>9, <1>11, Zenon DEF LoadSeq2, clientVars
<1>12. ASSUME CopyDone(c), Advance(c), UNCHANGED active,
              NEW n \in Nat, NextEntry(c, n) \/ Return(c, n)
       PROVE \A d \in Clients : CallInv(d)'
  BY <1>1, <1>12, NextEntryCall, Zenon DEF CopyDone
<1>13. CASE DropTorn(c)
  <2>1. /\ CopyDone(c) /\ Advance(c) /\ UNCHANGED active
        /\ \E n \in {count[c], count[c] + 1} : NextEntry(c, n) \/ Return(c, n)
    BY <1>13, Zenon DEF DropTorn
  <2>. QED BY <1>3, <1>12, <2>1
<1>14. CASE SkipFiltered(c)
  <2>1. /\ CopyDone(c) /\ Advance(c) /\ UNCHANGED active
        /\ \E n \in {count[c], count[c] + 1} : NextEntry(c, n) \/ Return(c, n)
    BY <1>14, Zenon DEF SkipFiltered
  <2>. QED BY <1>3, <1>12, <2>1
<1>15. CASE NoRoom(c)
  <2>1. /\ CopyDone(c) /\ Advance(c) /\ UNCHANGED active
        /\ \E n \in {count[c], count[c] + 1} : NextEntry(c, n) \/ Return(c, n)
    BY <1>15, Zenon DEF NoRoom
  <2>. QED BY <1>3, <1>12, <2>1
<1>16. CASE Deliver(c)
  <2>1. /\ CopyDone(c) /\ Advance(c) /\ UNCHANGED active
        /\ \E n \in {count[c], count[c] + 1} : NextEntry(c, n) \/ Return(c, n)
    BY <1>16, Zenon DEF Deliver
  <2>. QED BY <1>3, <1>12, <2>1
<1>. QED BY <1>6, <1>7, <1>8, <1>10, <1>11, <1>13, <1>14, <1>15, <1>16, Zenon DEF Drain

\* The core invariant holds of every behaviour of the ring.
THEOREM CoreInvariant == Spec => []Core
<1>1. Init => Core
  <2>. SUFFICES ASSUME Init PROVE Core
    BY Zenon
  <2>1. TypeOK
    <3>1. NoEntry \in Entry /\ Empty \in [Loads -> Nat \cup {Unread}]
          /\ [on |-> FALSE, ids |-> {}] \in [on : BOOLEAN, ids : SUBSET Nat]
      BY DEF NoEntry, Entry, Empty
    <3>2. ids \in Seq(Ids) /\ Len(ids) = head
      BY DEF Init
    <3>3. /\ head \in Nat /\ lapped \in BOOLEAN
          /\ seq \in [Slots -> Nat] /\ data \in [Slots -> [Words -> Nat]]
          /\ pslot \in [Producers -> Nat \cup {Idle}] /\ pdone \in [Producers -> SUBSET Stores]
      BY Zenon DEF Init
    <3>4. /\ active \in [Clients -> BOOLEAN] /\ cursor \in [Clients -> Nat]
          /\ filter \in [Clients -> [on : BOOLEAN, ids : SUBSET Nat]]
          /\ dropped \in [Clients -> Nat] /\ reported \in [Clients -> Nat]
          /\ pc \in [Clients -> {"idle", "seq", "copy"}]
      BY <3>1, Zenon DEF Init
    <3>5. /\ dhead \in [Clients -> Nat] /\ kind \in [Clients -> {"emit", "packed"}]
          /\ count \in [Clients -> Nat] /\ maxent \in [Clients -> Nat]
          /\ got \in [Clients -> [Loads -> Nat \cup {Unread}]]
      BY <3>1, Zenon DEF Init
    <3>6. /\ opened \in [Clients -> Nat] /\ emitted \in [Clients -> Nat]
          /\ filtered \in [Clients -> Nat] /\ lost \in [Clients -> Nat]
          /\ last \in [Clients -> Entry]
      BY <3>1, Zenon DEF Init
    <3>. QED BY <3>2, <3>3, <3>4, <3>5, <3>6, Zenon DEF TypeOK
  <2>2. CursorWithinRing /\ ClaimsInv /\ \A c \in Clients : CallInv(c)
    BY DEF Init, CursorWithinRing, ClaimsInv, CallInv, InFlight
  <2>. QED BY <2>1, <2>2, Zenon DEF Core, Typed
<1>2. Core /\ [Next]_vars => Core'
  <2>. SUFFICES ASSUME Core, [Next]_vars PROVE Core'
    BY Zenon
  <2>1. ASSUME NEW p \in Producers, Produce(p) PROVE Core'
    BY <2>1, ProduceTyped, ProduceCore, Zenon DEF Core
  <2>2. ASSUME NEW c \in Clients, Manage(c) \/ Drain(c) PROVE Core'
    BY <2>2, ManageTyped, DrainTyped, ClientCore, Zenon DEF Core
  <2>3. CASE UNCHANGED vars
    BY <2>3, Zenon DEF vars, prodVars, clientVars, drainVars, histVars, Core, Typed, TypeOK,
                CursorWithinRing, ClaimsInv, CallInv, InFlight
  <2>. QED BY <2>1, <2>2, <2>3, Zenon DEF Next
<1>. QED BY <1>1, <1>2, PTL DEF Spec

\* Type correctness, whatever the number of producers, clients and slots.
THEOREM TypeCorrect == Spec => []TypeOK
<1>1. Core => TypeOK
  BY Zenon DEF Core, Typed
<1>. QED BY <1>1, CoreInvariant, PTL

\* No client is ever ahead of the ring, and its packets never report more
\* drops than it counted.
THEOREM CursorsInRange == Spec => []CursorWithinRing
<1>1. Core => CursorWithinRing
  BY Zenon DEF Core, Typed
<1>. QED BY <1>1, CoreInvariant, PTL

\* btelem_client_available never offers more than the ring holds.
THEOREM AvailableIsSound == Spec => []AvailableSound
<1>1. Core => AvailableSound
  <2>. SUFFICES ASSUME Core, NEW c \in Clients
                PROVE /\ Available(c) <= Capacity
                      /\ Available(c) + AvailableDropped(c) = head - cursor[c]
    BY Zenon DEF AvailableSound
  <2>1. head \in Nat /\ cursor[c] \in Nat
    BY Zenon DEF Core, Typed, TypeOK
  <2>. QED BY <2>1, ResumeBounds DEF Core, Available, AvailableDropped
<1>. QED BY <1>1, CoreInvariant, PTL

-----------------------------------------------------------------------------
\* Every claim a client passes is counted once: delivered, filtered, dropped or
\* lost for want of room.
THEOREM EveryEntryAccounted == Spec => []Accounting
<1>1. Init => Accounting
  BY DEF Init, Accounting, Balanced
<1>2. Core /\ Accounting /\ [Next]_vars => Accounting'
  <2>. SUFFICES ASSUME Core, Accounting, [Next]_vars, NEW d \in Clients
                PROVE Balanced(d)'
    BY Zenon DEF Accounting
  <2>. DEFINE counters == <<cursor, opened, emitted, filtered, dropped, lost>>
  <2>0. /\ cursor \in [Clients -> Nat] /\ opened \in [Clients -> Nat]
        /\ emitted \in [Clients -> Nat] /\ filtered \in [Clients -> Nat]
        /\ dropped \in [Clients -> Nat] /\ lost \in [Clients -> Nat]
        /\ head \in Nat
    BY Zenon DEF Core, Typed, TypeOK
  <2>1. Balanced(d)
    BY Zenon DEF Accounting
  <2>2. ASSUME UNCHANGED counters PROVE Balanced(d)'
    BY <2>1, <2>2, Zenon DEF Balanced
  <2>3. ASSUME NEW p \in Producers, Produce(p) PROVE UNCHANGED counters
    BY <2>3, Zenon DEF Produce, Claim, Invalidate, StoreWord, Publish, clientVars, histVars
  <2>4. ASSUME NEW c \in Clients, Open(c) PROVE Balanced(d)'
    <3>1. d # c => /\ cursor'[d] = cursor[d] /\ opened'[d] = opened[d]
                   /\ emitted'[d] = emitted[d] /\ filtered'[d] = filtered[d]
                   /\ dropped'[d] = dropped[d] /\ lost'[d] = lost[d]
      BY <2>0, <2>4, Zenon DEF Open
    <3>2. d = c => /\ cursor'[d] = head /\ opened'[d] = head
                   /\ emitted'[d] = 0 /\ filtered'[d] = 0
                   /\ dropped'[d] = 0 /\ lost'[d] = 0
      BY <2>0, <2>4, Zenon DEF Open
    <3>. QED BY <2>0, <2>1, <3>1, <3>2 DEF Balanced
  <2>5. ASSUME NEW c \in Clients, Close(c) \/ SetFilter(c) PROVE UNCHANGED counters
    BY <2>5, Zenon DEF Close, SetFilter, histVars
  <2>6. ASSUME NEW c \in Clients, NEW k \in Kinds, NEW room \in Room(k), DrainStart(c, k, room)
        PROVE Balanced(d)'
    <3>1. /\ dropped' = [dropped EXCEPT ![c] = @ + Skipped(c, head)]
          /\ cursor' = [cursor EXCEPT ![c] = Resume(c, head)]
          /\ UNCHANGED <<opened, emitted, filtered, lost>>
      BY <2>6, Zenon DEF DrainStart, histVars
    <3>2. Skipped(c, head) \in Nat /\ Resume(c, head) = cursor[c] + Skipped(c, head)
      BY ResumeBounds, Zenon DEF Core
    <3>. QED BY <2>0, <2>1, <3>1, <3>2 DEF Balanced
  <2>7. ASSUME NEW c \in Clients, NEW w \in Words, LoadSeq(c) \/ LoadWord(c, w) \/ LoadSeq2(c)
        PROVE UNCHANGED counters
    BY <2>7, Zenon DEF LoadSeq, LoadWord, LoadSeq2, clientVars, histVars
  <2>8. ASSUME NEW c \in Clients, Advance(c), opened' = opened,
               \/ /\ dropped' = [dropped EXCEPT ![c] = @ + 1]
                  /\ UNCHANGED <<emitted, filtered, lost>>
               \/ /\ emitted' = [emitted EXCEPT ![c] = @ + 1]
                  /\ UNCHANGED <<dropped, filtered, lost>>
               \/ /\ filtered' = [filtered EXCEPT ![c] = @ + 1]
                  /\ UNCHANGED <<dropped, emitted, lost>>
               \/ /\ lost' = [lost EXCEPT ![c] = @ + 1]
                  /\ UNCHANGED <<dropped, emitted, filtered>>
        PROVE Balanced(d)'
    BY <2>0, <2>1, <2>8 DEF Advance, Balanced
  <2>9. ASSUME NEW c \in Clients, DropTorn(c) \/ SkipFiltered(c) \/ NoRoom(c) \/ Deliver(c)
        PROVE Balanced(d)'
    BY <2>8, <2>9, Zenon DEF DropTorn, SkipFiltered, NoRoom, Deliver, histVars
  <2>10. CASE UNCHANGED vars
    BY <2>2, <2>10, Zenon DEF vars, clientVars, histVars
  <2>11. ASSUME NEW c \in Clients, Manage(c) PROVE Balanced(d)'
    BY <2>2, <2>4, <2>5, <2>11, Zenon DEF Manage
  <2>12. ASSUME NEW c \in Clients, Drain(c) PROVE Balanced(d)'
    BY <2>2, <2>6, <2>7, <2>9, <2>12, Zenon DEF Drain, Words
  <2>. QED BY <2>2, <2>3, <2>10, <2>11, <2>12, Zenon DEF Next
<1>. QED BY <1>1, <1>2, CoreInvariant, PTL DEF Spec

-----------------------------------------------------------------------------
(* Slots and copies, while no producer is lapped *)

\* Two claims less than a lap apart are in different slots of the ring.
LEMMA ModDistinct ==
  ASSUME NEW C \in Nat \ {0}, NEW a \in Nat, NEW b \in Nat, a < b, b < a + C
  PROVE a % C # b % C
<1>. DEFINE qa == a \div C
            qb == b \div C
<1>1. /\ a = C * qa + (a % C) /\ b = C * qb + (b % C)
      /\ qa \in Int /\ qb \in Int /\ a % C \in 0 .. C - 1 /\ b % C \in 0 .. C - 1
  OBVIOUS
<1>2. ASSUME a % C = b % C PROVE FALSE
  <2>1. b - a = C * (qb - qa)  BY <1>1, <1>2
  <2> DEFINE k == qb - qa
  <2>2. k \in Int /\ b - a = C * k  BY <2>1, <1>1
  <2> HIDE DEF k
  <2>3. k <= 0 => C * k <= 0  BY <2>2
  <2>4. k >= 1 => C * k >= C  BY <2>2
  <2>. QED BY <2>2, <2>3, <2>4
<1>. QED BY <1>2, Zenon

\* What the ring's contents satisfy while no producer has been lapped.
Contents == SlotsInv /\ \A c \in Clients : CopyInv(c) /\ Intact(last[c])

\* Two claims among the last Capacity are in different slots.
LEMMA WindowDistinct ==
  ASSUME head \in Nat, NEW a \in Nat, NEW b \in Nat, a # b, a < head, b < head,
         head <= a + Capacity, head <= b + Capacity
  PROVE Index(a) # Index(b)
<1>1. Capacity \in Nat \ {0}
  BY RingAssumption, Zenon
<1>2. CASE a < b
  <2>1. b < a + Capacity
    BY <1>1, <1>2
  <2>2. a % Capacity # b % Capacity
    BY <1>1, <1>2, <2>1, ModDistinct, Zenon
  <2>. QED BY <2>2, Zenon DEF Index
<1>3. CASE b < a
  <2>1. a < b + Capacity
    BY <1>1, <1>3
  <2>2. b % Capacity # a % Capacity
    BY <1>1, <1>3, <2>1, ModDistinct, Zenon
  <2>. QED BY <2>2, Zenon DEF Index
<1>. QED BY <1>2, <1>3

\* A step of a producer that laps nobody keeps the contents of the slots.
LEMMA ProduceSlots ==
  ASSUME Core, SlotsInv, Ordered, NEW p \in Producers, Produce(p), ~lapped'
  PROVE SlotsInv'
<1>. DEFINE Window == \A q \in Producers : InFlight(q) => head <= pslot[q] + Capacity
            Whole == \A i \in Slots : seq[i] # 0 => \A w \in Words : data[i][w] = seq[i]
            Written(q) ==
               InFlight(q) =>
                 /\ "inv" \in pdone[q] => seq[Index(pslot[q])] = 0
                 /\ \A w \in Words : w \in pdone[q] =>
                       "inv" \in pdone[q] /\ data[Index(pslot[q])][w] = SeqOf(pslot[q])
            Kept == \A s \in 0 .. head - 1 :
                      head <= s + Capacity /\ (\A q \in Producers : pslot[q] # s)
                         => seq[Index(s)] = SeqOf(s)
<1>1. SlotsInv => Window /\ Whole /\ (\A q \in Producers : Written(q)) /\ Kept
  BY Zenon DEF SlotsInv
<1>2. Window' /\ Whole' /\ (\A q \in Producers : Written(q)') /\ Kept' => SlotsInv'
  BY Zenon DEF SlotsInv
<1>3. /\ head \in Nat /\ seq \in [Slots -> Nat] /\ data \in [Slots -> [Words -> Nat]]
      /\ pslot \in [Producers -> Nat \cup {Idle}] /\ pdone \in [Producers -> SUBSET Stores]
      /\ Capacity \in Nat \ {0}
  BY RingAssumption, Zenon DEF Core, Typed, TypeOK
<1>4. \A s \in Nat : Index(s) \in Slots /\ SeqOf(s) \in Nat \ {0}
  BY <1>3 DEF Index, Slots, SeqOf
<1>5. \A q \in Producers : InFlight(q) =>
         /\ pslot[q] \in Nat /\ pslot[q] < head
         /\ \A r \in Producers : r # q => pslot[r] # pslot[q]
  BY <1>3, Zenon DEF Core, ClaimsInv, InFlight
<1>6. \A q, r \in Producers : q # r /\ InFlight(q) /\ InFlight(r)
         => Index(pslot[q]) # Index(pslot[r])
  <2>. SUFFICES ASSUME NEW q \in Producers, NEW r \in Producers, q # r, InFlight(q), InFlight(r)
                PROVE Index(pslot[q]) # Index(pslot[r])
    BY Zenon
  <2>1. /\ pslot[q] \in Nat /\ pslot[q] < head /\ head <= pslot[q] + Capacity
        /\ pslot[r] \in Nat /\ pslot[r] < head /\ head <= pslot[r] + Capacity
        /\ pslot[q] # pslot[r]
    BY <1>1, <1>5, Zenon
  <2>. QED BY <1>3, <2>1, WindowDistinct, Zenon
<1>7. \A q \in Producers, s \in 0 .. head - 1 :
         InFlight(q) /\ head <= s + Capacity /\ pslot[q] # s => Index(pslot[q]) # Index(s)
  <2>. SUFFICES ASSUME NEW q \in Producers, NEW s \in 0 .. head - 1, InFlight(q),
                       head <= s + Capacity, pslot[q] # s
                PROVE Index(pslot[q]) # Index(s)
    BY Zenon
  <2>1. /\ pslot[q] \in Nat /\ pslot[q] < head /\ head <= pslot[q] + Capacity
        /\ s \in Nat /\ s < head
    BY <1>1, <1>3, <1>5
  <2>. QED BY <1>3, <2>1, WindowDistinct, Zenon
<1>8. CASE Claim(p)
  <2>1. /\ head' = head + 1 /\ pslot' = [pslot EXCEPT ![p] = head]
        /\ pdone' = [pdone EXCEPT ![p] = {}] /\ seq' = seq /\ data' = data
        /\ ~InFlight(p)
        /\ \A q \in Producers : InFlight(q) => ~(pslot[q] + Capacity <= head)
    BY <1>8, Zenon DEF Claim
  <2>2. Window'
    BY <1>3, <1>5, <2>1 DEF InFlight
  <2>3. Whole'
    BY <1>1, <2>1, Zenon
  <2>4. \A q \in Producers : Written(q)'
    BY <1>1, <1>3, <2>1, Zenon DEF InFlight
  <2>5. Kept'
    BY <1>1, <1>3, <2>1 DEF InFlight, Idle
  <2>. QED BY <1>2, <2>2, <2>3, <2>4, <2>5, Zenon
<1>9. CASE Invalidate(p)
  <2>1. /\ seq' = [seq EXCEPT ![Index(pslot[p])] = 0] /\ InFlight(p)
        /\ pdone' = [pdone EXCEPT ![p] = @ \cup {"inv"}]
        /\ head' = head /\ data' = data /\ pslot' = pslot
        /\ "inv" \notin pdone[p]
    BY <1>9, Zenon DEF Invalidate
  <2>2. Window'
    BY <1>1, <2>1, Zenon DEF InFlight
  <2>3. Whole'
    BY <1>1, <1>3, <1>4, <1>5, <2>1, Zenon
  <2>4. ASSUME NEW q \in Producers PROVE Written(q)'
    <3>1. CASE q = p
      BY <1>1, <1>3, <1>4, <1>5, <2>1, <3>1, Zenon DEF InFlight, Words
    <3>2. CASE q # p
      BY <1>1, <1>3, <1>4, <1>5, <1>6, <2>1, <3>2, Zenon DEF InFlight
    <3>. QED BY <3>1, <3>2, Zenon
  <2>5. Kept'
    BY <1>1, <1>3, <1>4, <1>5, <1>7, <2>1
  <2>. QED BY <1>2, <2>2, <2>3, <2>4, <2>5, Zenon
<1>10. ASSUME NEW w \in Words, StoreWord(p, w) PROVE SlotsInv'
  <2>1. /\ data' = [data EXCEPT ![Index(pslot[p])][w] = SeqOf(pslot[p])]
        /\ pdone' = [pdone EXCEPT ![p] = @ \cup {w}] /\ InFlight(p)
        /\ head' = head /\ seq' = seq /\ pslot' = pslot /\ "inv" \in pdone[p]
    BY <1>10, Zenon DEF StoreWord
  <2>2. Window'
    BY <1>1, <2>1, Zenon DEF InFlight
  <2>3. seq[Index(pslot[p])] = 0
    BY <1>1, <2>1, Zenon
  <2>4. Whole'
    BY <1>1, <1>3, <1>4, <1>5, <2>1, <2>3, ZenonT(30)
  <2>5. ASSUME NEW q \in Producers PROVE Written(q)'
    <3>1. CASE q = p
      BY <1>1, <1>3, <1>4, <1>5, <2>1, <3>1, ZenonT(30) DEF InFlight
    <3>2. CASE q # p
      BY <1>1, <1>3, <1>4, <1>5, <1>6, <2>1, <3>2, Zenon DEF InFlight
    <3>. QED BY <3>1, <3>2, Zenon
  <2>6. Kept'
    BY <1>1, <2>1, Zenon
  <2>. QED BY <1>2, <2>2, <2>4, <2>5, <2>6, Zenon
<1>11. CASE Publish(p)
  <2>1. /\ seq' = [seq EXCEPT ![Index(pslot[p])] = SeqOf(pslot[p])] /\ InFlight(p)
        /\ pslot' = [pslot EXCEPT ![p] = Idle] /\ pdone[p] = Stores
        /\ head' = head /\ data' = data /\ pdone' = pdone
    BY <1>11, Zenon DEF Publish
  <2>2. Window'
    BY <1>1, <1>3, <2>1, Zenon DEF InFlight
  <2>3. \A w \in Words : data[Index(pslot[p])][w] = SeqOf(pslot[p])
    BY <1>1, <2>1, Zenon DEF Stores
  <2>4. Whole'
    BY <1>1, <1>3, <1>4, <1>5, <2>1, <2>3, Zenon
  <2>5. ASSUME NEW q \in Producers PROVE Written(q)'
    <3>1. CASE q = p
      BY <1>3, <2>1, <3>1, Zenon DEF InFlight
    <3>2. CASE q # p
      BY <1>1, <1>3, <1>4, <1>5, <1>6, <2>1, <3>2 DEF InFlight
    <3>. QED BY <3>1, <3>2, Zenon
  <2>6. Kept'
    <3>. SUFFICES ASSUME NEW s \in 0 .. head - 1, head <= s + Capacity,
                         \A q \in Producers : pslot'[q] # s
                  PROVE seq'[Index(s)] = SeqOf(s)
      BY <2>1, Zenon
    <3>1. CASE s = pslot[p]
      BY <1>3, <1>4, <1>5, <2>1, <3>1, Zenon
    <3>2. CASE s # pslot[p]
      <4>1. \A q \in Producers : pslot[q] # s
        BY <1>3, <2>1, <3>2, Zenon
      <4>2. Index(pslot[p]) # Index(s)
        BY <1>7, <2>1, <3>2, Zenon
      <4>. QED BY <1>1, <1>3, <1>4, <1>5, <2>1, <4>1, <4>2
    <3>. QED BY <3>1, <3>2, Zenon
  <2>. QED BY <1>2, <2>2, <2>4, <2>5, <2>6, Zenon
<1>. QED BY <1>8, <1>9, <1>10, <1>11, Zenon DEF Produce

\* A step of a producer leaves what a drain call has copied recognisable.
LEMMA ProduceCopy ==
  ASSUME Core, \A c \in Clients : CopyInv(c) /\ Intact(last[c]), NEW p \in Producers, Produce(p)
  PROVE \A c \in Clients : CopyInv(c)' /\ Intact(last'[c])
<1>. SUFFICES ASSUME NEW c \in Clients PROVE CopyInv(c)' /\ Intact(last'[c])
  BY Zenon
<1>1. UNCHANGED <<clientVars, drainVars, histVars>>
  BY Zenon DEF Produce, Claim, Invalidate, StoreWord, Publish
<1>2. Intact(last'[c])
  BY <1>1, Zenon DEF histVars
<1>3. /\ head \in Nat /\ seq \in [Slots -> Nat] /\ pslot \in [Producers -> Nat \cup {Idle}]
      /\ cursor[c] \in Nat /\ Capacity \in Nat \ {0}
  BY RingAssumption, Zenon DEF Core, Typed, TypeOK
<1>4. \A s \in Nat : Index(s) \in Slots
  BY <1>3 DEF Index, Slots
<1>5. cursor' = cursor /\ pc' = pc /\ got' = got
  BY <1>1, Zenon DEF clientVars, drainVars
<1>6. CopyInv(c) /\ CallInv(c)
  BY Zenon DEF Core
<1>7. head' \in Nat /\ head <= head'
  BY <1>3 DEF Produce, Claim, Invalidate, StoreWord, Publish
<1>8. ASSUME pc[c] = "copy", seq'[Index(cursor[c])] = SeqOf(cursor[c])
      PROVE seq[Index(cursor[c])] = SeqOf(cursor[c])
  <2>1. pslot[p] # cursor[c]
    BY <1>6, <1>8, Zenon DEF CallInv
  <2>2. CASE seq' = seq
    BY <1>8, <2>2, Zenon
  <2>3. CASE InFlight(p) /\ seq' = [seq EXCEPT ![Index(pslot[p])] = 0]
    BY <1>3, <1>4, <1>8, <2>3 DEF InFlight, SeqOf
  <2>4. CASE InFlight(p) /\ seq' = [seq EXCEPT ![Index(pslot[p])] = SeqOf(pslot[p])]
    BY <1>3, <1>4, <1>8, <2>1, <2>4 DEF InFlight, SeqOf
  <2>. QED BY <2>2, <2>3, <2>4, Zenon DEF Produce, Claim, Invalidate, StoreWord, Publish
<1>9. CopyInv(c)'
  BY <1>3, <1>5, <1>6, <1>7, <1>8 DEF CopyInv
<1>. QED BY <1>2, <1>9, Zenon

-----------------------------------------------------------------------------
(* Copies and deliveries *)

\* A step of a client copies, checks and delivers no torn entry.
LEMMA ClientContents ==
  ASSUME Core, Contents, Ordered, NEW c \in Clients, Manage(c) \/ Drain(c)
  PROVE Contents'
<1>1. UNCHANGED prodVars
  BY Zenon DEF Manage, Open, Close, SetFilter, Drain, DrainStart, LoadSeq, LoadWord,
         LoadSeq2, DropTorn, SkipFiltered, NoRoom, Deliver
<1>2. SlotsInv'
  BY <1>1, Zenon DEF Contents, SlotsInv, InFlight, prodVars
<1>3. head' = head /\ seq' = seq
  BY <1>1, Zenon DEF prodVars
<1>4. /\ cursor \in [Clients -> Nat] /\ pc \in [Clients -> {"idle", "seq", "copy"}]
      /\ got \in [Clients -> [Loads -> Nat \cup {Unread}]] /\ last \in [Clients -> Entry]
      /\ head \in Nat /\ seq \in [Slots -> Nat] /\ Capacity \in Nat \ {0}
      /\ \A d \in Clients : CallInv(d) /\ CopyInv(d) /\ Intact(last[d])
  BY RingAssumption, Zenon DEF Core, Typed, TypeOK, Contents
<1>5. Index(cursor[c]) \in Slots /\ SeqOf(cursor[c]) \in Nat \ {0}
  BY <1>4 DEF Index, Slots, SeqOf
<1>6. ASSUME \A d \in Clients : d # c =>
                cursor'[d] = cursor[d] /\ pc'[d] = pc[d] /\ got'[d] = got[d] /\ last'[d] = last[d],
             CopyInv(c)', Intact(last'[c])
      PROVE Contents'
  <2>. SUFFICES ASSUME NEW d \in Clients, d # c PROVE CopyInv(d)' /\ Intact(last'[d])
    BY <1>2, <1>6, Zenon DEF Contents
  <2>1. CopyInv(d) /\ Intact(last[d])
    BY <1>4, Zenon
  <2>2. Intact(last'[d])
    BY <1>6, <2>1, Zenon
  <2>3. CopyInv(d)'
    BY <1>3, <1>6, <2>1, Zenon DEF CopyInv
  <2>. QED BY <2>2, <2>3, Zenon
<1>7. CASE Manage(c)
  <2>1. /\ \A d \in Clients : d # c =>
              cursor'[d] = cursor[d] /\ pc'[d] = pc[d] /\ got'[d] = got[d] /\ last'[d] = last[d]
        /\ pc'[c] = "idle" /\ last'[c] \in {last[c], NoEntry}
    BY <1>4, <1>7, Zenon DEF Manage, Open, Close, SetFilter, drainVars, histVars
  <2>2. CopyInv(c)'
    BY <2>1, Zenon DEF CopyInv
  <2>3. Intact(NoEntry)
    BY DEF Intact, NoEntry
  <2>4. Intact(last'[c])
    BY <1>4, <2>1, <2>3, Zenon
  <2>. QED BY <1>6, <2>1, <2>2, <2>4, Zenon
<1>8. ASSUME NEW k \in Kinds, NEW room \in Room(k), DrainStart(c, k, room) PROVE Contents'
  <2>1. /\ \A d \in Clients : d # c =>
              cursor'[d] = cursor[d] /\ pc'[d] = pc[d] /\ got'[d] = got[d] /\ last'[d] = last[d]
        /\ pc'[c] \in {"idle", "seq"} /\ last'[c] = last[c]
    BY <1>4, <1>8, Zenon DEF DrainStart, histVars
  <2>2. CopyInv(c)' /\ Intact(last'[c])
    BY <1>4, <2>1, Zenon DEF CopyInv
  <2>. QED BY <1>6, <2>1, <2>2, Zenon
<1>9. CASE LoadSeq(c)
  <2>1. /\ \A d \in Clients : d # c =>
              cursor'[d] = cursor[d] /\ pc'[d] = pc[d] /\ got'[d] = got[d] /\ last'[d] = last[d]
        /\ last'[c] = last[c] /\ cursor'[c] = cursor[c]
        /\ pc'[c] = "idle" \/ (pc[c] = "seq" /\ got'[c] = got[c])
    BY <1>4, <1>9, Zenon DEF LoadSeq, Return, histVars
  <2>2. pc[c] = "seq" => got[c] = Empty
    BY <1>4, Zenon DEF CallInv
  <2>3. CopyInv(c)'
    <3>1. \A l \in Loads : Empty[l] = Unread
      BY Zenon DEF Empty
    <3>2. Words \subseteq Loads /\ "seq2" \in Loads
      BY Zenon DEF Loads, Words
    <3>3. SeqOf(cursor[c]) # Unread
      BY <1>5 DEF Unread
    <3>. QED BY <2>1, <2>2, <3>1, <3>2, <3>3, Zenon DEF CopyInv
  <2>4. Intact(last'[c])
    BY <1>4, <2>1, Zenon
  <2>. QED BY <1>6, <2>1, <2>3, <2>4, Zenon
<1>10. ASSUME NEW w \in Words, LoadWord(c, w) PROVE Contents'
  <2>1. /\ \A d \in Clients : d # c =>
              cursor'[d] = cursor[d] /\ pc'[d] = pc[d] /\ got'[d] = got[d] /\ last'[d] = last[d]
        /\ last'[c] = last[c] /\ cursor'[c] = cursor[c] /\ pc'[c] = "copy" /\ pc[c] = "copy"
        /\ got'[c] = [got[c] EXCEPT ![w] = data[Index(cursor[c])][w]] /\ got[c][w] = Unread
    BY <1>4, <1>10, Zenon DEF LoadWord, clientVars, histVars
  <2>2. seq[Index(cursor[c])] = SeqOf(cursor[c]) => data[Index(cursor[c])][w] = SeqOf(cursor[c])
    BY <1>5, Zenon DEF Contents, SlotsInv
  <2>3. CopyInv(c)
    BY <1>4, Zenon
  <2>4. got[c] \in [Loads -> Nat \cup {Unread}] /\ w \in Loads /\ w # "seq2" /\ Words \subseteq Loads
        /\ "seq2" \in Loads
    BY <1>4, Zenon DEF Loads, Words
  <2>5. got[c]["seq2"] # SeqOf(cursor[c])
    BY <1>5, <2>1, <2>3 DEF CopyInv, Unread
  <2>6. CopyInv(c)'
    BY <1>3, <2>1, <2>2, <2>3, <2>4, <2>5, Zenon DEF CopyInv
  <2>7. Intact(last'[c])
    BY <1>4, <2>1, Zenon
  <2>. QED BY <1>6, <2>1, <2>6, <2>7, Zenon
<1>11. CASE LoadSeq2(c)
  <2>1. /\ \A d \in Clients : d # c =>
              cursor'[d] = cursor[d] /\ pc'[d] = pc[d] /\ got'[d] = got[d] /\ last'[d] = last[d]
        /\ last'[c] = last[c] /\ cursor'[c] = cursor[c] /\ pc'[c] = "copy" /\ pc[c] = "copy"
        /\ got'[c] = [got[c] EXCEPT !["seq2"] = seq[Index(cursor[c])]]
        /\ \A w \in Words : got[c][w] # Unread
    BY <1>4, <1>11, Zenon DEF LoadSeq2, clientVars, histVars
  <2>2. got[c] \in [Loads -> Nat \cup {Unread}] /\ "seq2" \in Loads /\ "seq2" \notin Words
        /\ Words \subseteq Loads
    BY <1>4, Zenon DEF Loads, Words
  <2>3. CopyInv(c) /\ CallInv(c)
    BY <1>4, Zenon
  <2>4. seq[Index(cursor[c])] # SeqOf(cursor[c]) => cursor[c] + Capacity < head
    <3>1. cursor[c] \in 0 .. head - 1 /\ \A q \in Producers : pslot[q] # cursor[c]
      <4>1. dhead[c] \in Nat
        BY Zenon DEF Core, Typed, TypeOK
      <4>. QED BY <1>4, <2>1, <2>3, <4>1, SMTT(30) DEF CallInv
    <3>2. head <= cursor[c] + Capacity => seq[Index(cursor[c])] = SeqOf(cursor[c])
      BY <3>1, Zenon DEF Contents, SlotsInv
    <3>. QED BY <1>4, <3>2
  <2>5. CopyInv(c)'
    BY <1>3, <2>1, <2>2, <2>3, <2>4, Zenon DEF CopyInv
  <2>6. Intact(last'[c])
    BY <1>4, <2>1, Zenon
  <2>. QED BY <1>6, <2>1, <2>5, <2>6, Zenon
<1>12. ASSUME Advance(c), NEW n, NextEntry(c, n) \/ Return(c, n),
              last' = last \/ Deliver(c)
       PROVE Contents'
  <2>1. /\ \A d \in Clients : d # c =>
              cursor'[d] = cursor[d] /\ pc'[d] = pc[d] /\ got'[d] = got[d] /\ last'[d] = last[d]
        /\ pc'[c] # "copy"
    BY <1>4, <1>12, Zenon DEF Advance, NextEntry, Continue, Return, Deliver
  <2>2. CopyInv(c)'
    BY <2>1, Zenon DEF CopyInv
  <2>3. CASE Deliver(c)
    <3>1. last'[c] = [slot |-> cursor[c], hdr |-> got[c]["hdr"], pay |-> got[c]["pay"]]
      BY <1>4, <2>3, Zenon DEF Deliver
    <3>2. \A w \in Words : got[c][w] = SeqOf(cursor[c])
      BY <1>4, <2>3, Zenon DEF Deliver, CopyDone, SeqHeld, CopyInv
    <3>3. Intact(last'[c])
      BY <3>1, <3>2 DEF Intact, Words
    <3>. QED BY <1>6, <2>1, <2>2, <3>3, Zenon
  <2>4. CASE last' = last
    BY <1>4, <1>6, <2>1, <2>2, <2>4, Zenon
  <2>. QED BY <1>12, <2>3, <2>4, Zenon
<1>13. CASE DropTorn(c)
  BY <1>12, <1>13, Zenon DEF DropTorn, histVars
<1>14. CASE SkipFiltered(c)
  BY <1>12, <1>14, Zenon DEF SkipFiltered
<1>15. CASE NoRoom(c)
  BY <1>12, <1>15, Zenon DEF NoRoom
<1>16. CASE Deliver(c)
  BY <1>12, <1>16, Zenon DEF Deliver
<1>. QED BY <1>7, <1>8, <1>9, <1>10, <1>11, <1>13, <1>14, <1>15, <1>16, Zenon DEF Drain

\* The contents of the ring, and of what is delivered from it, in every state
\* reached without lapping a producer.
THEOREM ContentsInvariant ==
  ASSUME Ordered
  PROVE Spec => [](lapped \/ Contents)
<1>1. Init => Contents
  BY DEF Init, Contents, SlotsInv, CopyInv, Intact, NoEntry, InFlight
<1>2. Core /\ (lapped \/ Contents) /\ [Next]_vars => (lapped \/ Contents)'
  <2>. SUFFICES ASSUME Core, lapped \/ Contents, [Next]_vars, ~lapped' PROVE Contents'
    BY Zenon
  <2>1. ~lapped /\ Contents
    <3>1. ASSUME NEW p \in Producers, Claim(p) PROVE lapped => lapped'
      BY <3>1, Zenon DEF Claim
    <3>2. ASSUME NEW p \in Producers, Produce(p) PROVE lapped => lapped'
      BY <3>1, <3>2, Zenon DEF Produce, Invalidate, StoreWord, Publish
    <3>3. ASSUME NEW c \in Clients, Manage(c) \/ Drain(c) PROVE UNCHANGED prodVars
      BY <3>3, Zenon DEF Manage, Open, Close, SetFilter, Drain, DrainStart, LoadSeq, LoadWord,
                  LoadSeq2, DropTorn, SkipFiltered, NoRoom, Deliver
    <3>4. CASE UNCHANGED vars
      BY <3>4, Zenon DEF vars, prodVars
    <3>5. lapped => lapped'
      BY <3>2, <3>3, <3>4, Zenon DEF Next, prodVars
    <3>. QED BY <3>5, Zenon
  <2>2. ASSUME NEW p \in Producers, Produce(p) PROVE Contents'
    <3>1. SlotsInv'
      BY <2>1, <2>2, ProduceSlots, Zenon DEF Contents
    <3>2. \A c \in Clients : CopyInv(c)' /\ Intact(last'[c])
      BY <2>1, <2>2, ProduceCopy, Zenon DEF Contents
    <3>. QED BY <3>1, <3>2, Zenon DEF Contents
  <2>3. ASSUME NEW c \in Clients, Manage(c) \/ Drain(c) PROVE Contents'
    BY <2>1, <2>3, ClientContents, Zenon
  <2>4. CASE UNCHANGED vars
    <3>1. UNCHANGED <<head, seq, data, pslot, pdone, cursor, pc, got, last>>
      BY <2>4, Zenon DEF vars, prodVars, clientVars, drainVars, histVars
    <3>2. SlotsInv'
      BY <2>1, <3>1, Zenon DEF Contents, SlotsInv, InFlight
    <3>3. \A c \in Clients : CopyInv(c)' /\ Intact(last'[c])
      BY <2>1, <3>1, Zenon DEF Contents, CopyInv
    <3>. QED BY <3>2, <3>3, Zenon DEF Contents
  <2>. QED BY <2>2, <2>3, <2>4, Zenon DEF Next
<1>. QED BY <1>1, <1>2, CoreInvariant, PTL DEF Spec

\* The whole invariant of the ring, of its slots, claims and drain calls, that
\* BTELEM_LOG_ID and the drain functions keep together.
THEOREM RingInvariant ==
  ASSUME Ordered
  PROVE Spec => []RingInv
<1>1. Core /\ (lapped \/ Contents) => RingInv
  BY Zenon DEF Core, Typed, Contents, RingInv
<1>. QED BY <1>1, CoreInvariant, ContentsInvariant, PTL

\* The torn-read protection of btelem_drain and btelem_drain_packed: where
\* memory accesses stay in program order and no producer is lapped, every
\* entry handed to a client is whole and is the one at its cursor.
THEOREM NoTornReads ==
  ASSUME Ordered
  PROVE Spec => []NoTornUnlessLapped
<1>1. lapped \/ Contents => NoTornUnlessLapped
  BY Zenon DEF NoTornUnlessLapped, NoTornDelivery, Contents
<1>. QED BY <1>1, ContentsInvariant, PTL

\* Two producers write the same slot only if one of them has been lapped.
THEOREM SlotsAreExclusive ==
  ASSUME Ordered
  PROVE Spec => []ExclusiveSlots
<1>1. Core /\ (lapped \/ Contents) => ExclusiveSlots
  <2>. SUFFICES ASSUME Core, Contents, NEW p \in Producers, NEW q \in Producers,
                       p # q, InFlight(p), InFlight(q)
                PROVE Index(pslot[p]) # Index(pslot[q])
    BY Zenon DEF ExclusiveSlots
  <2>1. /\ head \in Nat /\ pslot[p] \in Nat /\ pslot[q] \in Nat
        /\ pslot[p] < head /\ pslot[q] < head /\ pslot[p] # pslot[q]
        /\ head <= pslot[p] + Capacity /\ head <= pslot[q] + Capacity
    BY DEF Core, Typed, TypeOK, ClaimsInv, Contents, SlotsInv, InFlight
  <2>. QED BY <2>1, WindowDistinct, Zenon
<1>. QED BY <1>1, CoreInvariant, ContentsInvariant, PTL

\* A client counts an entry as dropped only when its slot has been claimed
\* again: the skip at the start of a drain, and the failed second look at seq.
THEOREM OnlyOverwritesDropped ==
  ASSUME Ordered
  PROVE Spec => DropsAreOverwrites
<1>. DEFINE Step == \A c \in Clients :
                      dropped'[c] > dropped[c] /\ ~lapped => cursor'[c] + Capacity <= head
<1>1. Core /\ (lapped \/ Contents) /\ [Next]_vars => [Step]_vars
  <2>. SUFFICES ASSUME Core, Contents, Next, NEW d \in Clients, dropped'[d] > dropped[d]
                PROVE cursor'[d] + Capacity <= head
    BY Zenon
  <2>1. /\ dropped \in [Clients -> Nat] /\ cursor \in [Clients -> Nat] /\ head \in Nat
        /\ Capacity \in Nat
    BY RingAssumption, Zenon DEF Core, Typed, TypeOK
  <2>2. ASSUME dropped' = dropped PROVE FALSE
    BY <2>1, <2>2
  <2>3. ASSUME NEW p \in Producers, Produce(p) PROVE dropped' = dropped
    BY <2>3, Zenon DEF Produce, Claim, Invalidate, StoreWord, Publish, clientVars
  <2>4. ASSUME NEW c \in Clients, Manage(c) PROVE FALSE
    BY <2>1, <2>2, <2>4 DEF Manage, Open, Close, SetFilter
  <2>5. ASSUME NEW c \in Clients, NEW k \in Kinds, NEW room \in Room(k), DrainStart(c, k, room)
        PROVE cursor'[d] + Capacity <= head
    <3>1. /\ dropped' = [dropped EXCEPT ![c] = @ + Skipped(c, head)]
          /\ cursor' = [cursor EXCEPT ![c] = Resume(c, head)]
      BY <2>5, Zenon DEF DrainStart
    <3>2. /\ Skipped(c, head) \in Nat /\ Resume(c, head) \in Nat
          /\ Skipped(c, head) > 0 => Resume(c, head) + Capacity = head
      BY ResumeBounds, Zenon DEF Core
    <3>. QED BY <2>1, <3>1, <3>2
  <2>6. ASSUME NEW c \in Clients, NEW w \in Words, LoadSeq(c) \/ LoadWord(c, w) \/ LoadSeq2(c)
        PROVE dropped' = dropped
    BY <2>6, Zenon DEF LoadSeq, LoadWord, LoadSeq2, clientVars
  <2>7. ASSUME NEW c \in Clients, DropTorn(c) PROVE cursor'[d] + Capacity <= head
    <3>1. /\ dropped' = [dropped EXCEPT ![c] = @ + 1] /\ cursor' = [cursor EXCEPT ![c] = @ + 1]
          /\ pc[c] = "copy" /\ got[c]["seq2"] \notin {Unread, SeqOf(cursor[c])}
      BY <2>7, Zenon DEF DropTorn, Advance, CopyDone, SeqHeld, Loads
    <3>2. cursor[c] + Capacity < head
      BY <3>1, Zenon DEF Contents, CopyInv
    <3>. QED BY <2>1, <3>1, <3>2
  <2>8. ASSUME NEW c \in Clients, SkipFiltered(c) \/ NoRoom(c) \/ Deliver(c)
        PROVE dropped' = dropped
    BY <2>8, Zenon DEF SkipFiltered, NoRoom, Deliver
  <2>9. ASSUME NEW c \in Clients, Drain(c) PROVE cursor'[d] + Capacity <= head
    BY <2>2, <2>5, <2>6, <2>7, <2>8, <2>9, Zenon DEF Drain, Words
  <2>. QED BY <2>2, <2>3, <2>4, <2>9, Zenon DEF Next
<1>. QED BY <1>1, CoreInvariant, ContentsInvariant, PTL DEF Spec, DropsAreOverwrites

-----------------------------------------------------------------------------
(* The abstract log, and packet buffers with room *)

\* Packet buffers with room for all that a drain call can find, in a ring whose
\* size survives the cast of max_entries to uint16_t.
Roomy == Capacity < U16Range /\ \A room \in TableSizes : Capacity <= room

\* The table of a packet has room for every entry the call has yet to look at.
RoomFor(c) ==
  /\ pc[c] = "idle" => count[c] = 0
  /\ pc[c] # "idle" /\ kind[c] = "packed" =>
       count[c] + (dhead[c] - cursor[c]) <= maxent[c] /\ maxent[c] < U16Range
RoomInv == \A c \in Clients : RoomFor(c)

\* What a call looks at is what RoomFor mentions.
LEMMA RoomKept ==
  ASSUME NEW d \in Clients, RoomFor(d), pc'[d] = pc[d], count'[d] = count[d],
         kind'[d] = kind[d], dhead'[d] = dhead[d], cursor'[d] = cursor[d], maxent'[d] = maxent[d]
  PROVE RoomFor(d)'
BY Zenon DEF RoomFor

\* The next turn of the loop uses up at most the room of one entry.
LEMMA RoomNext ==
  ASSUME Core, RoomInv, NEW c \in Clients, NEW n \in {count[c], count[c] + 1},
         pc[c] # "idle", Advance(c), NextEntry(c, n) \/ Return(c, n)
  PROVE RoomInv'
<1>. SUFFICES ASSUME NEW d \in Clients PROVE RoomFor(d)'
  BY Zenon DEF RoomInv
<1>1. /\ cursor \in [Clients -> Nat] /\ pc \in [Clients -> {"idle", "seq", "copy"}]
      /\ count \in [Clients -> Nat] /\ kind \in [Clients -> {"emit", "packed"}]
      /\ dhead \in [Clients -> Nat] /\ maxent \in [Clients -> Nat] /\ RoomFor(c) /\ RoomFor(d)
  BY Zenon DEF Core, Typed, TypeOK, RoomInv
<1>2. cursor' = [cursor EXCEPT ![c] = cursor[c] + 1]
  BY Zenon DEF Advance
<1>3. CASE d # c
  <2>1. /\ pc'[d] = pc[d] /\ count'[d] = count[d] /\ kind'[d] = kind[d]
        /\ dhead'[d] = dhead[d] /\ maxent'[d] = maxent[d]
    BY <1>1, <1>3, ZenonT(30) DEF NextEntry, Continue, Return
  <2>. QED BY <1>1, <1>2, <1>3, <2>1, RoomKept, Zenon
<1>4. CASE d = c /\ Return(c, n)
  BY <1>1, <1>4, Zenon DEF Return, RoomFor
<1>5. CASE d = c /\ Continue(c, n)
  <2>1. /\ pc'[c] = "seq" /\ count'[c] = n /\ kind'[c] = kind[c] /\ dhead'[c] = dhead[c]
        /\ maxent'[c] = maxent[c] /\ cursor'[c] = cursor[c] + 1
    BY <1>1, <1>2, <1>5, Zenon DEF Continue
  <2>. QED BY <1>1, <1>5, <2>1 DEF RoomFor
<1>. QED BY <1>3, <1>4, <1>5, Zenon DEF NextEntry

\* A call begins with room for everything between its cursor and head.
LEMMA RoomStart ==
  ASSUME Roomy, Core, RoomInv, NEW c \in Clients, NEW k \in Kinds, NEW room \in Room(k),
         DrainStart(c, k, room)
  PROVE RoomInv'
<1>. SUFFICES ASSUME NEW d \in Clients PROVE RoomFor(d)'
  BY Zenon DEF RoomInv
<1>1. /\ cursor \in [Clients -> Nat] /\ pc \in [Clients -> {"idle", "seq", "copy"}]
      /\ count \in [Clients -> Nat] /\ kind \in [Clients -> {"emit", "packed"}]
      /\ dhead \in [Clients -> Nat] /\ maxent \in [Clients -> Nat] /\ RoomFor(c) /\ RoomFor(d)
      /\ head \in Nat /\ count' = count
  BY Zenon DEF Core, Typed, TypeOK, RoomInv, DrainStart
<1>. DEFINE start == Resume(c, head)
            max   == Min2(room, head - start)
            enter == start < head /\ (k = "packed" => max > 0)
<1>2. /\ cursor' = [cursor EXCEPT ![c] = start] /\ pc[c] = "idle"
      /\ enter => /\ pc' = [pc EXCEPT ![c] = "seq"] /\ dhead' = [dhead EXCEPT ![c] = head]
                  /\ kind' = [kind EXCEPT ![c] = k] /\ maxent' = [maxent EXCEPT ![c] = max]
      /\ ~enter => UNCHANGED <<pc, dhead, kind, maxent>>
  BY Zenon DEF DrainStart
<1>3. start \in Nat /\ head - start <= Capacity /\ start <= head
  BY ResumeBounds, Zenon DEF Core
<1>4. k = "packed" => max = head - start /\ max < U16Range
  <2>1. Capacity \in Nat /\ U16Range \in Nat /\ TableSizes \subseteq Nat
    BY RingAssumption, Zenon
  <2>. QED BY <1>1, <1>3, <2>1 DEF Room, Roomy, Min2
<1>. HIDE DEF start, max, enter
<1>5. CASE d # c
  <2>1. /\ pc'[d] = pc[d] /\ count'[d] = count[d] /\ kind'[d] = kind[d] /\ cursor'[d] = cursor[d]
        /\ dhead'[d] = dhead[d] /\ maxent'[d] = maxent[d]
    BY <1>1, <1>2, <1>5, Zenon
  <2>. QED BY <1>1, <2>1, RoomKept, Zenon
<1>6. CASE d = c /\ enter
  <2>1. /\ pc'[c] = "seq" /\ count'[c] = 0 /\ kind'[c] = k /\ dhead'[c] = head
        /\ maxent'[c] = max /\ cursor'[c] = start
    BY <1>1, <1>2, <1>6, Zenon DEF RoomFor
  <2>. QED BY <1>1, <1>3, <1>4, <1>6, <2>1 DEF RoomFor
<1>7. CASE d = c /\ ~enter
  BY <1>1, <1>2, <1>7, Zenon DEF RoomFor
<1>. QED BY <1>5, <1>6, <1>7, Zenon

\* Room is kept by every step.
THEOREM RoomInvariant ==
  ASSUME Roomy
  PROVE Spec => []RoomInv
<1>1. Init => RoomInv
  BY Zenon DEF Init, RoomInv, RoomFor
<1>2. Core /\ RoomInv /\ [Next]_vars => RoomInv'
  <2>. SUFFICES ASSUME Core, RoomInv, [Next]_vars PROVE RoomInv'
    BY Zenon
  <2>1. /\ cursor \in [Clients -> Nat] /\ pc \in [Clients -> {"idle", "seq", "copy"}]
        /\ count \in [Clients -> Nat] /\ \A d \in Clients : RoomFor(d)
    BY Zenon DEF Core, Typed, TypeOK, RoomInv
  <2>2. ASSUME UNCHANGED <<pc, count, kind, dhead, cursor, maxent>> PROVE RoomInv'
    BY <2>1, <2>2, RoomKept, Zenon DEF RoomInv
  <2>3. ASSUME NEW p \in Producers, Produce(p) PROVE RoomInv'
    BY <2>2, <2>3, Zenon DEF Produce, Claim, Invalidate, StoreWord, Publish, clientVars, drainVars
  <2>4. ASSUME NEW c \in Clients, Manage(c) PROVE RoomInv'
    <3>. SUFFICES ASSUME NEW d \in Clients PROVE RoomFor(d)'
      BY Zenon DEF RoomInv
    <3>1. UNCHANGED <<pc, count, kind, dhead, maxent>> /\ pc[c] = "idle"
          /\ (d # c => cursor'[d] = cursor[d])
      BY <2>1, <2>4, Zenon DEF Manage, Open, Close, SetFilter, drainVars
    <3>. QED BY <2>1, <3>1, RoomKept, Zenon DEF RoomFor
  <2>5. ASSUME NEW c \in Clients, LoadSeq(c) PROVE RoomInv'
    <3>. SUFFICES ASSUME NEW d \in Clients PROVE RoomFor(d)'
      BY Zenon DEF RoomInv
    <3>1. CASE seq[Index(cursor[c])] = SeqOf(cursor[c])
      <4>1. pc' = [pc EXCEPT ![c] = "copy"] /\ pc[c] = "seq"
            /\ UNCHANGED <<count, kind, dhead, cursor, maxent>>
        BY <2>5, <3>1, Zenon DEF LoadSeq
      <4>. QED BY <2>1, <4>1, Zenon DEF RoomFor
    <3>2. CASE Return(c, count[c]) /\ cursor' = cursor
      <4>1. d = c => RoomFor(d)'
        BY <2>1, <3>2, Zenon DEF Return, RoomFor
      <4>2. d # c => RoomFor(d)'
        BY <2>1, <3>2, RoomKept, Zenon DEF Return, Core, Typed, TypeOK
      <4>. QED BY <4>1, <4>2, Zenon
    <3>. QED BY <2>5, <3>1, <3>2, Zenon DEF LoadSeq
  <2>6. ASSUME NEW c \in Clients, NEW w \in Words, LoadWord(c, w) \/ LoadSeq2(c) PROVE RoomInv'
    BY <2>2, <2>6, Zenon DEF LoadWord, LoadSeq2, clientVars
  <2>7. ASSUME NEW c \in Clients, DropTorn(c) \/ SkipFiltered(c) \/ NoRoom(c) \/ Deliver(c)
        PROVE RoomInv'
    <3>1. pc[c] # "idle" /\ Advance(c)
      BY <2>7, Zenon DEF DropTorn, SkipFiltered, NoRoom, Deliver, CopyDone
    <3>2. \E n \in {count[c], count[c] + 1} : NextEntry(c, n) \/ Return(c, n)
      BY <2>7, Zenon DEF DropTorn, SkipFiltered, NoRoom, Deliver
    <3>. QED BY <3>1, <3>2, RoomNext, Zenon
  <2>8. ASSUME NEW c \in Clients, Drain(c) PROVE RoomInv'
    BY <2>5, <2>6, <2>7, <2>8, RoomStart, Zenon DEF Drain, Words
  <2>9. CASE UNCHANGED vars
    BY <2>2, <2>9, Zenon DEF vars, clientVars, drainVars
  <2>. QED BY <2>3, <2>4, <2>8, <2>9, Zenon DEF Next
<1>. QED BY <1>1, <1>2, CoreInvariant, PTL DEF Spec

\* With room for a full ring the packed drain never passes an entry that does
\* not fit.
LEMMA AlwaysRoom ==
  ASSUME Core, RoomInv, NEW c \in Clients
  PROVE ~NoRoom(c)
<1>. SUFFICES ASSUME NoRoom(c) PROVE FALSE
  BY Zenon
<1>1. pc[c] = "copy" /\ kind[c] = "packed" /\ count[c] >= maxent[c] % U16Range
  BY Zenon DEF NoRoom, CopyDone, TableFull
<1>2. /\ count[c] \in Nat /\ maxent[c] \in Nat /\ dhead[c] \in Nat /\ cursor[c] \in Nat
      /\ cursor[c] < dhead[c] /\ U16Range \in Nat \ {0}
  BY <1>1, RingAssumption, Zenon DEF Core, Typed, TypeOK, CallInv
<1>3. count[c] + (dhead[c] - cursor[c]) <= maxent[c] /\ maxent[c] < U16Range
  BY <1>1, Zenon DEF RoomInv, RoomFor
<1>4. maxent[c] % U16Range = maxent[c]
  BY <1>2, <1>3
<1>. QED BY <1>1, <1>2, <1>3, <1>4

\* "Clients detect and report drops": where packet buffers have room for a full
\* ring, every entry a client passed and did not get is filtered or counted.
THEOREM RoomyLosesNothing ==
  ASSUME Roomy
  PROVE Spec => []NoSilentLoss
<1>1. Init => NoSilentLoss
  BY Zenon DEF Init, NoSilentLoss
<1>2. Core /\ RoomInv /\ NoSilentLoss /\ [Next]_vars => NoSilentLoss'
  <2>. SUFFICES ASSUME Core, RoomInv, NoSilentLoss, [Next]_vars, NEW d \in Clients
                PROVE lost'[d] = 0
    BY Zenon DEF NoSilentLoss
  <2>1. lost \in [Clients -> Nat] /\ lost[d] = 0
    BY Zenon DEF Core, Typed, TypeOK, NoSilentLoss
  <2>2. ASSUME NEW p \in Producers, Produce(p) PROVE lost' = lost
    BY <2>2, Zenon DEF Produce, Claim, Invalidate, StoreWord, Publish, histVars
  <2>3. ASSUME NEW c \in Clients, Manage(c) PROVE lost'[d] = 0
    BY <2>1, <2>3, Zenon DEF Manage, Open, Close, SetFilter, histVars
  <2>4. ASSUME NEW c \in Clients, Drain(c) PROVE lost' = lost
    BY <2>4, AlwaysRoom, Zenon DEF Drain, DrainStart, LoadSeq, LoadWord, LoadSeq2, DropTorn,
                              SkipFiltered, Deliver, histVars
  <2>5. CASE UNCHANGED vars
    BY <2>1, <2>5, Zenon DEF vars, histVars
  <2>. QED BY <2>1, <2>2, <2>3, <2>4, <2>5, Zenon DEF Next
<1>. QED BY <1>1, <1>2, CoreInvariant, RoomInvariant, PTL DEF Spec

-----------------------------------------------------------------------------
(* The refinement *)

\* What a client of the log sees of the ring.
Seen == <<head, pslot, active, cursor, emitted, filtered, dropped, last>>

\* A step that changes none of it is a stutter of the log.
LEMMA Unseen ==
  ASSUME UNCHANGED Seen
  PROVE UNCHANGED Log!logVars
BY Zenon DEF Seen, Log!logVars, Committed, Delivered

\* A step of a producer appends an entry or commits one.
LEMMA ProduceLog ==
  ASSUME Core, NEW p \in Producers, Produce(p)
  PROVE [Log!Next]_(Log!logVars)
<1>1. head \in Nat /\ pslot \in [Producers -> Nat \cup {Idle}]
  BY Zenon DEF Core, Typed, TypeOK
<1>2. UNCHANGED <<active, cursor, emitted, filtered, dropped, last>>
  BY Zenon DEF Produce, Claim, Invalidate, StoreWord, Publish, clientVars, histVars
<1>3. [c \in Clients |-> Delivered(c)]' = [c \in Clients |-> Delivered(c)]
  BY <1>2, Zenon DEF Delivered
<1>4. CASE Claim(p)
  <2>1. head' = head + 1 /\ pslot' = [pslot EXCEPT ![p] = head] /\ pslot[p] = Idle
    BY <1>4, Zenon DEF Claim, InFlight
  <2>2. Committed' = Committed
    BY <1>1, <2>1 DEF Committed, Idle
  <2>3. Log!Append1
    BY <1>2, <1>3, <2>1, <2>2, Zenon DEF Log!Append1
  <2>. QED BY <2>3, Zenon DEF Log!Next
<1>5. CASE Publish(p)
  <2>. DEFINE s == pslot[p]
  <2>1. head' = head /\ pslot' = [pslot EXCEPT ![p] = Idle] /\ s # Idle
    BY <1>5, Zenon DEF Publish, InFlight
  <2>2. s \in 0 .. head - 1 /\ \A q \in Producers : q # p => pslot[q] # s
    BY <1>1, <2>1 DEF Core, ClaimsInv, InFlight, Idle
  <2>3. s \notin Committed /\ Committed' = Committed \cup {s}
    BY <1>1, <2>1, <2>2 DEF Committed, Idle
  <2>4. Log!Commit(s)
    BY <1>2, <1>3, <2>1, <2>2, <2>3, Zenon DEF Log!Commit
  <2>. QED BY <2>2, <2>4, Zenon DEF Log!Next
<1>6. CASE Invalidate(p) \/ \E w \in Words : StoreWord(p, w)
  <2>1. UNCHANGED <<head, pslot>>
    BY <1>6, Zenon DEF Invalidate, StoreWord
  <2>. QED BY <1>2, <2>1, Unseen, Zenon DEF Seen
<1>. QED BY <1>4, <1>5, <1>6, Zenon DEF Produce

\* Opening and closing a client is what it is in the log.
LEMMA ManageLog ==
  ASSUME Core, NEW c \in Clients, Manage(c)
  PROVE [Log!Next]_(Log!logVars)
<1>1. last \in [Clients -> Entry] /\ UNCHANGED prodVars
  BY Zenon DEF Core, Typed, TypeOK, Manage, Open, Close, SetFilter
<1>2. head' = head /\ Committed' = Committed
  BY <1>1, Zenon DEF prodVars, Committed
<1>. DEFINE latest == [d \in Clients |-> Delivered(d)]
<1>3. CASE Open(c)
  <2>1. last' = [last EXCEPT ![c] = NoEntry]
    BY <1>3, Zenon DEF Open
  <2>2. latest' = [latest EXCEPT ![c] = -1]
    <3>1. last'[c] = NoEntry /\ \A d \in Clients : d # c => last'[d] = last[d]
      BY <1>1, <2>1, Zenon
    <3>2. NoEntry.slot = -1 /\ Intact(NoEntry)
      BY DEF NoEntry, Intact
    <3>. QED BY <3>1, <3>2, Zenon DEF Delivered
  <2>3. Log!OpenAtEnd(c)
    BY <1>2, <1>3, <2>2, Zenon DEF Open, Log!OpenAtEnd
  <2>. QED BY <2>3, Zenon DEF Log!Next
<1>4. CASE Close(c)
  <2>1. Log!Leave(c)
    BY <1>2, <1>4, Zenon DEF Close, Log!Leave, histVars, Delivered
  <2>. QED BY <2>1, Zenon DEF Log!Next
<1>5. CASE SetFilter(c)
  BY <1>1, <1>5, Unseen, Zenon DEF SetFilter, Seen, prodVars, histVars
<1>. QED BY <1>3, <1>4, <1>5, Zenon DEF Manage

\* A drain call takes, passes or misses what the log says it may.
LEMMA DrainLog ==
  ASSUME Core, Contents, RoomInv, NEW c \in Clients, Drain(c)
  PROVE [Log!Next]_(Log!logVars)
<1>1. /\ head \in Nat /\ last \in [Clients -> Entry] /\ cursor \in [Clients -> Nat]
      /\ dhead \in [Clients -> Nat] /\ dropped \in [Clients -> Nat] /\ Capacity \in Nat
      /\ CallInv(c) /\ CopyInv(c)
  BY RingAssumption, Zenon DEF Core, Typed, TypeOK, Contents
<1>2. UNCHANGED <<prodVars, active>>
  BY Zenon DEF Drain, DrainStart, LoadSeq, LoadWord, LoadSeq2, DropTorn, SkipFiltered, NoRoom,
               Deliver, clientVars
<1>3. head' = head /\ pslot' = pslot /\ Committed' = Committed /\ active' = active
  BY <1>2, Zenon DEF prodVars, Committed
<1>. DEFINE latest == [d \in Clients |-> Delivered(d)]
<1>4. last' = last => latest' = latest
  BY Zenon DEF Delivered
<1>5. ASSUME NEW k \in Kinds, NEW room \in Room(k), DrainStart(c, k, room)
      PROVE [Log!Next]_(Log!logVars)
  <2>. DEFINE n == Skipped(c, head)
  <2>1. /\ cursor' = [cursor EXCEPT ![c] = Resume(c, head)] /\ active[c]
        /\ dropped' = [dropped EXCEPT ![c] = @ + n] /\ UNCHANGED <<emitted, filtered, last>>
    BY <1>5, Zenon DEF DrainStart, histVars
  <2>2. /\ n \in Nat /\ Resume(c, head) = cursor[c] + n
        /\ n > 0 => Resume(c, head) + Capacity = head
    BY ResumeBounds, Zenon DEF Core
  <2>. HIDE DEF n
  <2>3. CASE n = 0
    <3>1. UNCHANGED <<cursor, dropped>>
      BY <1>1, <2>1, <2>2, <2>3
    <3>. QED BY <1>3, <2>1, <3>1, Unseen, Zenon DEF Seen
  <2>4. CASE n > 0
    <3>1. n \in 1 .. head - Capacity - cursor[c]
      BY <1>1, <2>2, <2>4
    <3>2. cursor' = [cursor EXCEPT ![c] = @ + n]
      BY <2>1, <2>2, Zenon
    <3>3. Log!Miss(c)
      BY <1>3, <1>4, <2>1, <3>1, <3>2, Zenon DEF Log!Miss
    <3>. QED BY <3>3, Zenon DEF Log!Next
  <2>. QED BY <2>2, <2>3, <2>4
<1>6. ASSUME NEW w \in Words, LoadSeq(c) \/ LoadWord(c, w) \/ LoadSeq2(c)
      PROVE [Log!Next]_(Log!logVars)
  <2>1. UNCHANGED <<cursor, emitted, filtered, dropped, last>>
    BY <1>6, Zenon DEF LoadSeq, LoadWord, LoadSeq2, clientVars, histVars
  <2>. QED BY <1>3, <2>1, Unseen, Zenon DEF Seen
<1>7. ASSUME CopyDone(c) PROVE active[c] /\ cursor[c] \in Committed
  <2>1. pc[c] = "copy"
    BY <1>7, Zenon DEF CopyDone
  <2>. QED BY <1>1, <2>1 DEF CallInv, Committed
<1>8. CASE DropTorn(c)
  <2>1. /\ CopyDone(c) /\ cursor' = [cursor EXCEPT ![c] = @ + 1]
        /\ dropped' = [dropped EXCEPT ![c] = @ + 1] /\ UNCHANGED <<emitted, filtered, last>>
    BY <1>8, Zenon DEF DropTorn, Advance, histVars
  <2>2. pc[c] = "copy" /\ got[c]["seq2"] \notin {Unread, SeqOf(cursor[c])}
    BY <1>8, Zenon DEF DropTorn, CopyDone, SeqHeld, Loads
  <2>3. cursor[c] + Capacity < head
    BY <1>1, <2>2, Zenon DEF CopyInv
  <2>4. 1 \in 1 .. head - Capacity - cursor[c]
    BY <1>1, <2>3
  <2>5. Log!Miss(c)
    BY <1>3, <1>4, <1>7, <2>1, <2>4, Zenon DEF Log!Miss
  <2>. QED BY <2>5, Zenon DEF Log!Next
<1>9. CASE SkipFiltered(c)
  <2>1. /\ CopyDone(c) /\ cursor' = [cursor EXCEPT ![c] = @ + 1]
        /\ filtered' = [filtered EXCEPT ![c] = @ + 1] /\ UNCHANGED <<emitted, dropped, last>>
    BY <1>9, Zenon DEF SkipFiltered, Advance
  <2>2. Log!Pass(c)
    BY <1>3, <1>4, <1>7, <2>1, Zenon DEF Log!Pass
  <2>. QED BY <2>2, Zenon DEF Log!Next
<1>10. CASE Deliver(c)
  <2>. DEFINE e == [slot |-> cursor[c], hdr |-> got[c]["hdr"], pay |-> got[c]["pay"]]
  <2>1. /\ CopyDone(c) /\ cursor' = [cursor EXCEPT ![c] = @ + 1] /\ SeqHeld(c)
        /\ emitted' = [emitted EXCEPT ![c] = @ + 1] /\ UNCHANGED <<filtered, dropped>>
        /\ last' = [last EXCEPT ![c] = e]
    BY <1>10, Zenon DEF Deliver, Advance
  <2>2. got[c]["hdr"] = SeqOf(cursor[c]) /\ got[c]["pay"] = SeqOf(cursor[c])
    BY <1>1, <2>1, Zenon DEF CopyDone, SeqHeld, CopyInv, Words
  <2>3. e.slot = cursor[c] /\ Intact(e)
    BY <2>2, Zenon DEF Intact
  <2>. HIDE DEF e
  <2>4. latest' = [latest EXCEPT ![c] = cursor[c]]
    BY <1>1, <2>1, <2>3, Zenon DEF Delivered
  <2>5. Log!Take(c)
    BY <1>3, <1>7, <2>1, <2>4, Zenon DEF Log!Take
  <2>. QED BY <2>5, Zenon DEF Log!Next
<1>. QED BY <1>5, <1>6, <1>8, <1>9, <1>10, AlwaysRoom, Zenon DEF Drain, Words

\* What the ring promises its clients: while no producer is lapped, and with packet
\* buffers for a full ring, the ring is the log of LossyLog, for every number
\* of producers, clients and slots.
THEOREM RingImplementsLog ==
  ASSUME Ordered, Roomy
  PROVE UnlappedSpec => ImplementsLog
<1>1. Init => Log!Init
  BY DEF Init, Log!Init, Committed, Delivered, Intact, NoEntry
<1>2. Core /\ Contents /\ RoomInv /\ [Next]_vars => [Log!Next]_(Log!logVars)
  <2>. SUFFICES ASSUME Core, Contents, RoomInv, [Next]_vars PROVE [Log!Next]_(Log!logVars)
    BY Zenon
  <2>1. CASE UNCHANGED vars
    BY <2>1, Unseen, Zenon DEF vars, Seen, prodVars, clientVars, histVars
  <2>. QED BY <2>1, ProduceLog, ManageLog, DrainLog, Zenon DEF Next
<1>3. Init => ~lapped
  BY Zenon DEF Init
<1>4. ~lapped /\ [Next /\ ~lapped']_vars => ~lapped'
  BY Zenon DEF vars, prodVars
<1>5. [Next /\ ~lapped']_vars => [Next]_vars
  BY Zenon
<1>6. UnlappedSpec => Spec /\ []~lapped
  BY <1>3, <1>4, <1>5, PTL DEF UnlappedSpec, Spec
<1>7. UnlappedSpec => [](Core /\ Contents /\ RoomInv)
  BY <1>6, CoreInvariant, ContentsInvariant, RoomInvariant, PTL
<1>. QED BY <1>1, <1>2, <1>5, <1>7, PTL DEF UnlappedSpec, ImplementsLog, Log!Spec
=============================================================================
