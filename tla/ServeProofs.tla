---------------------------- MODULE ServeProofs -----------------------------
(***************************************************************************)
(* Ring clients, slots and sockets of the TCP server have one owner each   *)
(* and are given back, nothing it took is lost, and a completed stop leaves*)
(* nothing behind, for any number of peers, slots and ring clients.        *)
(***************************************************************************)
EXTENDS BtelemServe, FiniteSetTheorems, WellFoundedInduction, TLAPS

\* The thread of peer k drains a ring client.
Using(k)    == Serving(k) /\ thr[k].pc # "clear"
ClientOf(k) == conn[thr[k].slot].cid
Queued(k)   == \E n \in 1 .. Len(backlog) : backlog[n] = k

\* The types, and what the program counters say of the loops.
Shape ==
  /\ listening \in BOOLEAN
  /\ backlog \in Seq(Peers)
  /\ net \in [Peers -> Open \cup {"none", "closed"}]
  /\ acc \in [pc : {"test", "accept", "find", "claim", "slot", "exit"},
              fd : Peers \cup {NoPeer}, cid : RingClients]
  /\ conn \in [Slots -> [active : BOOLEAN, fd : Peers \cup {NoPeer}, cid : RingClients]]
  /\ ring \in [RingClients -> BOOLEAN]
  /\ thr \in [Peers -> [pc : Threads, slot : Slots, empty : Nat, since : Nat]]
  /\ stop \in [pc : {"idle", "listen", "join", "scan", "wait", "done", "gaveup"}, n : Nat]
  /\ stop.pc = "scan" => stop.n \in Slots
  /\ udp.pc = "off"

\* A connection is in the backlog, with the accept thread or with its own thread.
OnePlace ==
  /\ \A m, n \in 1 .. Len(backlog) : backlog[m] = backlog[n] => m = n
  /\ \A k \in Peers : Queued(k) => thr[k].pc = "none" /\ acc.fd # k
  /\ acc.pc \in {"find", "claim", "slot"} => acc.fd \in Peers
  /\ acc.pc \in {"test", "accept", "exit"} => acc.fd = NoPeer
  /\ \A k \in Peers : acc.fd = k => thr[k].pc = "none"
  /\ \A k \in Peers : net[k] = "none" => thr[k].pc = "none" /\ ~Queued(k) /\ acc.fd # k

\* A ring client is active while it is used, and not by two.
OneUser ==
  /\ \A k \in Peers : Using(k) => ring[ClientOf(k)]
  /\ \A j, k \in Peers : Using(j) /\ Using(k) /\ ClientOf(j) = ClientOf(k) => j = k
  /\ acc.pc = "claim" => ~ring[acc.cid]
  /\ acc.pc = "slot" => ring[acc.cid] /\ \A k \in Peers : Using(k) => ClientOf(k) # acc.cid

\* The inductive invariant behind OneOwner.
Owned == Shape /\ OnePlace /\ OwnSlot /\ OneUser

-----------------------------------------------------------------------------
\* What the search for a free entry finds is one of the free ones.
LEMMA FirstIn ==
  ASSUME NEW S \in SUBSET Nat, S # {}
  PROVE First(S) \in S
<1>. DEFINE R == OpToRel(<, Nat)
<1>1. IsWellFoundedOn(R, Nat)
  BY NatLessThanWellFounded, Zenon
<1>r. R = {ss \in Nat \X Nat : ss[1] < ss[2]}
  BY Zenon DEF OpToRel
<1>. HIDE DEF R
<1>2. PICK i \in S : \A j \in S : ~(<<j, i>> \in R)
  BY <1>1, WFMin, Zenon
<1>3. \A j \in S : <<j, i>> \in Nat \X Nat /\ (<<j, i>> \in R <=> j < i)
  BY <1>r, Zenon
<1>4. ASSUME NEW j \in S PROVE i <= j
  <2>1. ~(j < i)
    BY <1>2, <1>3, Zenon
  <2>2. i \in Nat /\ j \in Nat
    BY Zenon
  <2>. QED BY <2>1, <2>2
<1>. QED BY <1>2, <1>4, Zenon DEF First

\* btelem_client_open's search finds a free client.
LEMMA FirstClient ==
  ASSUME Shape, FreeClients # {}
  PROVE First(FreeClients) \in RingClients /\ ~ring[First(FreeClients)]
<1>1. FreeClients \in SUBSET Nat
  BY ServeAssumption DEF FreeClients, RingClients
<1>. QED BY <1>1, FirstIn, Zenon DEF FreeClients

\* accept_thread's search finds a free slot.
LEMMA FirstSlot ==
  ASSUME Shape, FreeSlots # {}
  PROVE First(FreeSlots) \in Slots /\ ~conn[First(FreeSlots)].active
<1>1. FreeSlots \in SUBSET Nat
  BY ServeAssumption DEF FreeSlots, Slots
<1>. QED BY <1>1, FirstIn, Zenon DEF FreeSlots

\* btelem_server_start leaves everything free.
LEMMA OwnedInit == Init => Owned
<1>. SUFFICES ASSUME Init PROVE Owned
  BY Zenon
<1>1. 0 \in RingClients /\ 0 \in Slots
  BY ServeAssumption DEF RingClients, Slots
<1>2. Shape
  BY <1>1 DEF Init, Shape, NoThread, Threads, Open, Gone
<1>3. OnePlace
  BY ServeAssumption DEF Init, OnePlace, NoThread, Queued
<1>4. OwnSlot /\ OneUser
  BY Zenon DEF Init, OwnSlot, OneUser, NoThread, Serving, Using
<1>. QED BY <1>2, <1>3, <1>4, Zenon DEF Owned

-----------------------------------------------------------------------------
\* The states in which a client thread holds its conn, its socket and its client.
Busy == {"schema", "loop", "send", "close"}

\* A step that gives nothing to anyone and takes from no one but, at its end, a
\* thread's socket.
Quiet ==
  /\ UNCHANGED <<backlog, conn, ring, acc>>
  /\ \A j \in Peers :
       /\ net'[j] = "none" => net[j] = "none"
       /\ thr'[j].slot = thr[j].slot
       /\ \/ thr'[j].pc = thr[j].pc
          \/ thr[j].pc \in Busy /\ thr'[j].pc \in Busy \cup {"unset"}
       /\ net'[j] \in Open => net[j] \in Open /\ (thr'[j].pc = thr[j].pc \/ thr'[j].pc \in Busy)

\* A step that hands nothing over keeps every owner.
LEMMA QuietOwned ==
  ASSUME Owned, Shape', Quiet
  PROVE Owned'
<1>. USE DEF Quiet
<1>1. \A j \in Peers : /\ Serving(j)' <=> Serving(j)
                       /\ Using(j)' <=> Using(j)
                       /\ thr'[j].pc = "none" <=> thr[j].pc = "none"
                       /\ thr'[j].pc \in {"release", "clear"} <=> thr[j].pc \in {"release", "clear"}
  BY Zenon DEF Serving, Using, Threads, Busy
<1>2. \A j \in Peers : ClientOf(j)' = ClientOf(j) /\ (Queued(j)' <=> Queued(j))
  BY Zenon DEF ClientOf, Queued
<1>3. OnePlace'
  BY <1>1, <1>2 DEF Owned, OnePlace
<1>4. OwnSlot'
  BY <1>1 DEF Owned, OwnSlot
<1>5. OneUser'
  BY <1>1, <1>2 DEF Owned, OneUser
<1>. QED BY <1>3, <1>4, <1>5, Zenon DEF Owned

\* A peer enters the backlog once.
LEMMA ConnectOwned ==
  ASSUME Owned, NEW k \in Peers, Connect(k)
  PROVE Owned'
<1>. USE DEF Owned
<1>1. Shape'
  BY DEF Connect, Shape, Open
<1>2. \A j \in Peers : Queued(j)' <=> Queued(j) \/ j = k
  <2>1. backlog \in Seq(Peers) /\ backlog' = Append(backlog, k)
    BY Zenon DEF Connect, Shape
  <2>. QED BY <2>1 DEF Queued
<1>3. ~Queued(k) /\ thr[k].pc = "none" /\ acc.fd # k
  BY Zenon DEF Connect, OnePlace
<1>4. \A m, n \in 1 .. Len(backlog') : backlog'[m] = backlog'[n] => m = n
  <2>1. backlog \in Seq(Peers) /\ backlog' = Append(backlog, k)
    BY Zenon DEF Connect, Shape
  <2>2. \A m, n \in 1 .. Len(backlog) : backlog[m] = backlog[n] => m = n
    BY Zenon DEF OnePlace
  <2>. QED BY <2>1, <2>2, <1>3 DEF Queued
<1>5. OnePlace'
  BY <1>2, <1>3, <1>4, ZenonT(30) DEF Connect, OnePlace, Shape
<1>6. OwnSlot' /\ OneUser'
  BY DEF Connect, OwnSlot, OneUser, Serving, Using, ClientOf
<1>. QED BY <1>1, <1>5, <1>6, Zenon

\* accept_thread passes a connection on with a client nobody uses and a slot nobody
\* serves, or gives up what it took.
LEMMA AcceptOwned ==
  ASSUME Owned, AcceptStep
  PROVE Owned'
<1>. USE DEF Owned
<1>1. CASE AcceptTest
  <2>1. Shape'
    BY <1>1, Zenon DEF AcceptTest, Shape
  <2>2. OnePlace'
    BY <1>1 DEF AcceptTest, Shape, OnePlace, Queued
  <2>3. OwnSlot' /\ OneUser'
    BY <1>1 DEF AcceptTest, Shape, OwnSlot, OneUser, Serving, Using, ClientOf
  <2>. QED BY <2>1, <2>2, <2>3, Zenon
<1>2. CASE Accept
  <2>. DEFINE k == Head(backlog)
  <2>1. /\ backlog \in Seq(Peers) /\ backlog # <<>> /\ backlog' = Tail(backlog)
        /\ acc' = [pc |-> "find", fd |-> k, cid |-> 0]
    BY <1>2, Zenon DEF Accept, Shape
  <2>2. k \in Peers /\ backlog' \in Seq(Peers) /\ k = backlog[1]
        /\ Len(backlog') = Len(backlog) - 1 /\ \A n \in 1 .. Len(backlog') : backlog'[n] = backlog[n + 1]
    BY <2>1
  <2>3. 0 \in RingClients
    BY ServeAssumption DEF RingClients
  <2>4. Shape'
    BY <1>2, <2>1, <2>2, <2>3, SMTT(30) DEF Accept, Shape
  <2>5. Len(backlog) \in Nat \ {0}
    BY <2>1
  <2>6. \A m, n \in 1 .. Len(backlog) : backlog[m] = backlog[n] => m = n
    BY Zenon DEF OnePlace
  <2>7. \A m, n \in 1 .. Len(backlog') : backlog'[m] = backlog'[n] => m = n
    <3>. SUFFICES ASSUME NEW m \in 1 .. Len(backlog'), NEW n \in 1 .. Len(backlog'),
                         backlog'[m] = backlog'[n]
                  PROVE m = n
      BY Zenon
    <3>1. m + 1 \in 1 .. Len(backlog) /\ n + 1 \in 1 .. Len(backlog)
      BY <2>2, <2>5, SMTT(30)
    <3>. QED BY <3>1, <2>2, <2>6
  <2>8. \A j \in Peers : Queued(j)' => Queued(j) /\ j # k
    <3>. SUFFICES ASSUME NEW n \in 1 .. Len(backlog')
                  PROVE backlog'[n] # k /\ Queued(backlog'[n])
      BY Zenon DEF Queued
    <3>1. n + 1 \in 1 .. Len(backlog) /\ 1 \in 1 .. Len(backlog) /\ n + 1 # 1
      BY <2>2, <2>5
    <3>. QED BY <3>1, <2>2, <2>6, Zenon DEF Queued
  <2>9. Queued(k)
    BY <2>2, <2>5 DEF Queued
  <2>. HIDE DEF k
  <2>10. OnePlace'
    <3>1. acc'.pc = "find" /\ acc'.fd = k /\ thr' = thr /\ net' = net
      BY <1>2, <2>1 DEF Accept
    <3>2. thr[k].pc = "none" /\ net[k] # "none"
      BY <2>2, <2>9, Zenon DEF OnePlace
    <3>. QED BY <3>1, <3>2, <2>2, <2>7, <2>8, Zenon DEF OnePlace
  <2>11. OwnSlot' /\ OneUser'
    BY <1>2, <2>1 DEF Accept, OwnSlot, OneUser, Serving, Using, ClientOf
  <2>. QED BY <2>4, <2>10, <2>11, Zenon
<1>3. CASE AcceptFails
  <2>1. Shape'
    BY <1>3, Zenon DEF AcceptFails, Shape
  <2>2. OnePlace'
    BY <1>3 DEF AcceptFails, Shape, OnePlace, Queued
  <2>3. OwnSlot' /\ OneUser'
    BY <1>3 DEF AcceptFails, Shape, OwnSlot, OneUser, Serving, Using, ClientOf
  <2>. QED BY <2>1, <2>2, <2>3, Zenon
<1>4. CASE AcceptFind
  <2>1. acc.fd \in Peers /\ acc.fd # NoPeer
    BY <1>4, ServeAssumption, Zenon DEF AcceptFind, OnePlace
  <2>2. CASE FreeClients = {}
    <3>1. /\ acc' = [acc EXCEPT !.pc = "test", !.fd = NoPeer] /\ net' = [net EXCEPT ![acc.fd] = "closed"]
          /\ UNCHANGED <<listening, backlog, conn, ring, thr, stop, udp>>
      BY <1>4, <2>2, Zenon DEF AcceptFind
    <3>2. Shape'
      BY <3>1, <2>1, Zenon DEF Shape
    <3>3. acc'.pc = "test" /\ acc'.fd = NoPeer /\ \A j \in Peers : net'[j] = "none" => net[j] = "none"
      BY <3>1, <2>1, Zenon DEF Shape
    <3>4. OnePlace'
      BY <3>1, <3>3, ServeAssumption DEF OnePlace, Queued
    <3>5. OwnSlot' /\ OneUser'
      BY <3>1, <3>3 DEF OwnSlot, OneUser, Serving, Using, ClientOf
    <3>. QED BY <3>2, <3>4, <3>5, Zenon
  <2>3. CASE FreeClients # {}
    <3>. DEFINE c == First(FreeClients)
    <3>1. c \in RingClients /\ ~ring[c]
      BY <2>3, FirstClient, Zenon
    <3>2. acc' = [acc EXCEPT !.pc = "claim", !.cid = c] /\ UNCHANGED <<listening, backlog, net, conn, ring, thr, stop, udp>>
      BY <1>4, <2>3, Zenon DEF AcceptFind
    <3>. HIDE DEF c
    <3>3. acc'.pc = "claim" /\ acc'.fd = acc.fd /\ acc'.cid = c
      BY <3>2, Zenon DEF Shape
    <3>4. Shape'
      BY <3>1, <3>2, Zenon DEF Shape
    <3>5. OnePlace'
      BY <2>1, <3>2, <3>3 DEF OnePlace, Queued
    <3>6. OwnSlot' /\ OneUser'
      BY <3>1, <3>2, <3>3 DEF OwnSlot, OneUser, Serving, Using, ClientOf
    <3>. QED BY <3>4, <3>5, <3>6, Zenon
  <2>. QED BY <2>2, <2>3, Zenon
<1>5. CASE AcceptClaim
  <2>1. Shape'
    BY <1>5, Zenon DEF AcceptClaim, Shape
  <2>2. OnePlace'
    BY <1>5 DEF AcceptClaim, Shape, OnePlace, Queued
  <2>3. OwnSlot'
    BY <1>5, Zenon DEF AcceptClaim, Shape, OwnSlot, Serving
  <2>4. OneUser'
    BY <1>5 DEF AcceptClaim, Shape, OneUser, OwnSlot, Serving, Using, ClientOf
  <2>. QED BY <2>1, <2>2, <2>3, <2>4, Zenon
<1>6. CASE AcceptRefused
  <2>1. acc.fd \in Peers /\ acc.fd # NoPeer
    BY <1>6, ServeAssumption, Zenon DEF AcceptRefused, OnePlace
  <2>2. Shape'
    BY <1>6, <2>1, Zenon DEF AcceptRefused, Shape
  <2>3. acc'.pc = "test" /\ acc'.fd = NoPeer /\ \A j \in Peers : net'[j] = "none" => net[j] = "none"
    BY <1>6, <2>1, Zenon DEF AcceptRefused, Shape
  <2>4. OnePlace'
    BY <1>6, <2>3, ServeAssumption DEF AcceptRefused, OnePlace, Queued
  <2>5. OwnSlot'
    BY <1>6, Zenon DEF AcceptRefused, OwnSlot, Serving
  <2>6. \A k \in Peers : Using(k) => ring'[ClientOf(k)]
    BY <1>6, Zenon DEF AcceptRefused, OneUser, Shape, ClientOf
  <2>7. OneUser'
    BY <1>6, <2>3, <2>6, ZenonT(30) DEF AcceptRefused, OneUser, Serving, Using, ClientOf
  <2>. QED BY <2>2, <2>4, <2>5, <2>7, Zenon
<1>7. CASE AcceptServe
  <2>0. PICK k \in Peers : k = acc.fd
    BY <1>7, Zenon DEF AcceptServe, OnePlace
  <2>. DEFINE i == First(FreeSlots)
              t == [NoThread EXCEPT !.pc = "schema", !.slot = i]
  <2>1. k \in Peers /\ k # NoPeer /\ thr[k].pc = "none" /\ net[k] # "none" /\ ~Queued(k)
    BY <1>7, <2>0, ServeAssumption, Zenon DEF AcceptServe, OnePlace
  <2>2. i \in Slots /\ ~conn[i].active
    BY <1>7, FirstSlot, Zenon DEF AcceptServe
  <2>3. /\ conn' = [conn EXCEPT ![i] = [active |-> TRUE, fd |-> k, cid |-> acc.cid]]
        /\ acc' = [acc EXCEPT !.pc = "test", !.fd = NoPeer]
        /\ thr' = [thr EXCEPT ![k] = t] \/ thr' = thr
        /\ acc.pc = "slot" /\ acc.cid \in RingClients
        /\ UNCHANGED <<listening, backlog, net, ring, stop, udp>>
    BY <1>7, <2>0, Zenon DEF AcceptServe, Shape
  <2>4. t \in [pc : Threads, slot : Slots, empty : Nat, since : Nat] /\ t.pc = "schema" /\ t.slot = i
    BY <2>2, Zenon DEF NoThread, Threads
  <2>5. acc'.pc = "test" /\ acc'.fd = NoPeer
    BY <2>3, Zenon DEF Shape
  <2>. HIDE DEF i, t
  <2>6. Shape'
    <3>1. conn' \in [Slots -> [active : BOOLEAN, fd : Peers \cup {NoPeer}, cid : RingClients]]
      BY <2>1, <2>2, <2>3, Zenon DEF Shape
    <3>2. thr' \in [Peers -> [pc : Threads, slot : Slots, empty : Nat, since : Nat]]
      BY <2>3, <2>4, Zenon DEF Shape
    <3>. QED BY <2>3, <3>1, <3>2, Zenon DEF Shape
  <2>7. /\ \A j \in Peers : j # k => thr'[j] = thr[j]
        /\ thr'[k] = t \/ thr'[k] = thr[k]
        /\ conn'[i].active /\ conn'[i].fd = k /\ conn'[i].cid = acc.cid
        /\ \A l \in Slots : l # i => conn'[l] = conn[l]
    BY <2>1, <2>2, <2>3, Zenon DEF Shape
  <2>8. OnePlace'
    BY <2>1, <2>3, <2>4, <2>5, <2>7, ServeAssumption, SMTT(30) DEF OnePlace, Queued
  <2>9. /\ \A j \in Peers : /\ j # k => (Serving(j)' <=> Serving(j)) /\ (Using(j)' <=> Using(j))
                            /\ Serving(j) => j # k /\ thr[j].slot # i /\ thr[j].slot \in Slots
        /\ Serving(k)' => thr'[k] = t
    BY <2>1, <2>2, <2>7, ZenonT(30) DEF Serving, Using, OwnSlot, Shape
  <2>10. OwnSlot'
    BY <2>1, <2>4, <2>7, <2>9 DEF OwnSlot
  <2>11. \A j \in Peers : j # k /\ Using(j) => ClientOf(j)' = ClientOf(j)
    BY <2>7, <2>9 DEF Using, ClientOf
  <2>12. Using(k)' => ClientOf(k)' = acc.cid
    BY <2>4, <2>7, <2>9, Zenon DEF Using, ClientOf
  <2>13. OneUser'
    BY <2>1, <2>3, <2>5, <2>9, <2>11, <2>12 DEF OneUser
  <2>. QED BY <2>6, <2>8, <2>10, <2>13, Zenon
<1>. QED BY <1>1, <1>2, <1>3, <1>4, <1>5, <1>6, <1>7, Zenon DEF AcceptStep

\* The record a thread step leaves, when it stays in its loop or leaves for the end.
ThreadType == [pc : Threads, slot : Slots, empty : Nat, since : Nat]

\* The end of an iteration of the drain loop keeps the thread's counters.
LEMMA EndTyped ==
  ASSUME Shape, NEW k \in Peers, NEW e \in Nat
  PROVE /\ EndIteration(k, e) \in ThreadType
        /\ EndIteration(k, e).pc = "loop" /\ EndIteration(k, e).slot = thr[k].slot
<1>1. thr[k] \in ThreadType
  BY Zenon DEF Shape, ThreadType
<1>3. \A m, n \in Nat :
        [thr[k] EXCEPT !.pc = "loop", !.empty = m, !.since = n] \in ThreadType
  BY <1>1, Zenon DEF ThreadType, Threads
<1>4. EndIteration(k, e) \in ThreadType
  <2>1. PICK m \in Nat, n \in Nat :
          EndIteration(k, e) = [thr[k] EXCEPT !.pc = "loop", !.empty = m, !.since = n]
    <3>1. thr[k].since \in Nat /\ thr[k].since + 1 \in Nat
      BY <1>1 DEF ThreadType
    <3>. QED BY <3>1, Zenon DEF EndIteration
  <2>. QED BY <1>3, <2>1, Zenon
<1>. QED BY <1>1, <1>4, Zenon DEF EndIteration, ThreadType

\* client_thread hands nothing over up to the close of its socket.
LEMMA ThreadQuiet ==
  ASSUME Owned, NEW k \in Peers,
         \/ SendSchema(k) \/ LoopExit(k) \/ DrainPacket(k) \/ SendPacket(k)
         \/ DrainEmpty(k) \/ CloseFd(k)
  PROVE Shape' /\ Quiet
<1>. USE DEF Owned
<1>0. thr \in [Peers -> ThreadType] /\ thr[k] \in ThreadType
  BY Zenon DEF Shape, ThreadType
<1>1. ASSUME NEW t \in ThreadType, t.slot = thr[k].slot,
             thr[k].pc \in Busy, t.pc \in Busy \cup {"unset"}, thr' = [thr EXCEPT ![k] = t],
             net' \in [Peers -> Open \cup {"none", "closed"}],
             \A j \in Peers : /\ net'[j] = "none" => net[j] = "none"
                              /\ net'[j] \in Open => net[j] \in Open,
             t.pc = "unset" => net'[k] \notin Open,
             UNCHANGED <<listening, backlog, acc, conn, ring, stop, udp>>
      PROVE Shape' /\ Quiet
  <2>1. /\ thr' \in [Peers -> ThreadType]
        /\ \A j \in Peers : thr'[j] = IF j = k THEN t ELSE thr[j]
    BY <1>0, <1>1, Zenon
  <2>2. Shape'
    BY <1>1, <2>1, Zenon DEF Shape, ThreadType
  <2>. QED BY <1>1, <2>1, <2>2, Zenon DEF Quiet, Busy
<1>2. ASSUME NEW t \in ThreadType, t.slot = thr[k].slot, t.pc = "loop", thr[k].pc \in Busy, SendAll(k, t),
             UNCHANGED <<listening, backlog, acc, conn, ring, stop, udp>>
      PROVE Shape' /\ Quiet
  <2>1. /\ net' \in [Peers -> Open \cup {"none", "closed"}]
        /\ \A j \in Peers : /\ net'[j] = "none" => net[j] = "none"
                            /\ net'[j] \in Open => net[j] \in Open
    BY <1>2, ZenonT(30) DEF SendAll, Shape, Open, Gone
  <2>2. CASE thr' = [thr EXCEPT ![k] = t]
    BY <1>1, <1>2, <2>1, <2>2, Zenon DEF Busy
  <2>3. CASE Goto(k, "close")
    <3>. DEFINE u == [thr[k] EXCEPT !.pc = "close"]
    <3>1. u \in ThreadType /\ u.slot = thr[k].slot /\ u.pc = "close" /\ thr' = [thr EXCEPT ![k] = u]
      BY <1>0, <2>3, Zenon DEF Goto, ThreadType, Threads
    <3>. HIDE DEF u
    <3>. QED BY <1>1, <1>2, <2>1, <3>1, Zenon DEF Busy
  <2>. QED BY <1>2, <2>2, <2>3, Zenon DEF SendAll
<1>3. ASSUME NEW p \in Busy \cup {"unset"}, Goto(k, p), thr[k].pc \in Busy,
             net' \in [Peers -> Open \cup {"none", "closed"}],
             \A j \in Peers : /\ net'[j] = "none" => net[j] = "none"
                              /\ net'[j] \in Open => net[j] \in Open,
             p = "unset" => net'[k] \notin Open,
             UNCHANGED <<listening, backlog, acc, conn, ring, stop, udp>>
      PROVE Shape' /\ Quiet
  <2>. DEFINE u == [thr[k] EXCEPT !.pc = p]
  <2>1. u \in ThreadType /\ u.slot = thr[k].slot /\ u.pc = p /\ thr' = [thr EXCEPT ![k] = u]
    BY <1>0, <1>3, Zenon DEF Goto, ThreadType, Threads, Busy
  <2>. HIDE DEF u
  <2>. QED BY <1>1, <1>3, <2>1, Zenon
<1>4. CASE SendSchema(k)
  <2>. DEFINE t == [thr[k] EXCEPT !.pc = "loop"]
  <2>1. t \in ThreadType /\ t.slot = thr[k].slot /\ t.pc = "loop"
    BY <1>0, Zenon DEF ThreadType, Threads
  <2>2. SendAll(k, t) /\ thr[k].pc = "schema" /\ UNCHANGED <<listening, backlog, acc, conn, ring, stop, udp>>
    BY <1>4, Zenon DEF SendSchema
  <2>. HIDE DEF t
  <2>. QED BY <1>2, <2>1, <2>2, Zenon DEF Busy
<1>5. CASE SendPacket(k)
  <2>1. EndIteration(k, 0) \in ThreadType
        /\ EndIteration(k, 0).pc = "loop" /\ EndIteration(k, 0).slot = thr[k].slot
    BY EndTyped, Zenon
  <2>2. SendAll(k, EndIteration(k, 0)) /\ thr[k].pc = "send"
        /\ UNCHANGED <<listening, backlog, acc, conn, ring, stop, udp>>
    BY <1>5, Zenon DEF SendPacket
  <2>. QED BY <1>2, <2>1, <2>2, Zenon DEF Busy
<1>6. CASE LoopExit(k) \/ DrainPacket(k)
  <2>1. thr[k].pc = "loop" /\ net' = net /\ UNCHANGED <<listening, backlog, acc, conn, ring, stop, udp>>
        /\ \E p \in {"close", "send"} : Goto(k, p)
    BY <1>6, Zenon DEF LoopExit, DrainPacket
  <2>. QED BY <1>3, <2>1, Zenon DEF Shape, Busy
<1>7. CASE DrainEmpty(k)
  <2>. DEFINE e == (thr[k].empty + 1) % ProbeEvery
  <2>1. e \in Nat
    BY <1>0, ServeAssumption DEF ThreadType
  <2>2. thr[k].pc = "loop" /\ net' = net /\ UNCHANGED <<listening, backlog, acc, conn, ring, stop, udp>>
        /\ (Goto(k, "close") \/ thr' = [thr EXCEPT ![k] = EndIteration(k, e)])
    BY <1>7, Zenon DEF DrainEmpty
  <2>. HIDE DEF e
  <2>3. CASE Goto(k, "close")
    BY <1>3, <2>2, <2>3, Zenon DEF Shape, Busy
  <2>4. CASE thr' = [thr EXCEPT ![k] = EndIteration(k, e)]
    BY <1>1, <2>1, <2>2, <2>4, EndTyped, ZenonT(30) DEF Shape, Busy
  <2>. QED BY <2>2, <2>3, <2>4, Zenon
<1>8. CASE CloseFd(k)
  <2>1. thr[k].pc = "close" /\ Goto(k, "unset") /\ net' = [net EXCEPT ![k] = "closed"]
        /\ UNCHANGED <<listening, backlog, acc, conn, ring, stop, udp>>
    BY <1>8, Zenon DEF CloseFd
  <2>2. net' \in [Peers -> Open \cup {"none", "closed"}]
        /\ \A j \in Peers : /\ net'[j] = "none" => net[j] = "none"
                            /\ net'[j] \in Open => net[j] \in Open
        /\ net'[k] \notin Open
    BY <2>1, Zenon DEF Shape, Open, Gone
  <2>. QED BY <1>3, <2>1, <2>2, Zenon DEF Busy
<1>. QED BY <1>4, <1>5, <1>6, <1>7, <1>8, Zenon

\* client_thread gives its client back before its slot.
LEMMA ThreadOwned ==
  ASSUME Owned, NEW k \in Peers, UnsetFd(k) \/ Release(k) \/ Clear(k)
  PROVE Owned'
<1>. USE DEF Owned
<1>0. thr \in [Peers -> ThreadType] /\ thr[k] \in ThreadType
  BY Zenon DEF Shape, ThreadType
<1>1. ASSUME NEW p \in {"release", "clear", "exit"}, Goto(k, p),
             thr[k].pc \in {"unset", "release", "clear"}
      PROVE /\ thr' \in [Peers -> ThreadType] /\ Serving(k) /\ thr[k].slot \in Slots
            /\ thr'[k].pc = p /\ thr'[k].slot = thr[k].slot
            /\ \A j \in Peers : /\ j # k => thr'[j] = thr[j]
                                /\ thr'[j].pc = "none" <=> thr[j].pc = "none"
  BY <1>0, <1>1, Zenon DEF Goto, ThreadType, Threads, Serving
<1>2. CASE UnsetFd(k)
  <2>. DEFINE i == thr[k].slot
  <2>1. thr[k].pc = "unset" /\ conn' = [conn EXCEPT ![i].fd = NoPeer] /\ Goto(k, "release")
        /\ UNCHANGED <<listening, backlog, net, acc, ring, stop, udp>>
    BY <1>2, Zenon DEF UnsetFd
  <2>2. /\ thr' \in [Peers -> ThreadType] /\ Serving(k) /\ i \in Slots
        /\ thr'[k].pc = "release" /\ thr'[k].slot = i
        /\ \A j \in Peers : /\ j # k => thr'[j] = thr[j]
                            /\ thr'[j].pc = "none" <=> thr[j].pc = "none"
    BY <1>1, <2>1, Zenon
  <2>3. /\ conn' \in [Slots -> [active : BOOLEAN, fd : Peers \cup {NoPeer}, cid : RingClients]]
        /\ conn'[i].fd = NoPeer
        /\ \A l \in Slots : /\ conn'[l].active = conn[l].active /\ conn'[l].cid = conn[l].cid
                            /\ l # i => conn'[l] = conn[l]
    <3>1. conn \in [Slots -> [active : BOOLEAN, fd : Peers \cup {NoPeer}, cid : RingClients]]
      BY Zenon DEF Shape
    <3>2. i \in Slots
      BY <2>2, Zenon
    <3>. HIDE DEF i
    <3>. QED BY <3>1, <3>2, <2>1, Zenon
  <2>4. \A j \in Peers : /\ Serving(j)' <=> Serving(j)
                         /\ Using(j)' <=> Using(j)
                         /\ thr'[j].slot = thr[j].slot /\ thr[j].slot \in Slots
                         /\ Serving(j) /\ j # k => thr[j].slot # i
    <3>. SUFFICES ASSUME NEW j \in Peers
                  PROVE /\ Serving(j)' <=> Serving(j)
                        /\ Using(j)' <=> Using(j)
                        /\ thr'[j].slot = thr[j].slot /\ thr[j].slot \in Slots
                        /\ Serving(j) /\ j # k => thr[j].slot # i
      BY Zenon
    <3>1. CASE j = k
      BY <2>1, <2>2, <3>1, Zenon DEF Serving, Using, Threads
    <3>2. CASE j # k
      BY <2>2, <3>2, <1>0 DEF Serving, Using, OwnSlot, ThreadType
    <3>. QED BY <3>1, <3>2, Zenon
  <2>5. Shape'
    BY <2>1, <2>2, <2>3, Zenon DEF Shape, ThreadType
  <2>6. OnePlace'
    BY <2>1, <2>2 DEF OnePlace, Queued
  <2>7. OwnSlot'
    BY <2>1, <2>2, <2>3, <2>4 DEF OwnSlot
  <2>8. \A j \in Peers : ClientOf(j)' = ClientOf(j)
    BY <2>3, <2>4, Zenon DEF ClientOf
  <2>9. OneUser'
    BY <2>1, <2>4, <2>8 DEF OneUser
  <2>. QED BY <2>5, <2>6, <2>7, <2>9, Zenon
<1>3. CASE Release(k)
  <2>1. thr[k].pc = "release" /\ ring' = [ring EXCEPT ![ClientOf(k)] = FALSE] /\ Goto(k, "clear")
        /\ UNCHANGED <<listening, backlog, net, acc, conn, stop, udp>>
    BY <1>3, Zenon DEF Release, ClientOf
  <2>2. /\ thr' \in [Peers -> ThreadType] /\ Serving(k) /\ thr[k].slot \in Slots
        /\ thr'[k].pc = "clear" /\ thr'[k].slot = thr[k].slot
        /\ \A j \in Peers : /\ j # k => thr'[j] = thr[j]
                            /\ thr'[j].pc = "none" <=> thr[j].pc = "none"
    BY <1>1, <2>1, Zenon
  <2>3. \A j \in Peers : /\ Serving(j)' <=> Serving(j)
                         /\ Using(j)' <=> Using(j) /\ j # k
                         /\ thr'[j].slot = thr[j].slot
    BY <2>1, <2>2, Zenon DEF Serving, Using, Threads
  <2>4. Using(k) /\ \A j \in Peers : ClientOf(j)' = ClientOf(j)
    BY <2>1, <2>2, <2>3, Zenon DEF Using, ClientOf
  <2>5. Shape'
    BY <2>1, <2>2, Zenon DEF Shape, ThreadType
  <2>6. OnePlace'
    BY <2>1, <2>2 DEF OnePlace, Queued
  <2>7. OwnSlot'
    BY <2>1, <2>2, <2>3 DEF OwnSlot
  <2>8. \A c \in RingClients : c # ClientOf(k) => ring'[c] = ring[c]
    BY <2>1, Zenon DEF Shape
  <2>9. \A j \in Peers : Using(j) => ClientOf(j) \in RingClients
    BY Zenon DEF ClientOf, Shape
  <2>10. acc.cid \in RingClients /\ \A c \in RingClients : ring'[c] => ring[c]
    BY <2>1, Zenon DEF Shape
  <2>11. OneUser'
    BY <2>1, <2>3, <2>4, <2>8, <2>9, <2>10 DEF OneUser
  <2>. QED BY <2>5, <2>6, <2>7, <2>11, Zenon
<1>4. CASE Clear(k)
  <2>. DEFINE i == thr[k].slot
  <2>1. thr[k].pc = "clear" /\ conn' = [conn EXCEPT ![i].active = FALSE] /\ Goto(k, "exit")
        /\ UNCHANGED <<listening, backlog, net, acc, ring, stop, udp>>
    BY <1>4, Zenon DEF Clear
  <2>2. /\ thr' \in [Peers -> ThreadType] /\ Serving(k) /\ i \in Slots
        /\ thr'[k].pc = "exit" /\ thr'[k].slot = i
        /\ \A j \in Peers : /\ j # k => thr'[j] = thr[j]
                            /\ thr'[j].pc = "none" <=> thr[j].pc = "none"
    BY <1>1, <2>1, Zenon
  <2>3. /\ conn' \in [Slots -> [active : BOOLEAN, fd : Peers \cup {NoPeer}, cid : RingClients]]
        /\ \A l \in Slots : /\ conn'[l].fd = conn[l].fd /\ conn'[l].cid = conn[l].cid
                            /\ l # i => conn'[l] = conn[l]
    <3>1. conn \in [Slots -> [active : BOOLEAN, fd : Peers \cup {NoPeer}, cid : RingClients]]
      BY Zenon DEF Shape
    <3>2. i \in Slots
      BY <2>2, Zenon
    <3>. HIDE DEF i
    <3>. QED BY <3>1, <3>2, <2>1, Zenon
  <2>4. \A j \in Peers : /\ Serving(j)' <=> Serving(j) /\ j # k
                         /\ Using(j)' <=> Using(j)
                         /\ thr'[j].slot = thr[j].slot /\ thr[j].slot \in Slots
                         /\ Serving(j) /\ j # k => thr[j].slot # i
    <3>. SUFFICES ASSUME NEW j \in Peers
                  PROVE /\ Serving(j)' <=> Serving(j) /\ j # k
                        /\ Using(j)' <=> Using(j)
                        /\ thr'[j].slot = thr[j].slot /\ thr[j].slot \in Slots
                        /\ Serving(j) /\ j # k => thr[j].slot # i
      BY Zenon
    <3>1. CASE j = k
      BY <2>1, <2>2, <3>1, Zenon DEF Serving, Using, Threads
    <3>2. CASE j # k
      BY <2>2, <3>2, <1>0 DEF Serving, Using, OwnSlot, ThreadType
    <3>. QED BY <3>1, <3>2, Zenon
  <2>5. Shape'
    BY <2>1, <2>2, <2>3, Zenon DEF Shape, ThreadType
  <2>6. OnePlace'
    BY <2>1, <2>2 DEF OnePlace, Queued
  <2>7. OwnSlot'
    BY <2>2, <2>3, <2>4 DEF OwnSlot
  <2>8. \A j \in Peers : ClientOf(j)' = ClientOf(j)
    BY <2>3, <2>4, Zenon DEF ClientOf
  <2>9. OneUser'
    BY <2>1, <2>4, <2>8 DEF OneUser
  <2>. QED BY <2>5, <2>6, <2>7, <2>9, Zenon
<1>. QED BY <1>2, <1>3, <1>4, Zenon

\* What a peer does hands nothing over.
LEMMA PeerQuiet ==
  ASSUME Owned, NEW k \in Peers, PeerStep(k) \/ Stall(k)
  PROVE Shape' /\ Quiet
<1>. USE DEF Owned
<1>1. CASE PeerStep(k)
  <2>1. net' \in [Peers -> Open \cup {"none", "closed"}]
    BY <1>1, Zenon DEF PeerStep, Shape, Open, Gone
  <2>2. Shape'
    BY <1>1, <2>1, Zenon DEF PeerStep, Shape
  <2>. QED BY <1>1, <2>2, ZenonT(30) DEF PeerStep, Shape, Quiet, Open, Gone
<1>2. CASE Stall(k)
  <2>1. Shape'
    BY <1>2, Zenon DEF Stall, Shape
  <2>. QED BY <1>2, <2>1, Zenon DEF Stall, Quiet
<1>. QED BY <1>1, <1>2, Zenon

\* btelem_server_stop hands nothing over once the listening socket is closed.
LEMMA StopQuiet ==
  ASSUME Owned, StopFlag \/ StopJoin \/ StopScan \/ StopWait
  PROVE Shape' /\ Quiet
<1>. USE DEF Owned
<1>1. CASE StopFlag
  <2>1. Shape'
    BY <1>1, Zenon DEF StopFlag, Shape
  <2>. QED BY <1>1, <2>1, Zenon DEF Quiet, StopFlag
<1>2. CASE StopJoin
  <2>1. 0 \in Slots
    BY ServeAssumption DEF Slots
  <2>2. Shape'
    BY <1>2, <2>1, Zenon DEF StopJoin, Shape
  <2>. QED BY <1>2, <2>2, Zenon DEF Quiet, StopJoin
<1>3. CASE StopScan
  <2>1. /\ net' \in [Peers -> Open \cup {"none", "closed"}]
        /\ \A j \in Peers : /\ net'[j] = "none" => net[j] = "none"
                            /\ net'[j] \in Open => net[j] \in Open
        /\ UNCHANGED <<listening, backlog, acc, conn, ring, thr, udp>>
    BY <1>3, Zenon DEF StopScan, Shape, Open
  <2>2. /\ stop' \in [pc : {"idle", "listen", "join", "scan", "wait", "done", "gaveup"}, n : Nat]
        /\ stop'.pc = "scan" => stop'.n \in Slots
    <3>1. stop \in [pc : {"idle", "listen", "join", "scan", "wait", "done", "gaveup"}, n : Nat]
          /\ stop.pc = "scan" /\ stop.n \in 0 .. MaxServe - 1 /\ MaxServe \in Nat
      BY <1>3, ServeAssumption, Zenon DEF StopScan, Shape, Slots
    <3>2. CASE stop.n + 1 = MaxServe
      <4>1. stop' = [pc |-> "wait", n |-> 0]
        BY <1>3, <3>2, Zenon DEF StopScan
      <4>. QED BY <4>1, Zenon
    <3>3. CASE stop.n + 1 # MaxServe
      <4>1. stop' = [stop EXCEPT !.n = stop.n + 1]
        BY <1>3, <3>3, Zenon DEF StopScan
      <4>2. stop.n + 1 \in 0 .. MaxServe - 1 /\ stop.n + 1 \in Nat
        BY <3>1, <3>3
      <4>. QED BY <3>1, <4>1, <4>2, Zenon DEF Slots
    <3>. QED BY <3>2, <3>3, Zenon
  <2>3. Shape'
    BY <2>1, <2>2, Zenon DEF Shape
  <2>. QED BY <2>1, <2>3, Zenon DEF Quiet
<1>4. CASE StopWait
  <2>1. /\ stop' \in [pc : {"idle", "listen", "join", "scan", "wait", "done", "gaveup"}, n : Nat]
        /\ stop'.pc # "scan"
    BY <1>4 DEF StopWait, Shape
  <2>2. Shape'
    BY <1>4, <2>1, Zenon DEF StopWait, Shape
  <2>. QED BY <1>4, <2>2, Zenon DEF Quiet, StopWait
<1>. QED BY <1>1, <1>2, <1>3, <1>4, Zenon

\* Closing the listening socket empties the backlog.
LEMMA ListenOwned ==
  ASSUME Owned, StopListen
  PROVE Owned'
<1>. USE DEF Owned
<1>1. /\ backlog' = <<>> /\ \A j \in Peers : net'[j] = "none" => net[j] = "none"
      /\ net' \in [Peers -> Open \cup {"none", "closed"}]
      /\ UNCHANGED <<acc, conn, ring, thr>>
  BY Zenon DEF StopListen, Shape
<1>2. Shape'
  <2>1. backlog' \in Seq(Peers) /\ listening' = FALSE /\ stop' = [pc |-> "join", n |-> 0] /\ udp' = udp
    BY <1>1 DEF StopListen
  <2>. QED BY <1>1, <2>1, Zenon DEF Shape
<1>3. OnePlace'
  BY <1>1 DEF OnePlace, Queued
<1>4. OwnSlot' /\ OneUser'
  BY <1>1, SMTT(30) DEF OwnSlot, OneUser, Serving, Using, ClientOf
<1>. QED BY <1>2, <1>3, <1>4, Zenon

-----------------------------------------------------------------------------
(* What was taken is given back *)

\* What is active or open belongs to someone who gives it back.
Kept ==
  /\ \A c \in RingClients : ring[c] =>
       \/ acc.pc = "slot" /\ acc.cid = c
       \/ \E k \in Peers : Using(k) /\ ClientOf(k) = c
  /\ \A i \in Slots : conn[i].active => \E k \in Peers : Serving(k) /\ thr[k].slot = i
  /\ \A k \in Peers : net[k] \in Open => Queued(k) \/ acc.fd = k \/ thr[k].pc \in Busy

\* What btelem_server_stop has behind it.
Stopping ==
  /\ stop.pc \in {"join", "scan", "wait", "done", "gaveup"} => ~listening /\ backlog = <<>>
  /\ stop.pc \in {"scan", "wait", "done", "gaveup"} => acc.pc = "exit"
  /\ stop.pc = "done" => \A i \in Slots : ~conn[i].active

-----------------------------------------------------------------------------
\* A step that hands nothing over keeps what is held with its holder.
LEMMA QuietKept ==
  ASSUME Owned, Kept, Shape', Quiet
  PROVE Kept'
<1>1. \A j \in Peers : /\ Serving(j)' <=> Serving(j)
                       /\ Using(j)' <=> Using(j)
                       /\ thr'[j].slot = thr[j].slot
  BY Zenon DEF Serving, Using, Threads, Busy, Quiet
<1>2. \A j \in Peers : ClientOf(j)' = ClientOf(j) /\ (Queued(j)' <=> Queued(j))
  BY Zenon DEF ClientOf, Queued, Quiet
<1>3. \A j \in Peers : net'[j] \in Open =>
        net[j] \in Open /\ (thr[j].pc \in Busy => thr'[j].pc \in Busy)
  BY Zenon DEF Quiet
<1>. QED BY <1>1, <1>2, <1>3 DEF Kept, Quiet

\* A new connection is held by the backlog.
LEMMA ConnectKept ==
  ASSUME Owned, Kept, NEW k \in Peers, Connect(k)
  PROVE Kept'
<1>1. \A j \in Peers : Queued(j)' <=> Queued(j) \/ j = k
  <2>1. backlog \in Seq(Peers) /\ backlog' = Append(backlog, k)
    BY Zenon DEF Connect, Owned, Shape
  <2>. QED BY <2>1 DEF Queued
<1>2. \A j \in Peers : j # k => net'[j] = net[j]
  BY Zenon DEF Connect, Owned, Shape
<1>. QED BY <1>1, <1>2, ZenonT(30) DEF Connect, Kept, Serving, Using, ClientOf

\* accept_thread holds the connection it took and the client it claimed until a
\* client thread has them, or gives them back; a thread that could not be created
\* would have neither.
LEMMA AcceptKept ==
  ASSUME Owned, Kept, AcceptStep, "thread" \notin Faults
  PROVE Kept'
<1>. USE DEF Owned
<1>1. CASE AcceptTest \/ AcceptFails
  <2>1. /\ acc'.pc # "slot" /\ acc.pc # "slot" /\ acc'.fd = acc.fd
        /\ UNCHANGED <<backlog, net, conn, ring, thr>>
    BY <1>1, Zenon DEF AcceptTest, AcceptFails, Shape
  <2>. QED BY <2>1, Zenon DEF Kept, Serving, Using, ClientOf, Queued
<1>2. CASE Accept
  <2>1. /\ backlog \in Seq(Peers) /\ backlog # <<>> /\ backlog' = Tail(backlog)
        /\ acc'.fd = Head(backlog) /\ acc'.pc = "find" /\ acc.pc = "accept" /\ acc.fd = NoPeer
        /\ UNCHANGED <<net, conn, ring, thr>>
    BY <1>2, Zenon DEF Accept, Shape, OnePlace
  <2>2. \A j \in Peers : Queued(j) => Queued(j)' \/ acc'.fd = j
    <3>. SUFFICES ASSUME NEW j \in Peers, NEW n \in 1 .. Len(backlog), backlog[n] = j
                  PROVE Queued(j)' \/ acc'.fd = j
      BY Zenon DEF Queued
    <3>1. CASE n = 1
      BY <2>1, <3>1
    <3>2. CASE n # 1
      <4>1. n - 1 \in 1 .. Len(backlog') /\ backlog'[n - 1] = j
        BY <2>1, <3>2
      <4>. QED BY <4>1, Zenon DEF Queued
    <3>. QED BY <3>1, <3>2, Zenon
  <2>3. \A j \in Peers : acc.fd # j
    BY <2>1, ServeAssumption, Zenon
  <2>. QED BY <2>1, <2>2, <2>3, Zenon DEF Kept, Serving, Using, ClientOf
<1>3. CASE AcceptFind
  <2>1. acc.pc = "find" /\ acc.fd \in Peers /\ UNCHANGED <<backlog, conn, ring, thr>>
    BY <1>3, Zenon DEF AcceptFind, OnePlace
  <2>2. acc'.pc # "slot" /\ \A j \in Peers : net'[j] \in Open => net[j] \in Open /\ (acc.fd = j => acc'.fd = j)
    <3>1. CASE FreeClients = {}
      BY <1>3, <2>1, <3>1, ZenonT(30) DEF AcceptFind, Shape, Open, Gone
    <3>2. CASE FreeClients # {}
      BY <1>3, <3>2, Zenon DEF AcceptFind, Shape
    <3>. QED BY <3>1, <3>2, Zenon
  <2>. QED BY <2>1, <2>2, Zenon DEF Kept, Serving, Using, ClientOf, Queued
<1>4. CASE AcceptClaim
  <2>1. /\ acc'.pc = "slot" /\ acc'.cid = acc.cid /\ acc'.fd = acc.fd /\ acc.pc = "claim"
        /\ \A c \in RingClients : c # acc.cid => ring'[c] = ring[c]
        /\ UNCHANGED <<backlog, net, conn, thr>>
    BY <1>4, Zenon DEF AcceptClaim, Shape
  <2>. QED BY <2>1 DEF Kept, Serving, Using, ClientOf, Queued
<1>5. CASE AcceptRefused
  <2>1. acc.fd \in Peers /\ acc.cid \in RingClients
    BY <1>5, Zenon DEF AcceptRefused, OnePlace, Shape
  <2>2. /\ ~ring'[acc.cid] /\ \A c \in RingClients : c # acc.cid => ring'[c] = ring[c]
        /\ net'[acc.fd] \notin Open /\ \A j \in Peers : j # acc.fd => net'[j] = net[j]
        /\ UNCHANGED <<backlog, conn, thr>>
    BY <1>5, <2>1, Zenon DEF AcceptRefused, Shape, Open, Gone
  <2>. QED BY <2>1, <2>2 DEF Kept, Serving, Using, ClientOf, Queued
<1>6. CASE AcceptServe
  <2>0. PICK k \in Peers : k = acc.fd
    BY <1>6, Zenon DEF AcceptServe, OnePlace
  <2>. DEFINE i == First(FreeSlots)
              t == [NoThread EXCEPT !.pc = "schema", !.slot = i]
  <2>1. i \in Slots /\ ~conn[i].active
    BY <1>6, FirstSlot, Zenon DEF AcceptServe
  <2>2. /\ conn' = [conn EXCEPT ![i] = [active |-> TRUE, fd |-> k, cid |-> acc.cid]]
        /\ thr' = [thr EXCEPT ![k] = t] /\ acc.pc = "slot"
        /\ UNCHANGED <<backlog, net, ring>>
    BY <1>6, <2>0, Zenon DEF AcceptServe
  <2>3. t.pc = "schema" /\ t.slot = i
    BY Zenon DEF NoThread
  <2>. HIDE DEF i, t
  <2>4. /\ thr'[k] = t /\ \A j \in Peers : j # k => thr'[j] = thr[j]
        /\ conn'[i].cid = acc.cid /\ \A l \in Slots : l # i => conn'[l] = conn[l]
    BY <2>1, <2>2, Zenon DEF Shape
  <2>5. \A j \in Peers : Serving(j) => j # k /\ thr[j].slot # i /\ thr[j].slot \in Slots
    BY <2>0, <2>1, Zenon DEF OwnSlot, OnePlace, Serving, Shape
  <2>6. \A j \in Peers : Serving(j) => /\ Serving(j)' /\ thr'[j].slot = thr[j].slot
                                       /\ Using(j) => Using(j)' /\ ClientOf(j)' = ClientOf(j)
    BY <2>4, <2>5, Zenon DEF Serving, Using, ClientOf
  <2>7. Serving(k)' /\ Using(k)' /\ ClientOf(k)' = acc.cid /\ thr'[k].slot = i /\ thr'[k].pc \in Busy
    BY <2>3, <2>4, Zenon DEF Serving, Using, ClientOf, Threads, Busy
  <2>8. \A c \in RingClients : ring'[c] => \E j \in Peers : Using(j)' /\ ClientOf(j)' = c
    BY <2>2, <2>6, <2>7 DEF Kept, Using
  <2>9. \A l \in Slots : conn'[l].active => \E j \in Peers : Serving(j)' /\ thr'[j].slot = l
    BY <2>4, <2>6, <2>7 DEF Kept
  <2>10. \A j \in Peers : net'[j] \in Open => Queued(j)' \/ acc'.fd = j \/ thr'[j].pc \in Busy
    BY <2>0, <2>2, <2>4, <2>7, Zenon DEF Kept, Queued
  <2>. QED BY <2>8, <2>9, <2>10, Zenon DEF Kept
<1>. QED BY <1>1, <1>2, <1>3, <1>4, <1>5, <1>6, Zenon DEF AcceptStep

\* client_thread's last steps drop its client and its slot as it stops holding them.
LEMMA ThreadKept ==
  ASSUME Owned, Kept, NEW k \in Peers, UnsetFd(k) \/ Release(k) \/ Clear(k)
  PROVE Kept'
<1>. USE DEF Owned
<1>0. thr \in [Peers -> ThreadType] /\ thr[k].slot \in Slots
  BY Zenon DEF Shape, ThreadType
<1>1. CASE UnsetFd(k)
  <2>1. thr[k].pc = "unset" /\ conn' = [conn EXCEPT ![thr[k].slot].fd = NoPeer] /\ Goto(k, "release")
        /\ UNCHANGED <<backlog, net, acc, ring>>
    BY <1>1, Zenon DEF UnsetFd
  <2>2. /\ thr'[k].pc = "release" /\ \A j \in Peers : thr'[j].slot = thr[j].slot
        /\ \A j \in Peers : j # k => thr'[j] = thr[j]
    BY <1>0, <2>1, Zenon DEF Goto, ThreadType
  <2>3. \A l \in Slots : conn'[l].active = conn[l].active /\ conn'[l].cid = conn[l].cid
    BY <1>0, <2>1 DEF Shape
  <2>4. \A j \in Peers : /\ Serving(j)' <=> Serving(j)
                         /\ Using(j)' <=> Using(j)
                         /\ thr[j].pc \in Busy => thr'[j].pc \in Busy
    BY <2>1, <2>2, Zenon DEF Serving, Using, Threads, Busy
  <2>5. \A j \in Peers : ClientOf(j)' = ClientOf(j)
    BY <1>0, <2>2, <2>3, Zenon DEF ClientOf, ThreadType
  <2>. QED BY <2>1, <2>2, <2>3, <2>4, <2>5 DEF Kept, Queued
<1>2. CASE Release(k)
  <2>1. thr[k].pc = "release" /\ ring' = [ring EXCEPT ![ClientOf(k)] = FALSE] /\ Goto(k, "clear")
        /\ UNCHANGED <<backlog, net, acc, conn>>
    BY <1>2, Zenon DEF Release, ClientOf
  <2>2. /\ thr'[k].pc = "clear" /\ \A j \in Peers : thr'[j].slot = thr[j].slot
        /\ \A j \in Peers : j # k => thr'[j] = thr[j]
    BY <1>0, <2>1, Zenon DEF Goto, ThreadType
  <2>3. ClientOf(k) \in RingClients
    BY <1>0, Zenon DEF ClientOf, Shape
  <2>4. ~ring'[ClientOf(k)] /\ \A c \in RingClients : c # ClientOf(k) => ring'[c] = ring[c]
    BY <2>1, <2>3, Zenon DEF Shape
  <2>5. \A j \in Peers : /\ Serving(j)' <=> Serving(j)
                         /\ Using(j) /\ j # k => Using(j)'
                         /\ thr[j].pc \in Busy => thr'[j].pc \in Busy
    BY <2>1, <2>2, Zenon DEF Serving, Using, Threads, Busy
  <2>6. \A j \in Peers : ClientOf(j)' = ClientOf(j)
    BY <2>1, <2>2, Zenon DEF ClientOf
  <2>. QED BY <2>1, <2>2, <2>4, <2>5, <2>6, SMTT(30) DEF Kept, Queued
<1>3. CASE Clear(k)
  <2>. DEFINE i == thr[k].slot
  <2>1. thr[k].pc = "clear" /\ conn' = [conn EXCEPT ![i].active = FALSE] /\ Goto(k, "exit")
        /\ UNCHANGED <<backlog, net, acc, ring>>
    BY <1>3, Zenon DEF Clear
  <2>2. /\ thr'[k].pc = "exit" /\ \A j \in Peers : thr'[j].slot = thr[j].slot
        /\ \A j \in Peers : j # k => thr'[j] = thr[j]
    BY <1>0, <2>1, Zenon DEF Goto, ThreadType
  <2>3. /\ \A l \in Slots : conn'[l].cid = conn[l].cid /\ (l # i => conn'[l] = conn[l])
        /\ ~conn'[i].active
    <3>1. conn \in [Slots -> [active : BOOLEAN, fd : Peers \cup {NoPeer}, cid : RingClients]] /\ i \in Slots
      BY <1>0, Zenon DEF Shape
    <3>. HIDE DEF i
    <3>. QED BY <2>1, <3>1, Zenon
  <2>4. \A j \in Peers : /\ Serving(j) /\ j # k => Serving(j)'
                         /\ Using(j)' <=> Using(j)
                         /\ thr[j].pc \in Busy => thr'[j].pc \in Busy
    BY <2>1, <2>2, Zenon DEF Serving, Using, Threads, Busy
  <2>5. \A j \in Peers : ClientOf(j)' = ClientOf(j)
    BY <1>0, <2>2, <2>3, Zenon DEF ClientOf, ThreadType
  <2>. QED BY <2>1, <2>2, <2>3, <2>4, <2>5 DEF Kept, Queued
<1>. QED BY <1>1, <1>2, <1>3, Zenon

\* Closing the listening socket closes the connections that wait on it.
LEMMA ListenKept ==
  ASSUME Owned, Kept, StopListen
  PROVE Kept'
<1>1. /\ \A j \in Peers : net'[j] \in Open => net[j] \in Open /\ ~Queued(j)
      /\ UNCHANGED <<acc, conn, ring, thr>>
  BY Zenon DEF StopListen, Owned, Shape, Queued, Open, Gone
<1>. QED BY <1>1, Zenon DEF Kept, Serving, Using, ClientOf

-----------------------------------------------------------------------------
\* With no UDP server a step is quiet, hands something over, or is of the stop.
LEMMA NextCases ==
  ASSUME Owned, ~Udp, Next
  PROVE \/ Shape' /\ Quiet
        \/ \E k \in Peers : Connect(k) \/ UnsetFd(k) \/ Release(k) \/ Clear(k)
        \/ AcceptStep \/ StopListen
<1>1. ~UdpFind /\ ~UdpClaim /\ ~UdpStop
  BY Zenon DEF UdpFind, UdpClaim, UdpStop, Owned, Shape
<1>2. ASSUME NEW k \in Peers, PeerStep(k) \/ Stall(k) PROVE Shape' /\ Quiet
  BY <1>2, PeerQuiet, Zenon
<1>3. ASSUME NEW k \in Peers, ThreadStep(k)
      PROVE (Shape' /\ Quiet) \/ UnsetFd(k) \/ Release(k) \/ Clear(k)
  BY <1>3, ThreadQuiet, Zenon DEF ThreadStep
<1>4. ASSUME StopFlag \/ StopStep PROVE (Shape' /\ Quiet) \/ StopListen
  BY <1>4, StopQuiet, Zenon DEF StopStep
<1>. QED BY <1>1, <1>2, <1>3, <1>4, Zenon DEF Next

\* Owned is inductive when there is no UDP server.
LEMMA OwnedStep ==
  ASSUME Owned, ~Udp, [Next]_vars
  PROVE Owned'
<1>1. CASE UNCHANGED vars
  <2>1. Shape' /\ Quiet
    BY <1>1, Zenon DEF vars, Owned, Shape, Quiet
  <2>. QED BY <2>1, QuietOwned, Zenon
<1>2. CASE Next
  BY <1>2, NextCases, QuietOwned, ConnectOwned, ThreadOwned, AcceptOwned, ListenOwned, Zenon
<1>. QED BY <1>1, <1>2, Zenon

\* Kept is inductive relative to Owned when client threads can be created.
LEMMA KeptStep ==
  ASSUME Owned, Kept, ~Udp, "thread" \notin Faults, [Next]_vars
  PROVE Kept'
<1>1. CASE UNCHANGED vars
  <2>1. Shape' /\ Quiet
    BY <1>1, Zenon DEF vars, Owned, Shape, Quiet
  <2>. QED BY <2>1, QuietKept, Zenon
<1>2. CASE Next
  BY <1>2, NextCases, QuietKept, ConnectKept, ThreadKept, AcceptKept, ListenKept, Zenon
<1>. QED BY <1>1, <1>2, Zenon

\* Stopping is inductive relative to Owned: the accept thread does not come back, and
\* only the accept thread activates a slot.
LEMMA StoppingStep ==
  ASSUME Owned, Stopping, [Next]_vars
  PROVE Stopping'
<1>. USE DEF Stopping
<1>1. ASSUME UNCHANGED <<listening, backlog, acc, conn, stop>> PROVE Stopping'
  BY <1>1, Zenon
<1>2. CASE UNCHANGED vars
  BY <1>1, <1>2, Zenon DEF vars
<1>3. ASSUME NEW k \in Peers, Connect(k) \/ PeerStep(k) \/ Stall(k) PROVE Stopping'
  BY <1>3 DEF Connect, PeerStep, Stall
<1>4. ASSUME NEW k \in Peers, ThreadStep(k) PROVE Stopping'
  <2>1. CASE UnsetFd(k) \/ Clear(k)
    <3>1. UNCHANGED <<listening, backlog, acc, stop>>
      BY <2>1, Zenon DEF UnsetFd, Clear
    <3>2. \A i \in Slots : conn'[i].active => conn[i].active
      <4>1. conn \in [Slots -> [active : BOOLEAN, fd : Peers \cup {NoPeer}, cid : RingClients]]
        BY Zenon DEF Owned, Shape
      <4>2. CASE conn' = [conn EXCEPT ![thr[k].slot].fd = NoPeer]
        BY <4>1, <4>2, Zenon
      <4>3. CASE conn' = [conn EXCEPT ![thr[k].slot].active = FALSE]
        BY <4>1, <4>3, Zenon
      <4>. QED BY <2>1, <4>2, <4>3, Zenon DEF UnsetFd, Clear
    <3>. QED BY <3>1, <3>2, Zenon
  <2>2. CASE Release(k)
    BY <1>1, <2>2, Zenon DEF Release
  <2>3. CASE SendSchema(k) \/ LoopExit(k) \/ DrainPacket(k) \/ SendPacket(k) \/ DrainEmpty(k) \/ CloseFd(k)
    BY <1>1, <2>3, Zenon DEF SendSchema, LoopExit, DrainPacket, SendPacket, DrainEmpty, CloseFd
  <2>. QED BY <1>4, <2>1, <2>2, <2>3, Zenon DEF ThreadStep
<1>5. CASE AcceptStep
  <2>1. UNCHANGED <<listening, stop>> /\ acc.pc # "exit" /\ (backlog = <<>> => backlog' = backlog)
    BY <1>5, Zenon DEF AcceptStep, AcceptTest, Accept, AcceptFails, AcceptFind, AcceptClaim,
                AcceptRefused, AcceptServe
  <2>. QED BY <2>1, Zenon
<1>6. CASE StopFlag \/ StopListen \/ StopJoin \/ StopScan
  BY <1>6 DEF StopFlag, StopListen, StopJoin, StopScan, Owned, Shape
<1>7. CASE StopWait
  <2>1. UNCHANGED <<listening, backlog, acc, conn>> /\ stop.pc = "wait"
    BY <1>7, Zenon DEF StopWait
  <2>2. stop'.pc = "done" => FreeSlots = Slots
    BY <1>7, Zenon DEF StopWait, Owned, Shape
  <2>. QED BY <2>1, <2>2, Zenon DEF FreeSlots
<1>8. CASE UdpFind \/ UdpClaim \/ UdpStop
  BY <1>1, <1>8, Zenon DEF UdpFind, UdpClaim, UdpStop
<1>. QED BY <1>2, <1>3, <1>4, <1>5, <1>6, <1>7, <1>8, Zenon DEF Next, StopStep

-----------------------------------------------------------------------------
\* A ring client that is not the UDP server's has at most the one user.
LEMMA UsersOf ==
  ASSUME Owned, NEW c \in RingClients
  PROVE /\ Users(c) = {} \/ \E x : Users(c) = {x}
        /\ Users(c) # {} <=> \/ acc.pc = "slot" /\ acc.cid = c
                             \/ \E k \in Peers : Using(k) /\ ClientOf(k) = c
        /\ Users(c) # {} => ring[c]
<1>1. udp.pc = "off"
  BY Zenon DEF Owned, Shape
<1>. DEFINE U == {k \in Peers : Using(k) /\ ClientOf(k) = c}
<1>2. Users(c) = U \cup (IF acc.pc = "slot" /\ acc.cid = c THEN {"accept"} ELSE {})
  BY <1>1, Zenon DEF Users, Using, ClientOf
<1>3. \A j, k \in U : j = k
  BY Zenon DEF Owned, OneUser
<1>4. CASE acc.pc = "slot" /\ acc.cid = c
  <2>1. U = {}
    BY <1>4, Zenon DEF Owned, OneUser
  <2>. QED BY <1>2, <1>4, <2>1, Zenon DEF Owned, OneUser
<1>5. CASE ~(acc.pc = "slot" /\ acc.cid = c)
  <2>1. Users(c) = U
    BY <1>2, <1>5, Zenon
  <2>2. U = {} \/ \E x : U = {x}
    <3>. HIDE DEF U
    <3>. QED BY <1>3
  <2>. QED BY <1>5, <2>1, <2>2, Zenon DEF Owned, OneUser
<1>. QED BY <1>4, <1>5, Zenon

\* Ring clients and connection slots of the TCP server have one owner at a time, as
\* accept_thread hands them out and client_thread gives them back, whatever the
\* number of peers, slots and clients and whichever calls fail, as long as no other
\* thread calls btelem_client_open.
THEOREM OwnersAreUnique ==
  ASSUME ~Udp
  PROVE Spec => []OneOwner
<1>1. ASSUME Owned PROVE OneOwner
  <2>1. ASSUME NEW c \in RingClients PROVE Cardinality(Users(c)) <= 1 /\ (Users(c) # {} => ring[c])
    <3>1. Users(c) # {} => ring[c]
      BY <1>1, UsersOf, Zenon
    <3>2. CASE Users(c) = {}
      BY <3>1, <3>2, FS_EmptySet
    <3>3. CASE \E x : Users(c) = {x}
      <4>1. PICK x : Users(c) = {x}
        BY <3>3, Zenon
      <4>2. Cardinality({x}) = 1
        BY FS_Singleton, Zenon
      <4>. QED BY <3>1, <4>1, <4>2
    <3>. QED BY <1>1, <3>2, <3>3, UsersOf, Zenon
  <2>. QED BY <1>1, <2>1, Zenon DEF OneOwner, IndependentClients, Owned
<1>2. Owned /\ [Next]_vars => Owned'
  BY OwnedStep, Zenon
<1>. QED BY <1>1, <1>2, OwnedInit, PTL DEF Spec

\* The inductive invariant behind the other two.
LEMMA KeptAlways ==
  ASSUME ~Udp, "thread" \notin Faults
  PROVE Spec => [](Owned /\ Kept /\ Stopping)
<1>1. Init => Owned /\ Kept /\ Stopping
  <2>1. Init => Kept /\ Stopping
    BY DEF Init, Kept, Stopping, Open, Gone
  <2>. QED BY <2>1, OwnedInit, Zenon
<1>2. Owned /\ Kept /\ Stopping /\ [Next]_vars => (Owned /\ Kept /\ Stopping)'
  BY OwnedStep, KeptStep, StoppingStep, Zenon
<1>. QED BY <1>1, <1>2, PTL DEF Spec

\* Every exit of accept_thread and client_thread gives back the ring client, the
\* slot and the socket it took, as long as client threads can be created.
THEOREM NothingIsLeaked ==
  ASSUME ~Udp, "thread" \notin Faults
  PROVE Spec => []NothingLeaked
<1>1. ASSUME Owned, Kept PROVE NothingLeaked
  <2>1. \A c \in RingClients : ring[c] => Users(c) # {}
    BY <1>1, UsersOf, Zenon DEF Kept
  <2>. QED BY <1>1, <2>1, Zenon DEF NothingLeaked, Kept, Queued, Busy
<1>. QED BY <1>1, KeptAlways, PTL

\* When btelem_server_stop has seen no active slot, no thread of the server runs and
\* none of its sockets and ring clients is open.
THEOREM StopIsComplete ==
  ASSUME ~Udp, "thread" \notin Faults
  PROVE Spec => []StopComplete
<1>1. ASSUME Owned, Kept, Stopping PROVE StopComplete
  <2>. SUFFICES ASSUME stop.pc = "done" PROVE /\ \A k \in Peers : ~Serving(k) /\ net[k] \notin Open
                                              /\ \A c \in RingClients : ~ring[c]
    BY Zenon DEF StopComplete
  <2>1. acc.pc = "exit" /\ backlog = <<>> /\ \A i \in Slots : ~conn[i].active
    BY <1>1, Zenon DEF Stopping
  <2>2. \A k \in Peers : ~Serving(k)
    BY <1>1, <2>1, Zenon DEF Owned, OwnSlot, Shape
  <2>3. \A k \in Peers : ~Queued(k) /\ acc.fd # k /\ thr[k].pc \notin Busy
    BY <1>1, <2>1, <2>2, ServeAssumption DEF Owned, OnePlace, Queued, Serving, Threads, Busy
  <2>4. \A k \in Peers : net[k] \notin Open
    BY <1>1, <2>3, Zenon DEF Kept
  <2>5. \A c \in RingClients : ~ring[c]
    BY <1>1, <2>1, <2>2, Zenon DEF Kept, Using
  <2>. QED BY <2>2, <2>4, <2>5, Zenon
<1>. QED BY <1>1, KeptAlways, PTL
=============================================================================
