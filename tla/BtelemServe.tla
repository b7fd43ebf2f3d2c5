---------------------------- MODULE BtelemServe -----------------------------
(***************************************************************************)
(* The TCP server of btelem_serve.c: the accept thread, one client thread  *)
(* per connection, btelem_server_stop, and the table of ring clients they  *)
(* share with every other caller of btelem_client_open, of which the UDP   *)
(* server of btelem_serve_udp.c stands for all.                            *)
(*                                                                         *)
(* A connection is named by its peer, and so is its descriptor: a peer     *)
(* connects once.  What a drain yields and what a write carries is left    *)
(* out; whether it succeeds, fails or waits is kept.  clients_mu is held   *)
(* for one step everywhere but in the scan of btelem_server_stop.          *)
(***************************************************************************)
EXTENDS Naturals, FiniteSets, Sequences

CONSTANTS Peers,        \* viewers that connect
          NoPeer,       \* fd -1
          MaxServe,     \* BTELEM_SERVE_MAX_CLIENTS
          MaxClients,   \* BTELEM_MAX_CLIENTS
          ProbeEvery,   \* empty drains between two liveness probes, 256 in the code
          StatusEvery,  \* drain iterations in the two seconds between two reports (at
                        \* least 2 for liveness: with 1 an empty drain is a stuttering step)
          WaitRounds,   \* polls of btelem_server_stop, 100 in the code
          Faults,       \* what may fail: "accept", "thread"
          Udp           \* whether the program also starts and stops a UDP server

ASSUME ServeAssumption ==
  /\ IsFiniteSet(Peers) /\ NoPeer \notin Peers
  /\ MaxServe \in Nat \ {0} /\ MaxClients \in Nat \ {0}
  /\ ProbeEvery \in Nat \ {0} /\ StatusEvery \in Nat \ {0} /\ WaitRounds \in Nat
  /\ Faults \subseteq {"accept", "thread"} /\ Udp \in BOOLEAN

VARIABLES
  running,    \* srv->running
  listening,  \* the listening socket is open
  backlog,    \* connections the kernel holds for accept()
  net,        \* state of each connection, as the server's kernel sees it
  reading,    \* the peer takes what is sent to it
  acc,        \* accept thread: where it is, its locals fd and btelem_cid
  conn,       \* srv->clients
  ring,       \* ctx->clients[c].active
  thr,        \* client threads: where each is, its conn, its empty_drains,
              \* iterations since last_report
  stop,       \* btelem_server_stop: where it is, its loop counter
  udp         \* btelem_serve_udp: where it is, its client_id

vars == <<running, listening, backlog, net, reading, acc, conn, ring, thr, stop, udp>>

Slots == 0 .. MaxServe - 1
RingClients == 0 .. MaxClients - 1

\* The peer has gone: it closed, vanished without a word, or the connection is
\* in error.
Gone == {"fin", "lost", "reset"}
\* The descriptor is open in the server.
Open == {"up", "shut"} \cup Gone

Threads == {"none", "schema", "loop", "send", "close", "unset", "release", "clear", "exit"}
NoThread == [pc |-> "none", slot |-> 0, empty |-> 0, since |-> 0]

\* btelem_serve, once bind, listen and pthread_create have succeeded.
Init ==
  /\ running = TRUE /\ listening = TRUE /\ backlog = <<>>
  /\ net = [k \in Peers |-> "none"]
  /\ reading = [k \in Peers |-> TRUE]
  /\ acc = [pc |-> "test", fd |-> NoPeer, cid |-> 0]
  /\ conn = [i \in Slots |-> [active |-> FALSE, fd |-> NoPeer, cid |-> 0]]
  /\ ring = [c \in RingClients |-> FALSE]
  /\ thr = [k \in Peers |-> NoThread]
  /\ stop = [pc |-> "idle", n |-> 0]
  /\ udp = [pc |-> "off", cid |-> 0]

First(S) == CHOOSE i \in S : \A j \in S : i <= j
FreeClients == {c \in RingClients : ~ring[c]}
FreeSlots   == {i \in Slots : ~conn[i].active}

-----------------------------------------------------------------------------
(* The peers and the network *)

\* A connection the kernel accepts on the listening socket.
Connect(k) ==
  /\ net[k] = "none" /\ listening
  /\ net' = [net EXCEPT ![k] = "up"]
  /\ backlog' = Append(backlog, k)
  /\ UNCHANGED <<running, listening, reading, acc, conn, ring, thr, stop, udp>>

\* The peer closes (FIN), or vanishes and is found out by keepalive or by a
\* retransmission timeout.
PeerStep(k) ==
  /\ \/ net[k] = "up"   /\ \E s \in {"fin", "lost"} : net' = [net EXCEPT ![k] = s]
     \/ net[k] = "lost" /\ net' = [net EXCEPT ![k] = "reset"]
  /\ UNCHANGED <<running, listening, backlog, reading, acc, conn, ring, thr, stop, udp>>

\* A live peer stops or resumes reading: the send buffer, which only its thread
\* fills, is full, or not.
Stall(k) ==
  /\ net[k] = "up" /\ thr[k].pc \in {"schema", "send"}
  /\ reading' = [reading EXCEPT ![k] = ~reading[k]]
  /\ UNCHANGED <<running, listening, backlog, net, acc, conn, ring, thr, stop, udp>>

-----------------------------------------------------------------------------
(* accept_thread *)

AcceptTest ==
  /\ acc.pc = "test"
  /\ acc' = [acc EXCEPT !.pc = IF running THEN "accept" ELSE "exit"]
  /\ UNCHANGED <<running, listening, backlog, net, reading, conn, ring, thr, stop, udp>>

Accept ==
  /\ acc.pc = "accept" /\ listening /\ backlog # <<>>
  /\ backlog' = Tail(backlog)
  /\ acc' = [pc |-> "find", fd |-> Head(backlog), cid |-> 0]
  /\ UNCHANGED <<running, listening, net, reading, conn, ring, thr, stop, udp>>

\* accept() fails: its socket is closed, or for a transient reason.
AcceptFails ==
  /\ acc.pc = "accept" /\ (~listening \/ "accept" \in Faults)
  /\ acc' = [acc EXCEPT !.pc = "exit"]
  /\ UNCHANGED <<running, listening, backlog, net, reading, conn, ring, thr, stop, udp>>

\* The refusal that leaves the socket open.
AcceptFindKeep ==
  /\ acc.pc = "find"
  /\ acc' = IF FreeClients = {}
            THEN [acc EXCEPT !.pc = "test", !.fd = NoPeer]
            ELSE [acc EXCEPT !.pc = "claim", !.cid = First(FreeClients)]
  /\ UNCHANGED <<running, listening, backlog, net, reading, conn, ring, thr, stop, udp>>

\* btelem_client_open finds the first client that is not active, or none.
AcceptFind ==
  /\ acc.pc = "find"
  /\ IF FreeClients = {}
     THEN /\ net' = [net EXCEPT ![acc.fd] = "closed"]
          /\ acc' = [acc EXCEPT !.pc = "test", !.fd = NoPeer]
     ELSE /\ acc' = [acc EXCEPT !.pc = "claim", !.cid = First(FreeClients)]
          /\ UNCHANGED net
  /\ UNCHANGED <<running, listening, backlog, reading, conn, ring, thr, stop, udp>>

\* ... and marks it active.
AcceptClaim ==
  /\ acc.pc = "claim"
  /\ ring' = [ring EXCEPT ![acc.cid] = TRUE]
  /\ acc' = [acc EXCEPT !.pc = "slot"]
  /\ UNCHANGED <<running, listening, backlog, net, reading, conn, thr, stop, udp>>

\* The refusal that forgets to give the ring client back.
AcceptRefusedLeak ==
  /\ acc.pc = "slot" /\ FreeSlots = {}
  /\ net' = [net EXCEPT ![acc.fd] = "closed"]
  /\ acc' = [acc EXCEPT !.pc = "test", !.fd = NoPeer]
  /\ UNCHANGED <<running, listening, backlog, reading, conn, ring, thr, stop, udp>>

\* No free slot: the ring client and the socket are given back.
AcceptRefused ==
  /\ acc.pc = "slot" /\ FreeSlots = {}
  /\ ring' = [ring EXCEPT ![acc.cid] = FALSE]
  /\ net' = [net EXCEPT ![acc.fd] = "closed"]
  /\ acc' = [acc EXCEPT !.pc = "test", !.fd = NoPeer]
  /\ UNCHANGED <<running, listening, backlog, reading, conn, thr, stop, udp>>

\* The first free slot is filled in and its thread created; the result of
\* pthread_create is not looked at.
AcceptServe ==
  /\ acc.pc = "slot" /\ FreeSlots # {}
  /\ LET i == First(FreeSlots) IN
     /\ conn' = [conn EXCEPT ![i] = [active |-> TRUE, fd |-> acc.fd, cid |-> acc.cid]]
     /\ \/ thr' = [thr EXCEPT ![acc.fd] = [NoThread EXCEPT !.pc = "schema", !.slot = i]]
        \/ "thread" \in Faults /\ UNCHANGED thr
  /\ acc' = [acc EXCEPT !.pc = "test", !.fd = NoPeer]
  /\ UNCHANGED <<running, listening, backlog, net, reading, ring, stop, udp>>

AcceptStep == AcceptTest \/ Accept \/ AcceptFails \/ AcceptFind \/ AcceptClaim
                \/ AcceptRefused \/ AcceptServe

-----------------------------------------------------------------------------
(* client_thread *)

Goto(k, p) == thr' = [thr EXCEPT ![k].pc = p]

\* send_all on conn->fd, which leaves the thread at t when it succeeds and at the
\* end when write() fails.  It waits while the peer does not read: a blocked
\* write(), or one that times out and is tried again.  The first write to a peer
\* that closed is answered by a reset.
SendAll(k, t) ==
  \/ /\ net[k] \in {"lost", "fin"} \/ (net[k] = "up" /\ reading[k])
     /\ net' = [net EXCEPT ![k] = IF @ = "fin" THEN "reset" ELSE @]
     /\ thr' = [thr EXCEPT ![k] = t]
  \/ net[k] \in {"reset", "shut"} /\ Goto(k, "close") /\ UNCHANGED net

SendSchema(k) ==
  /\ thr[k].pc = "schema"
  /\ SendAll(k, [thr[k] EXCEPT !.pc = "loop"])
  /\ UNCHANGED <<running, listening, backlog, reading, acc, conn, ring, stop, udp>>

\* while (srv->running)
LoopExit(k) ==
  /\ thr[k].pc = "loop" /\ ~running
  /\ Goto(k, "close")
  /\ UNCHANGED <<running, listening, backlog, net, reading, acc, conn, ring, stop, udp>>

\* btelem_drain_packed returned a packet.
DrainPacket(k) ==
  /\ thr[k].pc = "loop" /\ running
  /\ Goto(k, "send")
  /\ UNCHANGED <<running, listening, backlog, net, reading, acc, conn, ring, stop, udp>>

\* The end of an iteration that leaves empty_drains at e: the two-second report
\* clears it.
EndIteration(k, e) ==
  LET report == thr[k].since + 1 = StatusEvery IN
  [thr[k] EXCEPT !.pc = "loop", !.empty = IF report THEN 0 ELSE e,
                 !.since = IF report THEN 0 ELSE @ + 1]

SendPacket(k) ==
  /\ thr[k].pc = "send"
  /\ SendAll(k, EndIteration(k, 0))
  /\ UNCHANGED <<running, listening, backlog, reading, acc, conn, ring, stop, udp>>

\* No probe: only a failed write ends the loop.
DrainEmptyNoProbe(k) ==
  /\ thr[k].pc = "loop" /\ running
  /\ thr' = [thr EXCEPT ![k] = EndIteration(k, (thr[k].empty + 1) % ProbeEvery)]
  /\ UNCHANGED <<running, listening, backlog, net, reading, acc, conn, ring, stop, udp>>

\* Nothing to send: every ProbeEvery times in a row peer_closed looks for a FIN
\* or an error.  empty_drains is kept modulo ProbeEvery.
DrainEmpty(k) ==
  /\ thr[k].pc = "loop" /\ running
  /\ LET e == (thr[k].empty + 1) % ProbeEvery IN
     IF e = 0 /\ net[k] \in {"fin", "reset", "shut"}
     THEN Goto(k, "close")
     ELSE thr' = [thr EXCEPT ![k] = EndIteration(k, e)]
  /\ UNCHANGED <<running, listening, backlog, net, reading, acc, conn, ring, stop, udp>>

\* The ring client is closed with the socket, and closed again by Release.
CloseFdTwice(k) ==
  /\ thr[k].pc = "close"
  /\ net' = [net EXCEPT ![k] = "closed"]
  /\ ring' = [ring EXCEPT ![conn[thr[k].slot].cid] = FALSE]
  /\ Goto(k, "unset")
  /\ UNCHANGED <<running, listening, backlog, reading, acc, conn, stop, udp>>

CloseFd(k) ==
  /\ thr[k].pc = "close"
  /\ net' = [net EXCEPT ![k] = "closed"]
  /\ Goto(k, "unset")
  /\ UNCHANGED <<running, listening, backlog, reading, acc, conn, ring, stop, udp>>

UnsetFd(k) ==
  /\ thr[k].pc = "unset"
  /\ conn' = [conn EXCEPT ![thr[k].slot].fd = NoPeer]
  /\ Goto(k, "release")
  /\ UNCHANGED <<running, listening, backlog, net, reading, acc, ring, stop, udp>>

\* btelem_client_close(ctx, conn->btelem_client_id)
Release(k) ==
  /\ thr[k].pc = "release"
  /\ ring' = [ring EXCEPT ![conn[thr[k].slot].cid] = FALSE]
  /\ Goto(k, "clear")
  /\ UNCHANGED <<running, listening, backlog, net, reading, acc, conn, stop, udp>>

\* conn->active = 0 under clients_mu.
Clear(k) ==
  /\ thr[k].pc = "clear" /\ stop.pc # "scan"
  /\ conn' = [conn EXCEPT ![thr[k].slot].active = FALSE]
  /\ Goto(k, "exit")
  /\ UNCHANGED <<running, listening, backlog, net, reading, acc, ring, stop, udp>>

ThreadStep(k) == SendSchema(k) \/ LoopExit(k) \/ DrainPacket(k) \/ SendPacket(k)
                   \/ DrainEmpty(k) \/ CloseFd(k) \/ UnsetFd(k) \/ Release(k) \/ Clear(k)

-----------------------------------------------------------------------------
(* btelem_server_stop *)

StopFlag ==
  /\ stop.pc = "idle" /\ running
  /\ running' = FALSE
  /\ stop' = [pc |-> "listen", n |-> 0]
  /\ UNCHANGED <<listening, backlog, net, reading, acc, conn, ring, thr, udp>>

\* The listening socket is left open: accept() is not woken.
StopListenOpen ==
  /\ stop.pc = "listen"
  /\ stop' = [pc |-> "join", n |-> 0]
  /\ UNCHANGED <<running, listening, backlog, net, reading, acc, conn, ring, thr, udp>>

\* shutdown and close of the listening socket: the kernel resets what it holds.
StopListen ==
  /\ stop.pc = "listen"
  /\ listening' = FALSE /\ backlog' = <<>>
  /\ net' = [k \in Peers |-> IF \E n \in 1 .. Len(backlog) : backlog[n] = k
                             THEN "closed" ELSE net[k]]
  /\ stop' = [pc |-> "join", n |-> 0]
  /\ UNCHANGED <<running, reading, acc, conn, ring, thr, udp>>

\* pthread_join, and the lock of clients_mu.
StopJoin ==
  /\ stop.pc = "join" /\ acc.pc = "exit"
  /\ stop' = [pc |-> "scan", n |-> 0]
  /\ UNCHANGED <<running, listening, backlog, net, reading, acc, conn, ring, thr, udp>>

\* The scan that stops short of the last slot.
StopScanShort ==
  LET fd == conn[stop.n].fd IN
  /\ stop.pc = "scan"
  /\ net' = IF conn[stop.n].active /\ fd # NoPeer /\ net[fd] \in Open /\ stop.n + 1 < MaxServe
            THEN [net EXCEPT ![fd] = "shut"] ELSE net
  /\ stop' = IF stop.n + 1 = MaxServe THEN [pc |-> "wait", n |-> 0]
                                      ELSE [stop EXCEPT !.n = @ + 1]
  /\ UNCHANGED <<running, listening, backlog, reading, acc, conn, ring, thr, udp>>

\* One turn of the scan: shutdown(clients[i].fd).  The client thread closes and
\* unsets fd without the lock, so the descriptor may be closed already.
StopScan ==
  LET fd == conn[stop.n].fd IN
  /\ stop.pc = "scan"
  /\ net' = IF conn[stop.n].active /\ fd # NoPeer /\ net[fd] \in Open
            THEN [net EXCEPT ![fd] = "shut"] ELSE net
  /\ stop' = IF stop.n + 1 = MaxServe THEN [pc |-> "wait", n |-> 0]
                                      ELSE [stop EXCEPT !.n = @ + 1]
  /\ UNCHANGED <<running, listening, backlog, reading, acc, conn, ring, thr, udp>>

\* The wait that looks at nothing.
StopWaitBlind ==
  /\ stop.pc = "wait"
  /\ stop' = [stop EXCEPT !.pc = "done"]
  /\ UNCHANGED <<running, listening, backlog, net, reading, acc, conn, ring, thr, udp>>

\* One poll of the wait: finished when no slot is active, given up after
\* WaitRounds of them.  Then clients_mu is destroyed and stop returns.
StopWait ==
  /\ stop.pc = "wait"
  /\ stop' = IF FreeSlots = Slots THEN [stop EXCEPT !.pc = "done"]
             ELSE IF stop.n = WaitRounds THEN [stop EXCEPT !.pc = "gaveup"]
             ELSE [stop EXCEPT !.n = @ + 1]
  /\ UNCHANGED <<running, listening, backlog, net, reading, acc, conn, ring, thr, udp>>

StopStep == StopListen \/ StopJoin \/ StopScan \/ StopWait

-----------------------------------------------------------------------------
(* btelem_serve_udp and btelem_udp_server_stop, called by the application *)

UdpFind ==
  /\ Udp /\ udp.pc = "off" /\ FreeClients # {}
  /\ udp' = [pc |-> "claim", cid |-> First(FreeClients)]
  /\ UNCHANGED <<running, listening, backlog, net, reading, acc, conn, ring, thr, stop>>

UdpClaim ==
  /\ udp.pc = "claim"
  /\ ring' = [ring EXCEPT ![udp.cid] = TRUE]
  /\ udp' = [udp EXCEPT !.pc = "on"]
  /\ UNCHANGED <<running, listening, backlog, net, reading, acc, conn, thr, stop>>

\* The drain thread is joined, or was never created, and the client closed.
UdpStop ==
  /\ udp.pc = "on"
  /\ ring' = [ring EXCEPT ![udp.cid] = FALSE]
  /\ udp' = [udp EXCEPT !.pc = "off"]
  /\ UNCHANGED <<running, listening, backlog, net, reading, acc, conn, thr, stop>>

-----------------------------------------------------------------------------
Next ==
  \/ \E k \in Peers : Connect(k) \/ PeerStep(k) \/ Stall(k) \/ ThreadStep(k)
  \/ AcceptStep \/ StopFlag \/ StopStep
  \/ UdpFind \/ UdpClaim \/ UdpStop

Spec == Init /\ [][Next]_vars

\* Threads run: the scheduler starves none of them, and the kernel gives up on a
\* peer that vanished.  Nothing makes a peer connect, read or close, and nothing
\* makes the application stop the server.  Which of a packet and an empty drain a
\* turn of the loop yields is up to the producers.
FairSpec ==
  /\ Spec
  /\ WF_vars(AcceptStep) /\ WF_vars(StopStep)
  /\ \A k \in Peers : /\ WF_vars(ThreadStep(k))
                      /\ WF_vars(net[k] = "lost" /\ PeerStep(k))

-----------------------------------------------------------------------------
(* Properties *)

Serving(k) == thr[k].pc \in Threads \ {"none", "exit"}

TypeOK ==
  /\ running \in BOOLEAN /\ listening \in BOOLEAN
  /\ backlog \in Seq(Peers) /\ Len(backlog) <= Cardinality(Peers)
  /\ net \in [Peers -> Open \cup {"none", "closed"}]
  /\ reading \in [Peers -> BOOLEAN]
  /\ acc \in [pc : {"test", "accept", "find", "claim", "slot", "exit"},
              fd : Peers \cup {NoPeer}, cid : RingClients]
  /\ conn \in [Slots -> [active : BOOLEAN, fd : Peers \cup {NoPeer}, cid : RingClients]]
  /\ ring \in [RingClients -> BOOLEAN]
  /\ thr \in [Peers -> [pc : Threads, slot : Slots, empty : 0 .. ProbeEvery - 1,
                        since : 0 .. StatusEvery - 1]]
  /\ stop \in [pc : {"idle", "listen", "join", "scan", "wait", "done", "gaveup"},
               n : 0 .. MaxServe + WaitRounds]
  /\ udp \in [pc : {"off", "claim", "on"}, cid : RingClients]

\* Those that drain ring client c, or hold it to hand it to a thread.
Users(c) ==
  {k \in Peers : Serving(k) /\ thr[k].pc # "clear" /\ conn[thr[k].slot].cid = c}
    \cup (IF acc.pc = "slot" /\ acc.cid = c THEN {"accept"} ELSE {})
    \cup (IF udp.pc = "on" /\ udp.cid = c THEN {"udp"} ELSE {})

\* A ring client, that is a cursor and its counts, is used by one thread at a
\* time and stays open while it is used: btelem_client_open hands out free
\* clients, and no thread closes a client that has gone to another.
IndependentClients ==
  \A c \in RingClients : /\ Cardinality(Users(c)) <= 1
                         /\ Users(c) # {} => ring[c]

\* Every exit of accept_thread and client_thread gives back what was taken: an
\* active ring client, an active slot and an open socket each belong to someone
\* who will release it.
NothingLeaked ==
  /\ \A c \in RingClients : ring[c] => Users(c) # {}
  /\ \A i \in Slots : conn[i].active => \E k \in Peers : Serving(k) /\ thr[k].slot = i
  /\ \A k \in Peers : net[k] \in Open =>
       \/ \E n \in 1 .. Len(backlog) : backlog[n] = k
       \/ acc.fd = k
       \/ thr[k].pc \in {"schema", "loop", "send", "close"}

\* conn belongs to its client thread until the thread clears active: it is never
\* handed to another connection under it, although close(), fd = -1 and
\* btelem_client_close read and write it without clients_mu.
OwnSlot ==
  \A k \in Peers : Serving(k) =>
    /\ conn[thr[k].slot].active
    /\ conn[thr[k].slot].fd = IF thr[k].pc \in {"release", "clear"} THEN NoPeer ELSE k
    /\ \A j \in Peers \ {k} : Serving(j) => thr[j].slot # thr[k].slot

\* Ring clients and connection slots each have one owner at a time, from the
\* search that finds one free in accept_thread to the last step of client_thread.
OneOwner == IndependentClients /\ OwnSlot

\* When btelem_server_stop has seen no active slot, nothing of the server is
\* left: no client thread, no open socket, no ring client but the UDP server's.
StopComplete ==
  stop.pc = "done" =>
    /\ \A k \in Peers : ~Serving(k) /\ net[k] \notin Open
    /\ \A c \in RingClients : ring[c] => Users(c) = {"udp"}

\* btelem_server_stop returns: closing the listening socket wakes accept(), and
\* the wait for the client threads is bounded.
StopReturns == stop.pc = "listen" ~> stop.pc \in {"done", "gaveup"}

\* btelem_server_stop makes every client thread end, one that is blocked in
\* write() on a stalled peer included: shutdown() wakes it.
StopUnblocks == stop.pc = "listen" ~> \A k \in Peers : ~Serving(k)

\* The slot of a viewer that went away is reclaimed by its thread, whether or not
\* there is anything to send: by a failed write or by the probe of the empty drains.
SlotsReclaimed ==
  \A k \in Peers : (Serving(k) /\ net[k] \in Gone) ~> ~conn[thr[k].slot].active

\* Each connection gets a slot, or is closed: because the tables are full, or
\* because the server stops.
ConnectionAnswered ==
  \A k \in Peers : net[k] = "up" ~>
    net[k] = "closed" \/ Serving(k) \/ \E i \in Slots : conn[i].active /\ conn[i].fd = k

-----------------------------------------------------------------------------
(* What comments and documentation say and the code does not do: TLC refutes   *)
(* each of these.                                                             *)

\* "Stop the server: close all sockets, join all threads": when
\* btelem_server_stop has returned, no client thread runs.
StopJoinsAll == stop.pc \in {"done", "gaveup"} => \A k \in Peers : ~Serving(k)

\* "If we can't push data within this window we disconnect the slow client
\* instead of wedging the drain thread": a thread with a packet for a peer that
\* does not read gets rid of the packet or of the peer.
SlowClientDisconnected ==
  \A k \in Peers : thr[k].pc = "send" ~> thr[k].pc # "send"
=============================================================================
