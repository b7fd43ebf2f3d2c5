------------------------------ MODULE LossyLog ------------------------------
(***************************************************************************)
(* What the btelem ring promises: an append-only log that each client      *)
(* walks with a cursor of its own.  Entries are claimed in order and       *)
(* committed in any order.  A client takes or, if it does not want it,     *)
(* passes the committed entry at its cursor; it misses an entry, and       *)
(* counts it, only when at least Capacity newer ones have been claimed.    *)
(***************************************************************************)
EXTENDS Integers

CONSTANTS Clients,     \* client slots
          Capacity     \* how many entries the log is sure to keep

VARIABLES size,        \* entries claimed
          committed,   \* those whose contents can be read
          on, pos,     \* per client: open, position
          taken, unwanted, missed,   \* per client: what became of the entries passed
          latest       \* per client: the entry taken last, -1 if none

logVars == <<size, committed, on, pos, taken, unwanted, missed, latest>>

Init ==
  /\ size = 0 /\ committed = {}
  /\ on = [c \in Clients |-> FALSE]
  /\ pos = [c \in Clients |-> 0]
  /\ taken = [c \in Clients |-> 0]
  /\ unwanted = [c \in Clients |-> 0]
  /\ missed = [c \in Clients |-> 0]
  /\ latest = [c \in Clients |-> -1]

Append1 ==
  /\ size' = size + 1
  /\ UNCHANGED <<committed, on, pos, taken, unwanted, missed, latest>>

Commit(s) ==
  /\ s \in 0 .. size - 1 /\ s \notin committed
  /\ committed' = committed \cup {s}
  /\ UNCHANGED <<size, on, pos, taken, unwanted, missed, latest>>

OpenAtEnd(c) ==
  /\ ~on[c]
  /\ on' = [on EXCEPT ![c] = TRUE]
  /\ pos' = [pos EXCEPT ![c] = size]
  /\ taken' = [taken EXCEPT ![c] = 0]
  /\ unwanted' = [unwanted EXCEPT ![c] = 0]
  /\ missed' = [missed EXCEPT ![c] = 0]
  /\ latest' = [latest EXCEPT ![c] = -1]
  /\ UNCHANGED <<size, committed>>

Leave(c) ==
  /\ on[c]
  /\ on' = [on EXCEPT ![c] = FALSE]
  /\ UNCHANGED <<size, committed, pos, taken, unwanted, missed, latest>>

Take(c) ==
  /\ on[c] /\ pos[c] \in committed
  /\ pos' = [pos EXCEPT ![c] = @ + 1]
  /\ taken' = [taken EXCEPT ![c] = @ + 1]
  /\ latest' = [latest EXCEPT ![c] = pos[c]]
  /\ UNCHANGED <<size, committed, on, unwanted, missed>>

Pass(c) ==
  /\ on[c] /\ pos[c] \in committed
  /\ pos' = [pos EXCEPT ![c] = @ + 1]
  /\ unwanted' = [unwanted EXCEPT ![c] = @ + 1]
  /\ UNCHANGED <<size, committed, on, taken, missed, latest>>

Miss(c) ==
  /\ on[c]
  /\ \E n \in 1 .. size - Capacity - pos[c] :
        /\ pos' = [pos EXCEPT ![c] = @ + n]
        /\ missed' = [missed EXCEPT ![c] = @ + n]
  /\ UNCHANGED <<size, committed, on, taken, unwanted, latest>>

Next ==
  \/ Append1
  \/ \E s \in 0 .. size - 1 : Commit(s)
  \/ \E c \in Clients : OpenAtEnd(c) \/ Leave(c) \/ Take(c) \/ Pass(c) \/ Miss(c)

Spec == Init /\ [][Next]_logVars
=============================================================================
