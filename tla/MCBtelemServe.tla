--------------------------- MODULE MCBtelemServe ----------------------------
(* Small instances of BtelemServe for TLC. *)
EXTENDS BtelemServe, TLC

\* Peers are interchangeable.  Used for invariants only.
PeerSymmetry == Permutations(Peers)
=============================================================================
