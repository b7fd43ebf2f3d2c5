---------------------------- MODULE MCBtelemRing ----------------------------
(* Small instances of BtelemRing for TLC. *)
EXTENDS BtelemRing, TLC

\* Producers are interchangeable: nothing but their identity tells them apart.
ProducerSymmetry == Permutations(Producers)
=============================================================================
