---------------------------- MODULE MCBtlmFile ----------------------------
(* Packets of one and two entries, in and out of time order, with and        *)
(* without payload, over two ids.                                             *)
EXTENDS BtlmFile

E(i, t, l) == [id |-> i, ts |-> t, len |-> l]

MCPackets == {<<E(1, 1, 1)>>, <<E(2, 2, 0)>>, <<E(1, 3, 2)>>,
              <<E(1, 1, 1), E(2, 2, 1)>>, <<E(2, 3, 0), E(1, 2, 1)>>,
              <<E(1, 2, 1), E(2, 3, 2)>>}
=============================================================================
