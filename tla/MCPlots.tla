------------------------------ MODULE MCPlots ------------------------------
(* Small instances of Plots for TLC. *)
EXTENDS Plots

Ch(p, k, b) == [path |-> p, kind |-> k, bits |-> b]

\* A bitfield with one bit, and a state; and a device that sends a number where the
\* state was and a text for the bitfield.
Device == <<Ch(2, "int", <<2>>), Ch(3, "int", <<>>), Ch(4, "state", <<>>)>>
Other  == <<Ch(4, "int", <<>>), Ch(2, "text", <<>>)>>
AnyTable == {<<>>, Device, Other}

Searches == {1 .. 4, 3 .. 4}
OldFiles == {[plots |-> <<[kind |-> "timeseries", scalars |-> <<2, 4>>, states |-> <<4, 2>>],
                          [kind |-> "statechart", lanes |-> <<3, 4>>]>>, dock |-> <<2, 1>>]}

============================================================================
