------------------------------ MODULE MCIngest ------------------------------
(* Small instances of Ingest for TLC. *)
EXTENDS Ingest

\* Two schemas that register different numbers of channels.
MCSchemas == {<<"a">>, <<"b", "c">>}
=============================================================================
