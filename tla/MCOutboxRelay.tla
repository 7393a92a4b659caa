----------------------------- MODULE MCOutboxRelay -----------------------------
(***************************************************************************)
(* An instance of OutboxRelay for TLC.                                     *)
(***************************************************************************)
EXTENDS OutboxRelay

MCEvents == {1, 2, 3}
=============================================================================
