--------------------------- MODULE MCOutboxRelay ---------------------------
(* OutboxRelay for TLC: the constants get their values in the cfg files.   *)
EXTENDS OutboxRelay
=============================================================================
