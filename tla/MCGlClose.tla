------------------------------- MODULE MCGlClose -------------------------------
(* A posting and a manual entry over the accounting days of the cfg; chunks of two keys.  A *)
(* transaction that rolls back may be tried again and draws another key.                    *)
EXTENDS GlClose, TLC
=============================================================================
