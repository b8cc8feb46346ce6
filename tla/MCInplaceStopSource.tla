------------------------- MODULE MCInplaceStopSource -------------------------
(* A small instance of InplaceStopSource for TLC.                          *)
EXTENDS InplaceStopSource

=============================================================================
