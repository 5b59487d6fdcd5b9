--------------------------- MODULE MCAbortHandler ---------------------------
(* One drive, one write run after the other, signals at any time.           *)
EXTENDS AbortHandler

MCControl == {"control"}
MCBoth == {"control", "generator"}
MCBehaviors == {"on", "sig_dfl", "sig_ign"}
=============================================================================
