----------------------------- MODULE MCSessions -----------------------------
(* Two slots of the pool, so that a request the page gave up overlaps the   *)
(* next one.                                                                *)
EXTENDS Sessions
=============================================================================
