----------------------------- MODULE MCTraffic -----------------------------
(* Small instances of the traffic accounting for TLC. *)
EXTENDS Traffic
============================================================================
