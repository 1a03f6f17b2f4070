----------------------------- MODULE MCEventBus -----------------------------
(* Small instances of the outbox for TLC. *)
EXTENDS EventBus, TLC

\* Dispatchers are alike; used by the safety run only.
Alike == Permutations(Dispatchers)
============================================================================
