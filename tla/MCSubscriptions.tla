-------------------------- MODULE MCSubscriptions --------------------------
(* Model values and bounds for TLC. *)
EXTENDS Subscriptions

MCTrialTerms == {[days |-> 1, limit |-> 5, trial |-> TRUE]}
MCPaidTerms == {[days |-> 2, limit |-> 5, trial |-> FALSE]}
MCPaidTermsBoth == MCPaidTerms \cup {[days |-> 2, limit |-> NoLimit, trial |-> FALSE]}
============================================================================
