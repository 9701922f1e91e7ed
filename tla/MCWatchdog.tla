----------------------------- MODULE MCWatchdog -----------------------------
(* Instances of Watchdog for TLC. *)
EXTENDS Watchdog

(* Reloads may toggle egress verification and move the debounce threshold. *)
MixedConfigs ==
  {[verify |-> v, downCycles |-> n, heartbeat |-> (n = 1)] : v \in BOOLEAN, n \in {1, 3}}
=============================================================================
