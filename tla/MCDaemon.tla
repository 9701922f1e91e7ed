------------------------------ MODULE MCDaemon ------------------------------
(* Instances of Daemon for TLC. *)
EXTENDS Daemon

CONSTANTS ch, ip4, zone, wg0, wg1

Verifying(i) ==
  [verify |-> TRUE, downCycles |-> 1, heartbeat |-> TRUE, country |-> ch,
   ip |-> None, ttl |-> 1, zones |-> IF IPs = {} THEN {} ELSE {zone}, maxAge |-> 0, iface |-> i]
Lenient(i) ==
  [verify |-> FALSE, downCycles |-> 1, heartbeat |-> FALSE, country |-> None,
   ip |-> None, ttl |-> 1, zones |-> {}, maxAge |-> 1, iface |-> i]

(* The operator alternates between the two, and tries another interface or *)
(* a broken file.                                                          *)
TwoFiles == {Verifying(wg0), Lenient(wg1), Invalid}
AllConfigs == {Verifying(wg0), Verifying(wg1), Lenient(wg0), Lenient(wg1)}

(* One configuration: reloads discard the cached proof and change nothing. *)
OneConfig == {Verifying(wg0)}

(* Nothing listed (or a failed query), and a listing. *)
DNSAnswers == {{}, {<<127, 0, 0>>}}
=============================================================================
