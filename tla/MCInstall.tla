----------------------------- MODULE MCInstall ------------------------------
(* Instance of Install, and with it of Firewall, for TLC. *)
EXTENDS Install

CONSTANTS wg0, a, b, host

MCExample == [iface |-> wg0, extra |-> {}]
MCConfigs == {MCExample}

Peer(h, p) == [host |-> h, port |-> p]

(* One peer, two, no Endpoint line, a host name, a port out of range.      *)
MCWgConfs ==
  {{Peer(a, 65535)}, {Peer(a, 65535), Peer(b, 1)},
   {}, {Peer(a, 65535), Peer(host, 1)}, {Peer(b, 65536)}}
=============================================================================
