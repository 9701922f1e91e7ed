-------------------------- MODULE MCEgressChecker --------------------------
(* Instances of EgressChecker for TLC. *)
EXTENDS EgressChecker

CONSTANTS ch, de, ip4, ip6, zone

(* A pinned exit without caching, a reputation check with a cache and no   *)
(* pin, and a pinned exit elsewhere with a short cache.                    *)
ThreeConfigs ==
  {[country |-> ch, ip |-> ip4,  ttl |-> 0, zones |-> {}],
   [country |-> ch, ip |-> None, ttl |-> 2, zones |-> {zone}],
   [country |-> de, ip |-> ip4, ttl |-> 1, zones |-> {}]}

(* No answer, a listing, a refusal code, an address outside 127.0.0.0/8    *)
(* and the last listed one below the refusal codes.                        *)
DNSAnswers == {{}, {<<127, 0, 0>>}, {<<127, 255, 255>>}, {<<128, 0, 0>>, <<127, 255, 254>>}}
=============================================================================
