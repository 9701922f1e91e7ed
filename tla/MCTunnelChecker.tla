-------------------------- MODULE MCTunnelChecker --------------------------
(* Instance of TunnelChecker for TLC. *)
EXTENDS TunnelChecker

CONSTANTS peer1, peer2

TwoPeers == <<peer1, peer2>>

(* One second, one and a half, and two, at two ticks to the second. *)
ThreeConfigs == {[maxAge |-> 2, ping |-> TRUE], [maxAge |-> 3, ping |-> FALSE],
                 [maxAge |-> 4, ping |-> FALSE]}

(* No junk; a short line; a line whose field 4 is no number. *)
JunkLines ==
  {<< >>,
   <<[fields |-> 3, numeric |-> TRUE, stamp |-> 9],
     [fields |-> 6, numeric |-> FALSE, stamp |-> 9]>>}
=============================================================================
