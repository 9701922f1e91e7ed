---------------------------- MODULE DaemonProofs ----------------------------
(***************************************************************************)
(* Proofs about Daemon, for any number of handler goroutines, any          *)
(* configurations, files and answers of the network: the composition       *)
(* implements the specifications of its parts, so that what is proved of   *)
(* them holds of the daemon, and it keeps what no part can keep alone.     *)
(***************************************************************************)
EXTENDS Daemon, TLAPS

EP == INSTANCE EgressCheckerProofs
WP == INSTANCE WatchdogProofs WITH Exits <- E!Exits, NoExit <- E!NoExit

(* What is proved of the parts rests on their assumptions. *)
LEMMA EgressConstants == EP!EgressAssumption
BY PartsAssumption DEF E!Octet, EP!Octet

(* The same for the watchdog. *)
LEMMA WatchdogConstants == WP!WatchdogAssumption
BY PartsAssumption

(* The two names the checker has here are names of one specification.      *)
LEMMA EgressIsOne ==
  /\ E!Init <=> EP!Init
  /\ E!Next <=> EP!Next
  /\ E!evars = EP!evars
BY DEF E!Init, EP!Init, E!Next, EP!Next, E!evars, EP!evars,
       E!Tick, EP!Tick, E!Evaluate, EP!Evaluate, E!Invalidate, EP!Invalidate,
       E!InvalidateLocked, EP!InvalidateLocked, E!Apply, EP!Apply,
       E!EvalCached, EP!EvalCached, E!EvalStart, EP!EvalStart, E!ProbeFails, EP!ProbeFails,
       E!ProbeAnswered, EP!ProbeAnswered, E!ProbeDNSBL, EP!ProbeDNSBL, E!Return, EP!Return,
       E!Finish, EP!Finish, E!CacheHit, EP!CacheHit, E!NoCall, EP!NoCall,
       E!NoCache, EP!NoCache, E!NoExit, EP!NoExit, E!Exits, EP!Exits,
       E!InListedRange, EP!InListedRange, E!Blacklisted, EP!Blacklisted,
       E!ListedAnswer, EP!ListedAnswer, E!Judge, EP!Judge, E!NeedsDNSBL, EP!NeedsDNSBL

(* The checker has the same types under both names. *)
LEMMA EgressTypes ==
  /\ E!TypeOK <=> EP!TypeOK
  /\ E!Exits = EP!Exits
BY DEF E!TypeOK, EP!TypeOK, E!Exits, EP!Exits, E!Stages, EP!Stages,
       E!ProbeReasons, EP!ProbeReasons

(* So the checker's types are kept by its steps, under either name. *)
LEMMA EgressTypesKept ==
  /\ E!Init => E!TypeOK
  /\ E!TypeOK /\ [E!Next]_evars => E!TypeOK'
<1>1. EP!Init => EP!TypeOK
  BY EP!TypeInit, EgressConstants
<1>2. EP!TypeOK /\ [EP!Next]_EP!evars => EP!TypeOK'
  BY EP!TypeStep, EgressConstants
<1>3. (E!TypeOK <=> EP!TypeOK)'
  BY DEF E!TypeOK, EP!TypeOK, E!Exits, EP!Exits, E!Stages, EP!Stages,
         E!ProbeReasons, EP!ProbeReasons
<1>4. QED
  BY <1>1, <1>2, <1>3, EgressIsOne, EgressTypes DEF EP!evars, evars

-----------------------------------------------------------------------------
(* The handlers.                                                           *)

HandlerPCs == {"idle", "check", "invalidate", "evaluate", "publish", "snapshot",
               "getOld", "applyEgress", "applyTunnel", "setLive"}

Locals == [verify: BOOLEAN, state: {"up", "down"}, reason: {"none", "tunnel", "egress"},
           exit: E!Exits, new: Configs \cup {Invalid}]

(* A handler at p with locals l, in a daemon started on iface: a reload    *)
(* that goes on has a valid configuration, from getOld on for the daemon's *)
(* own interface; a probe publishes a state that its reason explains.      *)
HandlerOK(p, l, iface) ==
  /\ p \in {"getOld", "applyEgress", "applyTunnel", "setLive"} => l.new \in Configs
  /\ p \in {"applyEgress", "applyTunnel", "setLive"} => l.new.iface = iface
  /\ p = "invalidate" => l.state = "down" /\ l.reason = "tunnel"
  /\ p = "publish" => (l.state = "up" <=> l.reason = "none")

HandlersInv ==
  /\ hpc \in [Handlers -> HandlerPCs]
  /\ hloc \in [Handlers -> Locals]
  /\ \A h \in Handlers : HandlerOK(hpc[h], hloc[h], live.iface)

ConfigsInv ==
  /\ live \in Configs
  /\ tconf \in Configs
  /\ file \in Files
  /\ SameInterface

DInv == E!TypeOK /\ ConfigsInv /\ HandlersInv

(* A handler's first locals. *)
LEMMA NoLocalsType == NoLocals \in Locals
BY PartsAssumption DEF NoLocals, Locals

(* Effective: a valid configuration with the running one's interface. *)
LEMMA EffectiveFacts ==
  ASSUME NEW c \in Configs, NEW d \in Configs
  PROVE  /\ Effective(c, d) \in Configs
         /\ Effective(c, d).iface = d.iface
         /\ c.iface = d.iface => Effective(c, d) = c
<1>1. c = [key \in DOMAIN c |-> c[key]] /\ "iface" \in DOMAIN c
      /\ [c EXCEPT !.iface = d.iface] \in Configs
  BY DaemonAssumption
<1>2. QED
  BY <1>1 DEF Effective

(* One handler moves, the interface stays. *)
LEMMA HandlerMoves ==
  ASSUME HandlersInv, live'.iface = live.iface, NEW h \in Handlers,
         NEW p \in HandlerPCs, NEW l \in Locals, HandlerOK(p, l, live.iface),
         hpc' = [hpc EXCEPT ![h] = p], hloc' = [hloc EXCEPT ![h] = l]
  PROVE  HandlersInv'
<1>1. hpc' \in [Handlers -> HandlerPCs] /\ hloc' \in [Handlers -> Locals]
  BY DEF HandlersInv
<1>2. ASSUME NEW k \in Handlers PROVE HandlerOK(hpc'[k], hloc'[k], live'.iface)
  <2>1. CASE k = h
    <3>1. hpc'[k] = p /\ hloc'[k] = l
      BY <2>1 DEF HandlersInv
    <3>2. QED
      BY <3>1
  <2>2. CASE k # h
    <3>1. hpc'[k] = hpc[k] /\ hloc'[k] = hloc[k]
      BY <2>2 DEF HandlersInv
    <3>2. QED
      BY <3>1 DEF HandlersInv
  <2>3. QED
    BY <2>1, <2>2
<1>3. QED
  BY <1>1, <1>2 DEF HandlersInv, HandlerOK

(* The steps that leave configurations and handlers alone. *)
LEMMA OtherSteps ==
  ASSUME \/ WatchdogNext
         \/ \E h \in Handlers : ProbeEvaluates(h) \/ ProbeStep(h)
         \/ Handshake \/ HandshakeAges \/ Signal \/ Clock
         \/ UNCHANGED vars
  PROVE  UNCHANGED <<live, conf, tconf, file, hpc, hloc>>
<1>1. ASSUME NEW g, ProbeStep(g) PROVE UNCHANGED <<live, conf, tconf, file, hpc, hloc>>
  BY <1>1 DEF ProbeStep, E!ProbeFails, E!ProbeAnswered, E!ProbeDNSBL, E!Finish, wvars
<1>2. ASSUME NEW g, NEW fresh, BeginEvaluate(g, fresh) PROVE conf' = conf
  BY <1>2 DEF BeginEvaluate, E!EvalCached, E!EvalStart
<1>3. CASE WdStep
  BY <1>3 DEF WdStep, W!Stop, W!HeartbeatFires, W!TickerFires, W!CycleQuiet, W!CycleKills,
              W!KillerReturns, W!StoreSet, evars, dvars
<1>4. CASE WdTunnelOK \/ WdTunnelFails \/ WdInvalidates
  BY <1>4 DEF WdTunnelOK, WdTunnelFails, WdInvalidates, W!TunnelReturns, E!Invalidate,
              evars, dvars, wvars
<1>5. CASE WdEvaluates \/ WdEgressReturns \/ WdProof
  BY <1>2, <1>5 DEF WdEvaluates, WdEgressReturns, WdProof, W!EgressReturns, W!HeartbeatLogs,
              W!ProofReturns, E!Return, evars, dvars, wvars
<1>6. ASSUME NEW h, ProbeEvaluates(h) PROVE UNCHANGED <<live, conf, tconf, file, hpc, hloc>>
  BY <1>2, <1>6 DEF ProbeEvaluates, wvars
<1>7. CASE Handshake \/ HandshakeAges \/ Signal \/ Clock \/ UNCHANGED vars
  BY <1>7 DEF Handshake, HandshakeAges, Signal, Clock, W!Cancel, E!Tick, vars, evars, dvars,
              wvars
<1>8. QED
  BY <1>1, <1>3, <1>4, <1>5, <1>6, <1>7 DEF WatchdogNext

-----------------------------------------------------------------------------
(* The egress checker is used as its specification allows: whoever calls   *)
(* it is one of Procs, and only valid configurations are applied.          *)
LEMMA EgressStep == DInv /\ [Next]_vars => [E!Next]_evars
<1> SUFFICES ASSUME DInv, [Next]_vars PROVE [E!Next]_evars
  OBVIOUS
<1>1. Wd \in Procs /\ \A h \in Handlers : h \in Procs
  BY DEF Procs
<1>2. ASSUME UNCHANGED evars PROVE [E!Next]_evars
  BY <1>2
<1>3. ASSUME NEW g \in Procs, NEW fresh \in BOOLEAN, BeginEvaluate(g, fresh) PROVE [E!Next]_evars
  <2>1. E!Evaluate(g)
    BY <1>3 DEF BeginEvaluate, E!Evaluate
  <2>2. QED
    BY <2>1 DEF E!Next
<1>4. ASSUME NEW g \in Procs, ProbeStep(g) PROVE [E!Next]_evars
  <2>1. E!Evaluate(g)
    BY <1>4 DEF ProbeStep, E!Evaluate
  <2>2. QED
    BY <2>1 DEF E!Next
<1>5. ASSUME NEW g \in Procs, E!Invalidate(g) \/ E!Return(g) PROVE [E!Next]_evars
  BY <1>5 DEF E!Next, E!Evaluate
<1>6. CASE WdStep \/ WdTunnelOK \/ WdTunnelFails \/ WdProof
  BY <1>2, <1>6 DEF WdStep, WdTunnelOK, WdTunnelFails, WdProof
<1>7. CASE WdInvalidates \/ WdEgressReturns
  BY <1>1, <1>5, <1>7 DEF WdInvalidates, WdEgressReturns
<1>8. CASE WdEvaluates
  BY <1>1, <1>3, <1>8 DEF WdEvaluates
<1>9. ASSUME NEW h \in Handlers, ProbeNow(h) PROVE [E!Next]_evars
  <2>1. CASE ProbeBegin(h) \/ ProbeCheck(h) \/ ProbePublishes(h) \/ ProbeReplies(h)
    BY <1>2, <2>1 DEF ProbeBegin, ProbeCheck, ProbePublishes, ProbeReplies
  <2>2. CASE ProbeInvalidates(h) \/ ProbeEvaluated(h)
    BY <1>1, <1>5, <2>2 DEF ProbeInvalidates, ProbeEvaluated
  <2>3. CASE ProbeEvaluates(h)
    BY <1>1, <1>3, <2>3 DEF ProbeEvaluates
  <2>4. QED
    BY <1>1, <1>4, <1>9, <2>1, <2>2, <2>3 DEF ProbeNow
<1>10. ASSUME NEW h \in Handlers, Reload(h) PROVE [E!Next]_evars
  <2>1. CASE ReloadAppliesEgress(h)
    <3>1. hloc[h].new \in Configs
      BY <2>1 DEF ReloadAppliesEgress, HGoto, DInv, HandlersInv, HandlerOK
    <3>2. E!Apply(h, hloc[h].new)
      BY <2>1 DEF ReloadAppliesEgress
    <3>3. QED
      BY <1>1, <3>1, <3>2 DEF E!Next
  <2>2. QED
    BY <1>2, <1>10, <2>1 DEF Reload, ReloadLoads, ReloadGetsOld, ReloadAppliesTunnel,
                             ReloadSetsLive
<1>11. CASE Clock
  BY <1>11 DEF Clock, E!Next
<1>12. CASE Environment /\ ~Clock
  BY <1>2, <1>12 DEF Environment, Handshake, HandshakeAges, OperatorSaves, Signal
<1>13. CASE UNCHANGED vars
  BY <1>2, <1>13 DEF vars
<1>14. QED
  BY <1>1, <1>4, <1>6, <1>7, <1>8, <1>9, <1>10, <1>11, <1>12, <1>13 DEF Next, WatchdogNext

-----------------------------------------------------------------------------
(* The invariant of the configurations and the handlers.                   *)

(* The invariant holds at the start, *)
LEMMA DInvInit == Init => DInv
<1> SUFFICES ASSUME Init PROVE DInv
  OBVIOUS
<1>1. E!TypeOK
  BY EgressTypesKept DEF Init
<1>2. ConfigsInv
  BY DaemonAssumption DEF Init, ConfigsInv, SameInterface
<1>3. "idle" \in HandlerPCs /\ NoLocals \in Locals
  BY NoLocalsType DEF HandlerPCs
<1>4. HandlersInv
  BY <1>3 DEF Init, HandlersInv, HandlerOK
<1>5. QED
  BY <1>1, <1>2, <1>4 DEF DInv

(* probeNow. *)
LEMMA DInvProbe ==
  ASSUME DInv, NEW h \in Handlers, ProbeNow(h)
  PROVE  ConfigsInv' /\ HandlersInv'
<1>1. CASE ProbeEvaluates(h) \/ ProbeStep(h)
  <2>1. UNCHANGED <<live, conf, tconf, file, hpc, hloc>>
    BY <1>1, OtherSteps
  <2>2. QED
    BY <2>1 DEF DInv, ConfigsInv, SameInterface, HandlersInv, HandlerOK
<1>2. CASE ~(ProbeEvaluates(h) \/ ProbeStep(h))
  <2>1. UNCHANGED <<live, conf, tconf, file>>
    BY <1>2 DEF ProbeNow, ProbeBegin, ProbeCheck, ProbeInvalidates, ProbeEvaluated,
                ProbePublishes, ProbeReplies, E!Invalidate, E!Return, W!SetProbe, wvars, evars
  <2>2. ConfigsInv'
    BY <2>1 DEF DInv, ConfigsInv, SameInterface
  <2>3. hloc[h] \in Locals /\ hpc[h] \in HandlerPCs /\ HandlersInv
    BY DEF DInv, HandlersInv
  <2> SUFFICES HandlersInv'
    BY <2>2
  <2>4. ASSUME NEW p \in HandlerPCs, NEW l \in Locals, HandlerOK(p, l, live.iface),
               hpc' = [hpc EXCEPT ![h] = p], hloc' = [hloc EXCEPT ![h] = l]
        PROVE  HandlersInv'
    BY <2>1, <2>3, <2>4, HandlerMoves
  <2>5. CASE ProbeBegin(h)
    <3>1. PICK l : l = [NoLocals EXCEPT !.verify = live.verify]
      OBVIOUS
    <3>2. live.verify \in BOOLEAN
      BY PartsAssumption DEF DInv, ConfigsInv
    <3>3. l \in Locals
      BY <3>1, <3>2, NoLocalsType DEF Locals
    <3>4. HandlerOK("check", l, live.iface) /\ "check" \in HandlerPCs
      BY DEF HandlerOK, HandlerPCs
    <3>5. QED
      BY <2>4, <2>5, <3>1, <3>3, <3>4 DEF ProbeBegin, HGoto
  <2>6. CASE ProbeCheck(h)
    <3>1. PICK ok \in BOOLEAN :
            /\ HGoto(h, "check", IF ~ok THEN "invalidate"
                                 ELSE IF hloc[h].verify THEN "evaluate" ELSE "publish")
            /\ hloc' = [hloc EXCEPT ![h].reason = IF ok THEN "none" ELSE "tunnel",
                                    ![h].state = IF ok /\ ~hloc[h].verify THEN "up" ELSE "down"]
      BY <2>6 DEF ProbeCheck
    <3>2. PICK r \in {"none", "tunnel", "egress"}, s \in {"up", "down"} :
            r = (IF ok THEN "none" ELSE "tunnel")
            /\ s = (IF ok /\ ~hloc[h].verify THEN "up" ELSE "down")
      OBVIOUS
    <3>3. PICK p : p = IF ~ok THEN "invalidate"
                       ELSE IF hloc[h].verify THEN "evaluate" ELSE "publish"
      OBVIOUS
    <3>4. PICK l : l = [hloc[h] EXCEPT !.reason = r, !.state = s]
      OBVIOUS
    <3>5. l \in Locals /\ l.reason = r /\ l.state = s
      BY <2>3, <3>4 DEF Locals
    <3>6. HandlerOK(p, l, live.iface) /\ p \in HandlerPCs
      BY <3>2, <3>3, <3>5 DEF HandlerOK, HandlerPCs
    <3>7. hloc' = [hloc EXCEPT ![h] = l]
      BY <2>3, <3>1, <3>2, <3>4 DEF HandlersInv
    <3>8. QED
      BY <2>4, <3>1, <3>3, <3>5, <3>6, <3>7 DEF HGoto
  <2>7. CASE ProbeInvalidates(h)
    <3>1. HandlerOK("publish", hloc[h], live.iface) /\ "publish" \in HandlerPCs
      BY <2>3, <2>7 DEF ProbeInvalidates, HGoto, HandlersInv, HandlerOK, HandlerPCs
    <3>2. hloc' = [hloc EXCEPT ![h] = hloc[h]]
      BY <2>3, <2>7 DEF ProbeInvalidates, HandlersInv
    <3>3. QED
      BY <2>3, <2>4, <2>7, <3>1, <3>2 DEF ProbeInvalidates, HGoto
  <2>8. CASE ProbeEvaluated(h)
    <3>1. PICK r \in {"none", "tunnel", "egress"}, s \in {"up", "down"} :
            r = (IF call[h].ok THEN "none" ELSE "egress")
            /\ s = (IF call[h].ok THEN "up" ELSE "down")
      OBVIOUS
    <3>2. PICK x \in E!Exits : x = call[h].exit
      BY DEF DInv, E!TypeOK, Procs
    <3>3. PICK m : m = [hloc[h] EXCEPT !.state = s, !.reason = r]
      OBVIOUS
    <3>4. PICK l : l = [m EXCEPT !.exit = x]
      OBVIOUS
    <3>5. l \in Locals /\ l.reason = r /\ l.state = s
      <4>1. m \in Locals /\ m.reason = r /\ m.state = s
        BY <2>3, <3>3 DEF Locals
      <4>2. QED
        BY <3>4, <4>1 DEF Locals
    <3>6. HandlerOK("publish", l, live.iface) /\ "publish" \in HandlerPCs
      BY <3>1, <3>5 DEF HandlerOK, HandlerPCs
    <3>7. hloc' = [hloc EXCEPT ![h] = l]
      BY <2>3, <2>8, <3>1, <3>2, <3>3, <3>4 DEF ProbeEvaluated, HandlersInv
    <3>8. QED
      BY <2>4, <2>8, <3>5, <3>6, <3>7 DEF ProbeEvaluated, HGoto
  <2>9. CASE ProbePublishes(h)
    <3>1. HandlerOK("snapshot", hloc[h], live.iface) /\ "snapshot" \in HandlerPCs
      BY DEF HandlerOK, HandlerPCs
    <3>2. hloc' = [hloc EXCEPT ![h] = hloc[h]]
      BY <2>3, <2>9 DEF ProbePublishes, HandlersInv
    <3>3. QED
      BY <2>3, <2>4, <2>9, <3>1, <3>2 DEF ProbePublishes, HGoto
  <2>10. CASE ProbeReplies(h)
    <3>1. HandlerOK("idle", NoLocals, live.iface) /\ "idle" \in HandlerPCs
      BY DEF HandlerOK, HandlerPCs
    <3>2. QED
      BY <2>4, <2>10, <3>1, NoLocalsType DEF ProbeReplies, HGoto
  <2>11. QED
    BY <1>2, <2>5, <2>6, <2>7, <2>8, <2>9, <2>10 DEF ProbeNow
<1>3. QED
  BY <1>1, <1>2

(* makeReloader's closure. *)
LEMMA DInvReload ==
  ASSUME DInv, NEW h \in Handlers, Reload(h)
  PROVE  ConfigsInv' /\ HandlersInv'
<1>1. hloc[h] \in Locals /\ HandlersInv /\ live \in Configs /\ tconf \in Configs /\ file \in Files
  BY DEF DInv, HandlersInv, ConfigsInv
<1>2. ASSUME NEW p \in HandlerPCs, NEW l \in Locals, HandlerOK(p, l, live.iface),
             hpc' = [hpc EXCEPT ![h] = p], hloc' = [hloc EXCEPT ![h] = l],
             live'.iface = live.iface
      PROVE  HandlersInv'
  BY <1>1, <1>2, HandlerMoves
<1>3. ASSUME NEW c \in Configs \cup {Invalid}, NEW l, l = [hloc[h] EXCEPT !.new = c]
      PROVE  l \in Locals /\ l.new = c
  BY <1>1, <1>3 DEF Locals
<1>4. ASSUME hloc' = hloc PROVE hloc' = [hloc EXCEPT ![h] = hloc[h]]
  BY <1>1, <1>4 DEF HandlersInv
<1>5. CASE ReloadLoads(h)
  <2>1. PICK l : l = [hloc[h] EXCEPT !.new = file]
    OBVIOUS
  <2>2. PICK p : p = IF file = Invalid THEN "idle" ELSE "getOld"
    OBVIOUS
  <2>3. file \in Configs \cup {Invalid} /\ p \in HandlerPCs
    BY <1>1, <2>2, DaemonAssumption DEF HandlerPCs
  <2>4. l \in Locals /\ l.new = file
    BY <1>3, <2>1, <2>3
  <2>5. HandlerOK(p, l, live.iface)
    BY <2>2, <2>3, <2>4 DEF HandlerOK
  <2>6. /\ hloc' = [hloc EXCEPT ![h] = l] /\ hpc' = [hpc EXCEPT ![h] = p]
        /\ UNCHANGED <<live, conf, tconf, file>>
    BY <1>1, <1>5, <2>1, <2>2 DEF ReloadLoads, HGoto, HandlersInv, wvars, evars
  <2>7. QED
    BY <1>2, <2>3, <2>4, <2>5, <2>6 DEF DInv, ConfigsInv, SameInterface
<1>6. CASE ReloadGetsOld(h)
  <2>1. hloc[h].new \in Configs
    BY <1>1, <1>6 DEF ReloadGetsOld, HGoto, HandlersInv, HandlerOK
  <2>2. PICK c \in Configs : c = Effective(hloc[h].new, live) /\ c.iface = live.iface
    BY <1>1, <2>1, EffectiveFacts
  <2>3. PICK l : l = [hloc[h] EXCEPT !.new = c]
    OBVIOUS
  <2>4. l \in Locals /\ l.new = c
    BY <1>3, <2>3
  <2>5. HandlerOK("applyEgress", l, live.iface) /\ "applyEgress" \in HandlerPCs
    BY <2>2, <2>4 DEF HandlerOK, HandlerPCs
  <2>6. /\ hloc' = [hloc EXCEPT ![h] = l] /\ hpc' = [hpc EXCEPT ![h] = "applyEgress"]
        /\ UNCHANGED <<live, conf, tconf, file>>
    BY <1>1, <1>6, <2>2, <2>3 DEF ReloadGetsOld, HGoto, HandlersInv, wvars, evars
  <2>7. QED
    BY <1>2, <2>4, <2>5, <2>6 DEF DInv, ConfigsInv, SameInterface
<1>7. CASE ReloadAppliesEgress(h)
  <2>1. hloc[h].new \in Configs /\ hloc[h].new.iface = live.iface
    BY <1>1, <1>7 DEF ReloadAppliesEgress, HGoto, HandlersInv, HandlerOK
  <2>2. /\ hloc' = [hloc EXCEPT ![h] = hloc[h]] /\ hpc' = [hpc EXCEPT ![h] = "applyTunnel"]
        /\ UNCHANGED <<live, tconf, file>> /\ conf' = hloc[h].new
    BY <1>4, <1>7 DEF ReloadAppliesEgress, HGoto, E!Apply, wvars
  <2>3. HandlerOK("applyTunnel", hloc[h], live.iface) /\ "applyTunnel" \in HandlerPCs
    BY <2>1 DEF HandlerOK, HandlerPCs
  <2>4. QED
    BY <1>1, <1>2, <2>1, <2>2, <2>3 DEF DInv, ConfigsInv, SameInterface
<1>8. CASE ReloadAppliesTunnel(h)
  <2>1. hloc[h].new \in Configs /\ hloc[h].new.iface = live.iface
    BY <1>1, <1>8 DEF ReloadAppliesTunnel, HGoto, HandlersInv, HandlerOK
  <2>2. tconf' \in Configs /\ tconf'.iface = tconf.iface
    BY <1>1, <1>8, <2>1, EffectiveFacts DEF ReloadAppliesTunnel, Effective
  <2>3. /\ hloc' = [hloc EXCEPT ![h] = hloc[h]] /\ hpc' = [hpc EXCEPT ![h] = "setLive"]
        /\ UNCHANGED <<live, conf, file>>
    BY <1>4, <1>8 DEF ReloadAppliesTunnel, HGoto, wvars, evars
  <2>4. HandlerOK("setLive", hloc[h], live.iface) /\ "setLive" \in HandlerPCs
    BY <2>1 DEF HandlerOK, HandlerPCs
  <2>5. QED
    BY <1>1, <1>2, <2>2, <2>3, <2>4 DEF DInv, ConfigsInv, SameInterface
<1>9. CASE ReloadSetsLive(h)
  <2>1. hloc[h].new \in Configs /\ hloc[h].new.iface = live.iface
    BY <1>1, <1>9 DEF ReloadSetsLive, HGoto, HandlersInv, HandlerOK
  <2>2. /\ hloc' = [hloc EXCEPT ![h] = NoLocals] /\ hpc' = [hpc EXCEPT ![h] = "idle"]
        /\ UNCHANGED <<conf, tconf, file>> /\ live' = hloc[h].new
    BY <1>9 DEF ReloadSetsLive, HGoto, W!LiveSet, evars
  <2>3. HandlerOK("idle", NoLocals, live.iface) /\ "idle" \in HandlerPCs
    BY DEF HandlerOK, HandlerPCs
  <2>4. QED
    BY <1>1, <1>2, <2>1, <2>2, <2>3, NoLocalsType DEF DInv, ConfigsInv, SameInterface
<1>10. QED
  BY <1>5, <1>6, <1>7, <1>8, <1>9 DEF Reload

(* is kept by the watchdog, the handlers and the environment, *)
LEMMA DInvStep == DInv /\ [Next]_vars => DInv'
<1> SUFFICES ASSUME DInv, [Next]_vars PROVE DInv'
  OBVIOUS
<1>1. E!TypeOK'
  BY EgressStep, EgressTypesKept DEF DInv
<1>2. ASSUME UNCHANGED <<live, conf, tconf, hpc, hloc>>, file' \in Files
      PROVE  ConfigsInv' /\ HandlersInv'
  BY <1>2 DEF DInv, ConfigsInv, SameInterface, HandlersInv, HandlerOK
<1>3. ASSUME NEW c \in Files, OperatorSaves(c) PROVE ConfigsInv' /\ HandlersInv'
  BY <1>2, <1>3 DEF OperatorSaves, wvars, evars
<1>4. ASSUME WatchdogNext \/ Handshake \/ HandshakeAges \/ Signal \/ Clock \/ UNCHANGED vars
      PROVE  ConfigsInv' /\ HandlersInv'
  BY <1>2, <1>4, OtherSteps DEF DInv, ConfigsInv
<1>5. ConfigsInv' /\ HandlersInv'
  BY <1>3, <1>4, DInvProbe, DInvReload DEF Next, Environment
<1>6. QED
  BY <1>1, <1>5 DEF DInv

(* and so holds throughout. *)
LEMMA DInvCorrect == Spec => []DInv
BY DInvInit, DInvStep, PTL DEF Spec

(* The probe is always bound to the interface whose handshakes are         *)
(* checked, in the middle of any number of reloads.                        *)
THEOREM InterfaceCorrect == Spec => []SameInterface
<1>1. DInv => SameInterface
  BY DEF DInv, ConfigsInv
<1>2. QED
  BY <1>1, DInvCorrect, PTL

(* The daemon uses the egress checker as its specification allows. *)
THEOREM EgressRefined == Spec => ImplementsEgressChecker
<1>1. Init => E!Init
  BY DEF Init
<1>2. DInv /\ [Next]_vars => [E!Next]_E!evars
  BY EgressStep DEF evars, E!evars
<1>3. QED
  BY <1>1, <1>2, DInvCorrect, PTL DEF Spec, ImplementsEgressChecker, E!Spec

-----------------------------------------------------------------------------
(* The watchdog's closures return what its specification lets them: a      *)
(* verdict, an exit; reloads store valid configurations, and a probe       *)
(* publishes a state and the reason for it.                                *)
LEMMA WatchdogStep == DInv /\ [Next]_vars => [W!Next]_wvars
<1> SUFFICES ASSUME DInv, [Next]_vars PROVE [W!Next]_wvars
  OBVIOUS
<1>1. ASSUME UNCHANGED wvars PROVE [W!Next]_wvars
  BY <1>1
<1>2. ASSUME NEW g, ProbeStep(g) PROVE [W!Next]_wvars
  BY <1>1, <1>2 DEF ProbeStep
<1>3. CASE WdStep
  BY <1>3 DEF WdStep, W!Next, W!Loop
<1>4. CASE WdTunnelOK \/ WdInvalidates
  BY <1>4 DEF WdTunnelOK, WdInvalidates, W!Next, W!Loop
<1>5. CASE WdTunnelFails \/ WdEvaluates
  BY <1>1, <1>5 DEF WdTunnelFails, WdEvaluates
<1>6. CASE WdEgressReturns
  <2>1. call[Wd].ok \in BOOLEAN
    BY DEF DInv, E!TypeOK, Procs
  <2>2. QED
    BY <1>6, <2>1 DEF WdEgressReturns, W!Next, W!Loop
<1>7. CASE WdProof
  <2>1. last \in E!Exits
    BY DEF DInv, E!TypeOK
  <2>2. QED
    BY <1>7, <2>1 DEF WdProof, W!Next, W!Loop
<1>8. ASSUME NEW h \in Handlers, ProbePublishes(h) PROVE [W!Next]_wvars
  <2>1. hloc[h] \in Locals /\ (hloc[h].state = "up" <=> hloc[h].reason = "none")
    BY <1>8 DEF ProbePublishes, HGoto, DInv, HandlersInv, HandlerOK
  <2>2. PICK st \in {"up", "down"}, reason \in {"none", "tunnel", "egress"}, exit \in E!Exits :
          W!SetProbe(st, reason, exit) /\ (st = "up" <=> reason = "none")
    BY <1>8, <2>1 DEF ProbePublishes, Locals
  <2>3. QED
    BY <2>2 DEF W!Next, W!Others
<1>9. ASSUME NEW h \in Handlers, ProbeNow(h) PROVE [W!Next]_wvars
  BY <1>1, <1>2, <1>8, <1>9 DEF ProbeNow, ProbeBegin, ProbeCheck, ProbeInvalidates,
                                ProbeEvaluates, ProbeEvaluated, ProbeReplies
<1>10. ASSUME NEW h \in Handlers, Reload(h) PROVE [W!Next]_wvars
  <2>1. CASE ReloadSetsLive(h)
    <3>1. hloc[h].new \in Configs
      BY <2>1 DEF ReloadSetsLive, HGoto, DInv, HandlersInv, HandlerOK
    <3>2. W!LiveSet(hloc[h].new)
      BY <2>1 DEF ReloadSetsLive
    <3>3. QED
      BY <3>1, <3>2 DEF W!Next, W!Others
  <2>2. QED
    BY <1>1, <1>10, <2>1 DEF Reload, ReloadLoads, ReloadGetsOld, ReloadAppliesEgress,
                             ReloadAppliesTunnel
<1>11. CASE Signal
  BY <1>11 DEF Signal, W!Next, W!Others
<1>12. CASE Environment /\ ~Signal
  BY <1>1, <1>12 DEF Environment, Handshake, HandshakeAges, OperatorSaves, Clock
<1>13. CASE UNCHANGED vars
  BY <1>1, <1>13 DEF vars
<1>14. QED
  BY <1>2, <1>3, <1>4, <1>5, <1>6, <1>7, <1>9, <1>10, <1>11, <1>12, <1>13
     DEF Next, WatchdogNext

(* The daemon implements the watchdog's specification: whatever handlers   *)
(* do around it, every step is one runWatchdog allows, or none of its own. *)
THEOREM WatchdogRefined == Spec => ImplementsWatchdog
<1>1. Init => W!Init
  BY DEF Init
<1>2. DInv /\ [Next]_vars => [W!Next]_W!wvars
  BY WatchdogStep DEF wvars, W!wvars
<1>3. QED
  BY <1>1, <1>2, DInvCorrect, PTL DEF Spec, ImplementsWatchdog, W!Spec

-----------------------------------------------------------------------------
(* A reload reaches every part, if no two overlap.                         *)

OneHandler == \A h, k \in Handlers : h = k

(* How far the reload under way has come. *)
AgreeInv ==
  /\ CheckersAgree
  /\ \A h \in Handlers :
       /\ hpc[h] \in {"applyTunnel", "setLive"} => conf = hloc[h].new
       /\ hpc[h] = "setLive" => tconf = hloc[h].new

(* At the start both checkers run the live configuration. *)
LEMMA AgreeInit == Init => AgreeInv
BY DEF Init, AgreeInv, CheckersAgree

(* With one handler at a time nobody applies a configuration in between. *)
LEMMA AgreeStep ==
  ASSUME OneHandler, DInv, AgreeInv, [Next]_vars
  PROVE  AgreeInv'
<1>0. hpc \in [Handlers -> HandlerPCs] /\ hloc \in [Handlers -> Locals]
  BY DEF DInv, HandlersInv
<1>1. ASSUME UNCHANGED <<live, conf, tconf, hpc, hloc>> PROVE AgreeInv'
  BY <1>1 DEF AgreeInv, CheckersAgree, Reloading
<1>2. ASSUME WatchdogNext \/ Environment \/ UNCHANGED vars PROVE AgreeInv'
  <2>1. ASSUME NEW c \in Files, OperatorSaves(c) PROVE AgreeInv'
    BY <1>1, <2>1 DEF OperatorSaves, wvars, evars
  <2>2. QED
    BY <1>1, <1>2, <2>1, OtherSteps DEF Environment
<1>3. ASSUME NEW h \in Handlers, UNCHANGED <<live, conf, tconf>>,
             hpc[h] \notin {"applyTunnel", "setLive"},
             hpc'[h] \notin {"applyTunnel", "setLive"}
      PROVE  AgreeInv'
  BY <1>3 DEF OneHandler, AgreeInv, CheckersAgree, Reloading
<1>4. ASSUME NEW h \in Handlers, ProbeNow(h) PROVE AgreeInv'
  <2>1. CASE ProbeEvaluates(h) \/ ProbeStep(h)
    BY <1>1, <2>1, OtherSteps
  <2>2. CASE ~(ProbeEvaluates(h) \/ ProbeStep(h))
    <3>1. UNCHANGED <<live, conf, tconf>>
      BY <1>4, <2>2 DEF ProbeNow, ProbeBegin, ProbeCheck, ProbeInvalidates, ProbeEvaluated,
           ProbePublishes, ProbeReplies, E!Invalidate, E!Return, W!SetProbe, wvars, evars
    <3>2. /\ hpc[h] \notin {"applyTunnel", "setLive"}
          /\ hpc'[h] \notin {"applyTunnel", "setLive"}
      BY <1>0, <1>4, <2>2 DEF ProbeNow, ProbeBegin, ProbeCheck, ProbeInvalidates,
           ProbeEvaluated, ProbePublishes, ProbeReplies, HGoto
    <3>3. QED
      BY <1>3, <3>1, <3>2
  <2>3. QED
    BY <2>1, <2>2
<1>5. ASSUME NEW h \in Handlers, ReloadLoads(h) \/ ReloadGetsOld(h) PROVE AgreeInv'
  <2>1. /\ UNCHANGED <<live, conf, tconf>>
        /\ hpc[h] \notin {"applyTunnel", "setLive"}
        /\ hpc'[h] \notin {"applyTunnel", "setLive"}
    BY <1>0, <1>5 DEF ReloadLoads, ReloadGetsOld, HGoto, wvars, evars
  <2>2. QED
    BY <1>3, <2>1
<1>6. ASSUME NEW h \in Handlers, ReloadAppliesEgress(h) PROVE AgreeInv'
  <2>1. hpc'[h] = "applyTunnel" /\ hloc' = hloc /\ conf' = hloc[h].new
    BY <1>0, <1>6 DEF ReloadAppliesEgress, HGoto, E!Apply
  <2>2. QED
    BY <2>1 DEF OneHandler, AgreeInv, CheckersAgree, Reloading
<1>7. ASSUME NEW h \in Handlers, ReloadAppliesTunnel(h) PROVE AgreeInv'
  <2>1. hpc[h] = "applyTunnel" /\ hpc'[h] = "setLive" /\ hloc' = hloc /\ conf' = conf
    BY <1>0, <1>7 DEF ReloadAppliesTunnel, HGoto, evars
  <2>2. /\ hloc[h].new \in Configs /\ tconf \in Configs /\ hloc[h].new.iface = tconf.iface
    BY <2>1 DEF DInv, ConfigsInv, SameInterface, HandlersInv, HandlerOK
  <2>3. tconf' = hloc[h].new
    BY <1>7, <2>2, EffectiveFacts DEF ReloadAppliesTunnel, Effective
  <2>4. QED
    BY <2>1, <2>3 DEF OneHandler, AgreeInv, CheckersAgree, Reloading
<1>8. ASSUME NEW h \in Handlers, ReloadSetsLive(h) PROVE AgreeInv'
  <2>1. hpc[h] = "setLive" /\ hpc'[h] = "idle" /\ live' = hloc[h].new
        /\ UNCHANGED <<conf, tconf>>
    BY <1>0, <1>8 DEF ReloadSetsLive, HGoto, W!LiveSet, evars
  <2>2. QED
    BY <2>1 DEF OneHandler, AgreeInv, CheckersAgree
<1>9. QED
  BY <1>2, <1>4, <1>5, <1>6, <1>7, <1>8 DEF Next, Reload

(* A finished reload has reached the watchdog and both checkers, provided  *)
(* no two reloads overlap.                                                 *)
THEOREM AgreementCorrect ==
  ASSUME OneHandler
  PROVE  Spec => []CheckersAgree
<1>1. DInv /\ AgreeInv /\ [Next]_vars => AgreeInv'
  BY AgreeStep
<1>2. AgreeInv => CheckersAgree
  BY DEF AgreeInv
<1>3. QED
  BY <1>1, <1>2, AgreeInit, DInvCorrect, PTL DEF Spec

-----------------------------------------------------------------------------
(* No poll is proven by an observation from before the tunnel died.        *)

InFlight(p) == call[p].stage \in {"request", "dnsbl"}

(* A probe in flight holds the mutex and is waited for by the watchdog's   *)
(* Invalidate.  Past that, nothing outdated can reach the cache: neither   *)
(* the cached verdict nor a probe in flight is older than the outage; and  *)
(* only the watchdog, in its egress closure, uses the cache at all.        *)
ProofInv ==
  /\ wdClosure \in {"none", "invalidate"}
  /\ wdClosure = "invalidate" => pc = "tunnel"
  /\ pc # "egress" => call[Wd].stage = "idle"
  /\ \A p \in Procs : InFlight(p) => mu = p
  /\ Wd \notin outdated
  /\ wdClosure = "none" =>
       /\ cache.set => Cache \notin outdated
       /\ \A p \in Procs : InFlight(p) => p \notin outdated

(* At the start nothing has been proved. *)
LEMMA ProofInit == Init => ProofInv
BY DEF Init, ProofInv, InFlight, E!Init, E!NoCall, E!NoCache, W!Init, Procs

(* An invalidation has the mutex, so nothing is in flight. *)
LEMMA ProofInvalidate ==
  ASSUME E!TypeOK, ProofInv, mu = NoProc, mu' = mu, E!InvalidateLocked, outdated' = outdated
  PROVE  /\ \A p \in Procs : call'[p].stage = call[p].stage
         /\ \A p \in Procs : ~InFlight(p)'
         /\ ~cache'.set
<1>1. \A p \in Procs : ~InFlight(p)
  BY PartsAssumption DEF ProofInv
<1>2. \A p \in Procs : call'[p].stage = call[p].stage
  BY DEF E!InvalidateLocked, E!TypeOK
<1>3. QED
  BY <1>1, <1>2 DEF InFlight, E!InvalidateLocked, E!NoCache

(* A goroutine that ends its probe was the only one in flight. *)
LEMMA ProofProbe ==
  ASSUME E!TypeOK, ProofInv, NEW g \in Procs, ProbeStep(g)
  PROVE  ProofInv'
<1>0. mu = g /\ InFlight(g) /\ g # Cache /\ Wd # Cache /\ g # NoProc /\ Wd \in Procs
  BY PartsAssumption DEF ProbeStep, E!ProbeFails, E!ProbeAnswered, E!ProbeDNSBL, InFlight, Procs
<1>1. /\ UNCHANGED <<wdClosure, pc>> /\ \A p \in Procs \ {g} : ~InFlight(p)
      /\ g = Wd => pc = "egress"
  BY <1>0 DEF ProbeStep, ProofInv, InFlight, wvars
<1>2. ASSUME UNCHANGED <<mu, cache>>, call' = [call EXCEPT ![g].stage = "dnsbl"]
      PROVE  ProofInv'
  <2>1. outdated' = outdated
    BY <1>0, <1>2 DEF ProbeStep
  <2>2. \A p \in Procs \ {g} : call'[p] = call[p]
    BY <1>2 DEF E!TypeOK
  <2>3. \A p \in Procs : InFlight(p)' => p = g
    BY <1>1, <2>2 DEF InFlight
  <2>4. QED
    BY <1>0, <1>1, <1>2, <2>1, <2>2, <2>3 DEF ProofInv
<1>3. ASSUME NEW reason, NEW exit, NEW hit, E!Finish(g, reason, exit, hit)
      PROVE  ProofInv'
  <2>1. mu' = NoProc /\ call'[g].stage = "done" /\ \A p \in Procs \ {g} : call'[p] = call[p]
    BY <1>3 DEF E!Finish, E!TypeOK
  <2>2. \A p \in Procs : ~InFlight(p)'
    BY <1>1, <2>1 DEF InFlight
  <2>3. outdated' = IF g \in outdated THEN outdated \cup {Cache} ELSE outdated \ {Cache}
    BY <2>1 DEF ProbeStep
  <2>4. wdClosure = "none" => Cache \notin outdated'
    BY <1>0, <2>3 DEF ProofInv
  <2>5. QED
    BY <1>0, <1>1, <2>1, <2>2, <2>3, <2>4 DEF ProofInv
<1>4. QED
  BY <1>2, <1>3 DEF ProbeStep, E!ProbeFails, E!ProbeAnswered, E!ProbeDNSBL

(* Asking: the probe that goes out is new, and the cached verdict the      *)
(* watchdog may be given is not outdated.                                  *)
LEMMA ProofBegin ==
  ASSUME E!TypeOK, ProofInv, NEW g \in Procs, NEW fresh \in BOOLEAN, BeginEvaluate(g, fresh),
         UNCHANGED <<wdClosure, pc>>, g = Wd => pc = "egress", g # Wd => fresh
  PROVE  ProofInv'
<1>0. Wd \in Procs /\ NoProc \notin Procs
  BY PartsAssumption DEF Procs
<1>1. mu = NoProc /\ \A p \in Procs : ~InFlight(p)
  BY <1>0 DEF BeginEvaluate, E!EvalCached, E!EvalStart, ProofInv
<1>2. CASE ~fresh /\ E!EvalCached(g)
  <2>1. g = Wd /\ pc = "egress" /\ wdClosure = "none"
    BY <1>2 DEF ProofInv
  <2>2. cache.set /\ UNCHANGED <<cache, mu>>
    BY <1>2 DEF E!EvalCached, E!CacheHit
  <2>3. \A p \in Procs : ~InFlight(p)'
    BY <1>1, <1>2 DEF E!EvalCached, InFlight, E!TypeOK, E!NoCall
  <2>4. Cache \notin outdated
    BY <2>1, <2>2 DEF ProofInv
  <2>5. outdated' = outdated \ {g} \/ outdated' = outdated
    BY <1>2, <2>4, <2>1 DEF BeginEvaluate, E!EvalCached, E!EvalStart
  <2>6. QED
    BY <2>1, <2>2, <2>3, <2>4, <2>5 DEF ProofInv
<1>3. CASE E!EvalStart(g, fresh) /\ outdated' = outdated \ {g}
  <2>1. mu' = g /\ cache' = cache /\ \A p \in Procs : InFlight(p)' => p = g
    BY <1>1, <1>3 DEF E!EvalStart, InFlight, E!TypeOK, E!NoCall
  <2>2. g # Wd => call'[Wd] = call[Wd]
    BY <1>0, <1>3 DEF E!EvalStart, E!TypeOK
  <2>3. QED
    BY <1>3, <2>1, <2>2 DEF ProofInv
<1>4. QED
  BY <1>2, <1>3 DEF BeginEvaluate

(* Taking the result. *)
LEMMA ProofReturn ==
  ASSUME E!TypeOK, ProofInv, NEW g \in Procs, E!Return(g), outdated' = outdated \ {g},
         wdClosure' = wdClosure, g = Wd => wdClosure # "invalidate", g # Wd => pc' = pc
  PROVE  ProofInv'
<1>1. UNCHANGED <<mu, cache>> /\ call'[g].stage = "idle"
      /\ \A p \in Procs : p # g => call'[p] = call[p]
  BY DEF E!Return, E!TypeOK, E!NoCall
<1>2. \A p \in Procs : InFlight(p)' => InFlight(p)
  BY <1>1 DEF InFlight
<1>3. QED
  BY <1>1, <1>2 DEF ProofInv, Procs

(* Every step keeps ProofInv. *)
LEMMA ProofStep == DInv /\ ProofInv /\ [Next]_vars => ProofInv'
<1> SUFFICES ASSUME DInv, ProofInv, [Next]_vars PROVE ProofInv'
  OBVIOUS
<1>0. /\ E!TypeOK /\ Wd \in Procs /\ \A h \in Handlers : h \in Procs /\ h # Wd
  BY DaemonAssumption DEF DInv, Procs
<1>1. ASSUME UNCHANGED <<mu, call, cache, wdClosure, outdated>>, pc # "egress" \/ pc' = pc,
             wdClosure = "invalidate" => pc' = pc
      PROVE  ProofInv'
  BY <1>1 DEF ProofInv, InFlight
<1>2. ASSUME mu = NoProc, mu' = mu, E!InvalidateLocked, outdated' = outdated,
             \/ UNCHANGED <<wdClosure, pc>>
             \/ wdClosure' = "none" /\ pc # "egress" /\ pc' # "egress"
      PROVE  ProofInv'
  BY <1>0, <1>2, ProofInvalidate DEF ProofInv
<1>3. CASE WdStep
  BY <1>1, <1>3 DEF WdStep, W!Stop, W!HeartbeatFires, W!TickerFires, W!CycleQuiet,
       W!CycleKills, W!KillerReturns, W!StoreSet, W!Goto, ProofInv, evars, dvars
<1>4. CASE WdTunnelOK \/ WdProof
  BY <1>1, <1>4 DEF WdTunnelOK, WdProof, W!TunnelReturns, W!HeartbeatLogs, W!ProofReturns,
       W!Goto, ProofInv, evars, dvars
<1>5. CASE WdTunnelFails
  <2>1. /\ wdClosure' = "invalidate" /\ pc = "tunnel" /\ UNCHANGED <<pc, mu, call, cache>>
        /\ outdated' = {p \in Procs : call[p].stage # "idle"}
                         \cup (IF cache.set THEN {Cache} ELSE {})
    BY <1>5 DEF WdTunnelFails, wvars, evars
  <2>2. Wd \notin outdated'
    BY <1>0, <2>1, PartsAssumption DEF ProofInv
  <2>3. QED
    BY <2>1, <2>2 DEF ProofInv, InFlight
<1>6. CASE WdInvalidates
  BY <1>2, <1>6 DEF WdInvalidates, E!Invalidate, W!TunnelReturns, W!Goto
<1>7. CASE WdEvaluates
  BY <1>0, <1>7, ProofBegin DEF WdEvaluates, wvars
<1>8. CASE WdEgressReturns
  BY <1>0, <1>8, ProofReturn DEF WdEgressReturns, W!EgressReturns, W!Goto, ProofInv
<1>9. ASSUME NEW h \in Handlers, ProbeNow(h) PROVE ProofInv'
  <2>1. CASE ProbeBegin(h) \/ ProbeCheck(h) \/ ProbePublishes(h) \/ ProbeReplies(h)
    BY <1>1, <2>1 DEF ProbeBegin, ProbeCheck, ProbePublishes, ProbeReplies, W!SetProbe,
                      wvars, evars
  <2>2. CASE ProbeInvalidates(h)
    BY <1>2, <2>2 DEF ProbeInvalidates, E!Invalidate, wvars
  <2>3. CASE ProbeEvaluates(h)
    BY <1>0, <2>3, ProofBegin DEF ProbeEvaluates, wvars
  <2>4. CASE ProbeEvaluated(h)
    BY <1>0, <2>4, ProofReturn DEF ProbeEvaluated, wvars
  <2>5. QED
    BY <1>0, <1>9, <2>1, <2>2, <2>3, <2>4, ProofProbe DEF ProbeNow
<1>10. ASSUME NEW h \in Handlers, Reload(h) PROVE ProofInv'
  <2>1. CASE ReloadAppliesEgress(h)
    BY <1>2, <2>1 DEF ReloadAppliesEgress, E!Apply, wvars
  <2>2. QED
    BY <1>1, <1>10, <2>1 DEF Reload, ReloadLoads, ReloadGetsOld, ReloadAppliesTunnel,
                             ReloadSetsLive, W!LiveSet, wvars, evars
<1>11. CASE Environment
  BY <1>1, <1>11 DEF Environment, Handshake, HandshakeAges, OperatorSaves, Signal, Clock,
                     W!Cancel, E!Tick, wvars, evars, dvars
<1>12. CASE UNCHANGED vars
  BY <1>1, <1>12 DEF vars, wvars, evars, dvars
<1>13. QED
  BY <1>0, <1>3, <1>4, <1>5, <1>6, <1>7, <1>8, <1>9, <1>10, <1>11, <1>12, ProofProbe
     DEF Next, WatchdogNext

(* Once the watchdog has seen the tunnel dead, no poll is proven by an     *)
(* observation from before that, whatever the handlers have in flight.     *)
THEOREM ProofCorrect == Spec => NoResurrectedProof
<1>1. ProofInv /\ [Next]_vars =>
        [pc = "egress" /\ pc' = "cycle" /\ poll'.eOK => Wd \notin outdated]_vars
  BY DEF ProofInv
<1>2. QED
  BY <1>1, ProofInit, ProofStep, DInvCorrect, PTL DEF Spec, NoResurrectedProof

-----------------------------------------------------------------------------
(* What the daemon inherits from its parts.                                *)

(* The two names the watchdog has here are names of one specification. *)
LEMMA WatchdogIsOne ==
  /\ W!Init <=> WP!Init
  /\ W!Next <=> WP!Next
  /\ W!wvars = WP!wvars
BY DEF W!Init, WP!Init, W!Next, WP!Next, W!wvars, WP!wvars, W!Loop, WP!Loop,
       W!Others, WP!Others, W!Goto, WP!Goto, W!Stop, WP!Stop,
       W!HeartbeatFires, WP!HeartbeatFires, W!HeartbeatLogs, WP!HeartbeatLogs,
       W!TickerFires, WP!TickerFires, W!TunnelReturns, WP!TunnelReturns,
       W!EgressReturns, WP!EgressReturns, W!CycleQuiet, WP!CycleQuiet,
       W!CycleKills, WP!CycleKills, W!KillerReturns, WP!KillerReturns,
       W!ProofReturns, WP!ProofReturns, W!StoreSet, WP!StoreSet, W!LiveSet, WP!LiveSet,
       W!SetProbe, WP!SetProbe, W!Cancel, WP!Cancel, W!Remember, WP!Remember,
       W!PollSafe, WP!PollSafe, W!IsSafe, WP!IsSafe, W!KillDue, WP!KillDue,
       W!Cycle, WP!Cycle, W!Bump, WP!Bump, W!StateLabel, WP!StateLabel, W!NoPoll, WP!NoPoll

(* The whole daemon, with its real checkers and its handlers, reaches      *)
(* kill() if and only if down_cycles_to_kill polls in a row were unsafe.   *)
THEOREM DaemonDebounces == Spec => WP!KillIffConfirmed
<1>1. WP!Spec => WP!KillIffConfirmed
  BY WP!DebounceCorrect, WatchdogConstants
<1>2. Init => WP!Init
  BY WatchdogIsOne DEF Init
<1>3. DInv /\ [Next]_vars => [WP!Next]_WP!wvars
  BY WatchdogStep, WatchdogIsOne DEF wvars, WP!wvars
<1>4. QED
  BY <1>1, <1>2, <1>3, DInvCorrect, PTL DEF Spec, WP!Spec

(* Whatever reloads and forced probes interleave with the polls, a caller  *)
(* told OK gets an exit that proves it under the configuration in force.   *)
THEOREM DaemonIsCoherent == Spec => EP!ResultIsCoherent
<1>1. EP!Spec => EP!ResultIsCoherent
  BY EP!CoherenceCorrect, EgressConstants
<1>2. Init => EP!Init
  BY EgressIsOne DEF Init
<1>3. DInv /\ [Next]_vars => [EP!Next]_EP!evars
  BY EgressStep, EgressIsOne DEF evars, EP!evars
<1>4. QED
  BY <1>1, <1>2, <1>3, DInvCorrect, PTL DEF Spec, EP!Spec
=============================================================================
