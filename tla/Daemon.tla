------------------------------- MODULE Daemon -------------------------------
(***************************************************************************)
(* runDaemon (main.go): the watchdog goroutine and the agent's handler     *)
(* goroutines around the shared TunnelChecker, EgressChecker, Live and     *)
(* Store.  The watchdog's closures and the handlers' probeNow and reload   *)
(* are written as sequences of the components' own atomic operations, so   *)
(* that every interleaving the mutexes allow is explored.                  *)
(*                                                                         *)
(* TunnelChecker.Check and Apply exclude each other through a mutex of     *)
(* their own and call nothing that waits for another goroutine: each is    *)
(* one step, taken when `wg show` answers.                                 *)
(***************************************************************************)
EXTENDS Integers, FiniteSets

CONSTANTS
  Wd, Handlers, NoProc,           \* the watchdog and the handler goroutines
  Configs,                        \* configurations that pass Validate
  Files,                          \* what the operator may save: configurations,
  Invalid,                        \*   or a file that does not load or validate
  Countries, IPs, V4, None, Lookups, MaxTime,     \* see EgressChecker
  StreakCap,                      \* see Watchdog
  MaxAge                          \* handshake ages are counted up to here

(* A configuration is a record.  A reload combines the new one with the    *)
(* running one's restart-only keys, of which iface stands for all three.   *)
ASSUME DaemonAssumption ==
  /\ Wd \notin Handlers
  /\ Invalid \notin Configs
  /\ Files \subseteq Configs \cup {Invalid}
  /\ \A c \in Configs : c = [key \in DOMAIN c |-> c[key]] /\ "iface" \in DOMAIN c
  /\ \A c, d \in Configs : [c EXCEPT !.iface = d.iface] \in Configs
  /\ MaxAge \in Nat

VARIABLES
  live, store, ctxDone, pc, cfg, heartbeat, poll, state, recent,   \* Watchdog
  mu, conf, cache, last, probed, call, now,                        \* EgressChecker
  tconf,     \* the configuration the TunnelChecker last applied
  age,       \* age of the freshest handshake; MaxAge: none, or no interface
  file,      \* the configuration file
  wdClosure, \* "invalidate" while the tunnel closure is past a failed Check
  hpc,       \* where each handler is
  hloc,      \* each handler's locals
  outdated   \* history: the goroutines whose evaluation, and Cache if the
             \* cached verdict, began before the watchdog last saw the
             \* tunnel dead

wvars == <<live, store, ctxDone, pc, cfg, heartbeat, poll, state, recent>>
evars == <<mu, conf, cache, last, probed, call, now>>
dvars == <<tconf, age, file, wdClosure, hpc, hloc, outdated>>
vars == <<wvars, evars, dvars>>

Procs == Handlers \cup {Wd}
Cache == "cache"

E == INSTANCE EgressChecker
W == INSTANCE Watchdog WITH Exits <- E!Exits, NoExit <- E!NoExit

(* What the components ask of their constants holds here. *)
ASSUME PartsAssumption ==
  /\ E!EgressAssumption
  /\ W!WatchdogAssumption
  /\ Cache \notin Procs

NoLocals == [verify |-> FALSE, state |-> "down", reason |-> "none", exit |-> E!NoExit,
             new |-> Invalid]

-----------------------------------------------------------------------------
(* When the watchdog's loop returns, the process ends and its goroutines.  *)
Running == pc # "stopped"

(* TunnelChecker.Check: a cancelled context may make `wg show` fail.       *)
TcCheck(ok) == ok = (age < MaxAge /\ age <= tconf.maxAge) \/ (ctxDone /\ ~ok)

(* EgressChecker.evaluate(ctx, fresh), up to its first network call.       *)
BeginEvaluate(g, fresh) ==
  /\ Running
  /\ \/ /\ ~fresh
        /\ E!EvalCached(g)
        /\ outdated' = IF Cache \in outdated THEN outdated \cup {g} ELSE outdated \ {g}
     \/ /\ E!EvalStart(g, fresh)
        /\ outdated' = outdated \ {g}

(* The rest of it: the answers of the network.                             *)
ProbeStep(g) ==
  /\ Running
  /\ \/ E!ProbeFails(g)
     \/ \E exit \in E!Exits : E!ProbeAnswered(g, exit)
     \/ \E answers \in [conf.zones -> Lookups] : E!ProbeDNSBL(g, answers)
  /\ outdated' = IF mu' # NoProc THEN outdated
                 ELSE IF g \in outdated THEN outdated \cup {Cache}
                 ELSE outdated \ {Cache}
  /\ UNCHANGED <<wvars, tconf, age, file, wdClosure, hpc, hloc>>

-----------------------------------------------------------------------------
(* The watchdog goroutine.                                                 *)

(* Its steps that call none of the closures. *)
WdStep ==
  /\ \/ W!Stop \/ W!HeartbeatFires \/ W!TickerFires
     \/ W!CycleQuiet \/ W!CycleKills \/ W!KillerReturns \/ W!StoreSet
  /\ UNCHANGED <<evars, dvars>>

(* tunnel := func() ... : a failed Check is followed by eg.Invalidate().   *)
WdTunnelOK ==
  /\ wdClosure = "none"
  /\ TcCheck(TRUE)
  /\ W!TunnelReturns(TRUE)
  /\ UNCHANGED <<evars, dvars>>

WdTunnelFails ==
  /\ pc = "tunnel"
  /\ wdClosure = "none"
  /\ TcCheck(FALSE)
  /\ wdClosure' = "invalidate"
  /\ outdated' = {p \in Procs : call[p].stage # "idle"} \cup (IF cache.set THEN {Cache} ELSE {})
  /\ UNCHANGED <<wvars, evars, tconf, age, file, hpc, hloc>>

(* Mutant: the tunnel closure without eg.Invalidate(). *)
WdSkipsInvalidate ==
  /\ wdClosure = "invalidate"
  /\ W!TunnelReturns(FALSE)
  /\ wdClosure' = "none"
  /\ UNCHANGED <<evars, tconf, age, file, hpc, hloc, outdated>>
WdInvalidates ==
  /\ wdClosure = "invalidate"
  /\ E!Invalidate(Wd)
  /\ W!TunnelReturns(FALSE)
  /\ wdClosure' = "none"
  /\ UNCHANGED <<tconf, age, file, hpc, hloc, outdated>>

(* egress := func() ... *)
WdEvaluates ==
  /\ pc = "egress"
  /\ BeginEvaluate(Wd, FALSE)
  /\ UNCHANGED <<wvars, tconf, age, file, wdClosure, hpc, hloc>>

WdEgressReturns ==
  /\ E!Return(Wd)
  /\ W!EgressReturns(call[Wd].ok)
  /\ outdated' = outdated \ {Wd}
  /\ UNCHANGED <<tconf, age, file, wdClosure, hpc, hloc>>

(* proof := func() ... : Proof() waits for the checker's mutex.            *)
WdProof ==
  /\ mu = NoProc
  /\ W!HeartbeatLogs \/ W!ProofReturns(last)
  /\ UNCHANGED <<evars, dvars>>

-----------------------------------------------------------------------------
(* A handler serving "probe": probeNow.                                    *)

HGoto(h, from, to) == Running /\ hpc[h] = from /\ hpc' = [hpc EXCEPT ![h] = to]

ProbeBegin(h) ==
  /\ HGoto(h, "idle", "check")
  /\ hloc' = [hloc EXCEPT ![h] = [NoLocals EXCEPT !.verify = live.verify]]
  /\ UNCHANGED <<wvars, evars, tconf, age, file, wdClosure, outdated>>

ProbeCheck(h) ==
  \E ok \in BOOLEAN :
    /\ TcCheck(ok)
    /\ HGoto(h, "check", IF ~ok THEN "invalidate"
                         ELSE IF hloc[h].verify THEN "evaluate" ELSE "publish")
    /\ hloc' = [hloc EXCEPT ![h].reason = IF ok THEN "none" ELSE "tunnel",
                            ![h].state = IF ok /\ ~hloc[h].verify THEN "up" ELSE "down"]
    /\ UNCHANGED <<wvars, evars, tconf, age, file, wdClosure, outdated>>

ProbeInvalidates(h) ==
  /\ HGoto(h, "invalidate", "publish")
  /\ E!Invalidate(h)
  /\ UNCHANGED <<wvars, tconf, age, file, wdClosure, hloc, outdated>>

ProbeEvaluates(h) ==
  /\ hpc[h] = "evaluate"
  /\ BeginEvaluate(h, TRUE)
  /\ UNCHANGED <<wvars, tconf, age, file, wdClosure, hpc, hloc>>

ProbeEvaluated(h) ==
  /\ HGoto(h, "evaluate", "publish")
  /\ E!Return(h)
  /\ hloc' = [hloc EXCEPT ![h].state = IF call[h].ok THEN "up" ELSE "down",
                          ![h].reason = IF call[h].ok THEN "none" ELSE "egress",
                          ![h].exit = call[h].exit]
  /\ outdated' = outdated \ {h}
  /\ UNCHANGED <<wvars, tconf, age, file, wdClosure>>

(* Mutant: Set in place of SetProbe. *)
ProbePublishesAll(h) ==
  /\ HGoto(h, "publish", "snapshot")
  /\ store' = [state |-> hloc[h].state, streak |-> 0, reason |-> hloc[h].reason,
               exit |-> hloc[h].exit]
  /\ UNCHANGED <<live, ctxDone, pc, cfg, heartbeat, poll, state, recent>>
  /\ UNCHANGED <<evars, tconf, age, file, wdClosure, hloc, outdated>>
ProbePublishes(h) ==
  /\ HGoto(h, "publish", "snapshot")
  /\ W!SetProbe(hloc[h].state, hloc[h].reason, hloc[h].exit)
  /\ UNCHANGED <<evars, tconf, age, file, wdClosure, hloc, outdated>>

(* store.Snapshot() makes the reply.                                       *)
ProbeReplies(h) ==
  /\ HGoto(h, "snapshot", "idle")
  /\ hloc' = [hloc EXCEPT ![h] = NoLocals]
  /\ UNCHANGED <<wvars, evars, tconf, age, file, wdClosure, outdated>>

-----------------------------------------------------------------------------
(* A handler serving "reload": the closure of makeReloader.                *)

(* LoadConfig and Validate: an error ends the reload. *)
ReloadLoads(h) ==
  /\ HGoto(h, "idle", IF file = Invalid THEN "idle" ELSE "getOld")
  /\ hloc' = [hloc EXCEPT ![h].new = file]
  /\ UNCHANGED <<wvars, evars, tconf, age, file, wdClosure, outdated>>

(* Mutant: restart-only keys not kept. *)
EffectiveUnpinned(new, old) == new
(* The restart-only keys keep the values the daemon was started with.      *)
Effective(new, old) == [new EXCEPT !.iface = old.iface]

ReloadGetsOld(h) ==
  /\ HGoto(h, "getOld", "applyEgress")
  /\ hloc' = [hloc EXCEPT ![h].new = Effective(@, live)]
  /\ UNCHANGED <<wvars, evars, tconf, age, file, wdClosure, outdated>>

(* Mutant: eg.Apply without the mutex. *)
ReloadAppliesUnlocked(h) ==
  /\ HGoto(h, "applyEgress", "applyTunnel")
  /\ conf' = hloc[h].new
  /\ E!InvalidateLocked
  /\ UNCHANGED <<mu, now, wvars, tconf, age, file, wdClosure, hloc, outdated>>
ReloadAppliesEgress(h) ==
  /\ HGoto(h, "applyEgress", "applyTunnel")
  /\ E!Apply(h, hloc[h].new)
  /\ UNCHANGED <<wvars, tconf, age, file, wdClosure, hloc, outdated>>

(* Mutant: tc.Apply forgotten. *)
ReloadSkipsTunnel(h) ==
  /\ HGoto(h, "applyTunnel", "setLive")
  /\ UNCHANGED <<wvars, evars, tconf, age, file, wdClosure, hloc, outdated>>
(* Apply does not touch t.Iface. *)
ReloadAppliesTunnel(h) ==
  /\ HGoto(h, "applyTunnel", "setLive")
  /\ tconf' = [hloc[h].new EXCEPT !.iface = tconf.iface]
  /\ UNCHANGED <<wvars, evars, age, file, wdClosure, hloc, outdated>>

ReloadSetsLive(h) ==
  /\ HGoto(h, "setLive", "idle")
  /\ W!LiveSet(hloc[h].new)
  /\ hloc' = [hloc EXCEPT ![h] = NoLocals]
  /\ UNCHANGED <<evars, tconf, age, file, wdClosure, outdated>>

-----------------------------------------------------------------------------
(* The environment.                                                        *)

Handshake ==
  /\ age # 0
  /\ age' = 0
  /\ UNCHANGED <<wvars, evars, tconf, file, wdClosure, hpc, hloc, outdated>>

HandshakeAges ==
  /\ age < MaxAge
  /\ age' = age + 1
  /\ UNCHANGED <<wvars, evars, tconf, file, wdClosure, hpc, hloc, outdated>>

(* `reptile config set`, an editor, ... *)
OperatorSaves(c) ==
  /\ c # file
  /\ file' = c
  /\ UNCHANGED <<wvars, evars, tconf, age, wdClosure, hpc, hloc, outdated>>

Signal == W!Cancel /\ UNCHANGED <<evars, dvars>>

Clock == E!Tick /\ UNCHANGED <<wvars, dvars>>

-----------------------------------------------------------------------------
Init ==
  /\ file \in Files \ {Invalid}
  /\ W!Init /\ live = file
  /\ E!Init /\ conf = file
  /\ tconf = file
  /\ age \in 0..MaxAge
  /\ wdClosure = "none"
  /\ hpc = [h \in Handlers |-> "idle"]
  /\ hloc = [h \in Handlers |-> NoLocals]
  /\ outdated = {}

WatchdogNext ==
  \/ WdStep \/ WdTunnelOK \/ WdTunnelFails \/ WdInvalidates
  \/ WdEvaluates \/ ProbeStep(Wd) \/ WdEgressReturns \/ WdProof

ProbeNow(h) ==
  \/ ProbeBegin(h) \/ ProbeCheck(h) \/ ProbeInvalidates(h)
  \/ ProbeEvaluates(h) \/ ProbeStep(h) \/ ProbeEvaluated(h)
  \/ ProbePublishes(h) \/ ProbeReplies(h)

Reload(h) ==
  \/ ReloadLoads(h) \/ ReloadGetsOld(h) \/ ReloadAppliesEgress(h)
  \/ ReloadAppliesTunnel(h) \/ ReloadSetsLive(h)

Environment ==
  Handshake \/ HandshakeAges \/ (\E c \in Files : OperatorSaves(c)) \/ Signal \/ Clock

Next == WatchdogNext \/ (\E h \in Handlers : ProbeNow(h) \/ Reload(h)) \/ Environment

Spec == Init /\ [][Next]_vars

-----------------------------------------------------------------------------
(* The daemon implements the watchdog's specification ... *)
ImplementsWatchdog == W!Spec

(* ... and uses the egress checker as its specification allows. *)
ImplementsEgressChecker == E!Spec

(* "The next Check must probe the newly established session instead of     *)
(* using its cache" (Invalidate's comment): once the watchdog has seen the *)
(* tunnel dead, no poll of it is proven by an observation whose probe      *)
(* began before that, not even by one a handler had in flight.             *)
NoResurrectedProof ==
  [][pc = "egress" /\ pc' = "cycle" /\ poll'.eOK => Wd \notin outdated]_vars

Reloading == \E h \in Handlers : hpc[h] \in {"applyTunnel", "setLive"}

(* A finished reload has reached every part: unless one is under way, the  *)
(* watchdog and both checkers work from the same configuration, as long as *)
(* no two reloads overlap (one handler): two may leave the parts apart.    *)
CheckersAgree == ~Reloading => conf = live /\ tconf = live

(* The probe is bound to the very interface whose handshakes are checked,  *)
(* the one the daemon was started on: proof obtained through one tunnel is *)
(* never combined with the liveness of another, even in mid-reload.        *)
SameInterface == conf.iface = tconf.iface /\ live.iface = tconf.iface
=============================================================================
