------------------------------ MODULE Watchdog ------------------------------
(***************************************************************************)
(* The kill-switch state machine of internal/app/watchdog.go, with the two *)
(* locked cells it shares with the agent goroutines: Live (live.go), which *)
(* a reload swaps, and Store (agent.go), which a forced probe also writes. *)
(*                                                                         *)
(* runWatchdog receives tunnel, egress, proof and killer as closures; here *)
(* they are the actions TunnelReturns, EgressReturns, ProofReturns and     *)
(* KillerReturns, whose answers are free.  Daemon.tla supplies the real    *)
(* ones and is shown to implement this specification.                      *)
(*                                                                         *)
(* Time is abstract: the poll ticker may fire whenever the loop is in its  *)
(* select, so poll_interval (and ticker.Reset) has no counterpart, and of  *)
(* heartbeat_interval only "greater than zero" remains.                    *)
(***************************************************************************)
EXTENDS Naturals

CONSTANTS
  Configs,      \* the configurations Live can hold: records with at least
                \* verify, downCycles and heartbeat
  Exits,        \* the (ip, country) pairs proof() can return
  NoExit,       \* the pair of empty strings
  StreakCap     \* where the streak counter stops counting (see Bump)

(* Live only ever holds configurations that passed Config.Validate, hence  *)
(* down_cycles_to_kill >= 1 and durations that parse: the "config invalid, *)
(* keeping previous settings" branch of the loop is not reachable.         *)
ASSUME WatchdogAssumption ==
  /\ StreakCap \in Nat
  /\ \A c \in Configs : /\ c.verify \in BOOLEAN
                        /\ c.downCycles \in 1..StreakCap
                        /\ c.heartbeat \in BOOLEAN
  /\ NoExit \in Exits

VARIABLES
  live,       \* Live.cfg
  store,      \* Store: state, streak, reason, exit (updatedAt is left out)
  ctxDone,    \* ctx has been cancelled by SIGINT or SIGTERM
  pc,         \* where the watchdog goroutine is
  cfg,        \* its snapshot of Live, taken at the start of each poll
  heartbeat,  \* heartbeatC is not nil
  poll,       \* the locals of the current poll
  state,      \* wdState: streak and announced
  recent      \* history variable: recent[1] is the latest poll's verdict

wvars == <<live, store, ctxDone, pc, cfg, heartbeat, poll, state, recent>>

(* "none" stands for the empty string. *)
PC == {"select", "heartbeat", "tunnel", "egress", "cycle", "kill", "proof",
       "publish", "stopped"}
Reasons == {"none", "tunnel", "egress"}       \* which check explains the failure
States == {"unknown", "up", "down"}
Verdicts == {"none", "safe", "unsafe"}

NoPoll == [tOK |-> FALSE, eOK |-> FALSE, reason |-> "none", exit |-> NoExit]

TypeOK ==
  /\ live \in Configs
  /\ store \in [state: States, streak: 0..StreakCap, reason: Reasons, exit: Exits]
  /\ ctxDone \in BOOLEAN
  /\ pc \in PC
  /\ cfg \in Configs
  /\ heartbeat \in BOOLEAN
  /\ poll \in [tOK: BOOLEAN, eOK: BOOLEAN, reason: Reasons, exit: Exits]
  /\ state \in [streak: 0..StreakCap, announced: {"none", "up", "down"}]
  /\ recent \in [1..StreakCap -> Verdicts]

-----------------------------------------------------------------------------
(* The pure part: cycle() and stateLabel().                                *)

(* The streak is only compared with down_cycles_to_kill, never above       *)
(* StreakCap, so counting may stop there.                                  *)
Bump(n) == IF n < StreakCap THEN n + 1 ELSE n

IsSafe(tOK, verify, eOK) == tOK /\ (~verify \/ eOK)

(* Mutant: one poll too late. *)
KillDueLate(s, safe, downCycles) == ~safe /\ Bump(s.streak) > downCycles
(* Mutant: kills on the announcement only. *)
KillDueOnce(s, safe, downCycles) ==
  ~safe /\ Bump(s.streak) >= downCycles /\ s.announced # "down"
KillDue(s, safe, downCycles) == ~safe /\ Bump(s.streak) >= downCycles

(* Mutant: a safe poll does not reset the streak. *)
CycleKeepsStreak(s, safe, downCycles) ==
  [streak    |-> IF safe THEN s.streak ELSE Bump(s.streak),
   announced |-> IF safe THEN "up"
                 ELSE IF KillDue(s, safe, downCycles) THEN "down" ELSE s.announced]
(* Mutant: nothing announced while the streak is zero. *)
CycleQuietWhenClean(s, safe, downCycles) ==
  IF safe /\ s.streak = 0 THEN s
  ELSE IF safe THEN [streak |-> 0, announced |-> "up"]
  ELSE [streak    |-> Bump(s.streak),
        announced |-> IF KillDue(s, safe, downCycles) THEN "down" ELSE s.announced]
Cycle(s, safe, downCycles) ==
  IF safe THEN [streak |-> 0, announced |-> "up"]
  ELSE [streak    |-> Bump(s.streak),
        announced |-> IF KillDue(s, safe, downCycles) THEN "down" ELSE s.announced]

(* Mutant: the empty announcement published as it is. *)
StateLabelRaw(s) == s.announced
StateLabel(s) == IF s.announced = "none" THEN "unknown" ELSE s.announced

-----------------------------------------------------------------------------
(* The loop of runWatchdog.                                                *)

Goto(from, to) == pc = from /\ pc' = to

(* Mutant: break leaves the select, not the loop. *)
StopBreaksSelect ==
  /\ ctxDone
  /\ Goto("select", "select")
  /\ UNCHANGED <<live, store, ctxDone, cfg, heartbeat, poll, state, recent>>
(* case <-ctx.Done() *)
Stop ==
  /\ ctxDone
  /\ Goto("select", "stopped")
  /\ UNCHANGED <<live, store, ctxDone, cfg, heartbeat, poll, state, recent>>

(* case <-heartbeatC: proof() is taken and one line logged. *)
HeartbeatFires ==
  /\ heartbeat
  /\ Goto("select", "heartbeat")
  /\ UNCHANGED <<live, store, ctxDone, cfg, heartbeat, poll, state, recent>>

HeartbeatLogs ==
  /\ Goto("heartbeat", "select")
  /\ UNCHANGED <<live, store, ctxDone, cfg, heartbeat, poll, state, recent>>

(* case <-ticker.C: Live is read again and the intervals are re-applied. *)
TickerFires ==
  /\ Goto("select", "tunnel")
  /\ cfg' = live
  /\ heartbeat' = live.heartbeat
  /\ UNCHANGED <<live, store, ctxDone, poll, state, recent>>

(* tOK, tReason := tunnel(); egress() is only consulted on a live tunnel. *)
TunnelReturns(ok) ==
  /\ Goto("tunnel", IF cfg.verify /\ ok THEN "egress" ELSE "cycle")
  /\ poll' = [poll EXCEPT !.tOK = ok, !.reason = IF ok THEN "none" ELSE "tunnel"]
  /\ UNCHANGED <<live, store, ctxDone, cfg, heartbeat, state, recent>>

EgressReturns(ok) ==
  /\ Goto("egress", "cycle")
  /\ poll' = [poll EXCEPT !.eOK = ok, !.reason = IF ok THEN "none" ELSE "egress"]
  /\ UNCHANGED <<live, store, ctxDone, cfg, heartbeat, state, recent>>

(* Mutant: verify_egress read again after the checks. *)
PollSafeByLive == IsSafe(poll.tOK, live.verify, poll.eOK)
PollSafe == IsSafe(poll.tOK, cfg.verify, poll.eOK)

Remember(safe) ==
  recent' = [i \in 1..StreakCap |-> IF i > 1 THEN recent[i - 1]
                                    ELSE IF safe THEN "safe" ELSE "unsafe"]

(* cycle() when it does not reach kill(). *)
CycleQuiet ==
  /\ Goto("cycle", "proof")
  /\ ~KillDue(state, PollSafe, cfg.downCycles)
  /\ state' = Cycle(state, PollSafe, cfg.downCycles)
  /\ Remember(PollSafe)
  /\ UNCHANGED <<live, store, ctxDone, cfg, heartbeat, poll>>

(* cycle() entering kill(), which blocks the loop for up to kill_grace. *)
CycleKills ==
  /\ Goto("cycle", "kill")
  /\ KillDue(state, PollSafe, cfg.downCycles)
  /\ Remember(PollSafe)
  /\ UNCHANGED <<live, store, ctxDone, cfg, heartbeat, poll, state>>

KillerReturns ==
  /\ Goto("kill", "proof")
  /\ state' = Cycle(state, PollSafe, cfg.downCycles)
  /\ UNCHANGED <<live, store, ctxDone, cfg, heartbeat, poll, recent>>

(* ip, country := proof() *)
ProofReturns(exit) ==
  /\ Goto("proof", "publish")
  /\ poll' = [poll EXCEPT !.exit = exit]
  /\ UNCHANGED <<live, store, ctxDone, cfg, heartbeat, state, recent>>

(* store.Set(...); the poll's locals go out of scope. *)
StoreSet ==
  /\ Goto("publish", "select")
  /\ store' = [state |-> StateLabel(state), streak |-> state.streak,
               reason |-> poll.reason, exit |-> poll.exit]
  /\ poll' = NoPoll
  /\ UNCHANGED <<live, ctxDone, cfg, heartbeat, state, recent>>

-----------------------------------------------------------------------------
(* The other goroutines.                                                   *)

(* Live.Set, by a reload *)
LiveSet(c) ==
  /\ live' = c
  /\ UNCHANGED <<store, ctxDone, pc, cfg, heartbeat, poll, state, recent>>

(* Mutant: a probe overwrites the whole status. *)
SetProbeResetsStreak(st, reason, exit) ==
  /\ store' = [state |-> st, streak |-> 0, reason |-> reason, exit |-> exit]
  /\ UNCHANGED <<live, ctxDone, pc, cfg, heartbeat, poll, state, recent>>
(* Store.SetProbe, by a forced probe: every field but the streak *)
SetProbe(st, reason, exit) ==
  /\ store' = [store EXCEPT !.state = st, !.reason = reason, !.exit = exit]
  /\ UNCHANGED <<live, ctxDone, pc, cfg, heartbeat, poll, state, recent>>

(* signal.NotifyContext *)
Cancel ==
  /\ ~ctxDone
  /\ ctxDone' = TRUE
  /\ UNCHANGED <<live, store, pc, cfg, heartbeat, poll, state, recent>>

-----------------------------------------------------------------------------
Init ==
  /\ live \in Configs
  /\ store = [state |-> "unknown", streak |-> 0, reason |-> "none", exit |-> NoExit]
  /\ ctxDone = FALSE
  /\ pc = "select"
  /\ cfg = live
  /\ heartbeat = live.heartbeat
  /\ poll = NoPoll
  /\ state = [streak |-> 0, announced |-> "none"]
  /\ recent = [i \in 1..StreakCap |-> "none"]

Loop ==
  \/ Stop \/ HeartbeatFires \/ HeartbeatLogs \/ TickerFires
  \/ \E ok \in BOOLEAN : TunnelReturns(ok) \/ EgressReturns(ok)
  \/ CycleQuiet \/ CycleKills \/ KillerReturns
  \/ \E exit \in Exits : ProofReturns(exit)
  \/ StoreSet

(* A forced probe reports up or down, with the exit its evaluation saw. *)
Others ==
  \/ \E c \in Configs : LiveSet(c)
  \/ \E exit \in Exits :
        \/ SetProbe("up", "none", exit)
        \/ \E reason \in {"tunnel", "egress"} : SetProbe("down", reason, exit)
  \/ Cancel

Next == Loop \/ Others

Spec == Init /\ [][Next]_wvars

(* The loop's steps are those of a running goroutine whose closures all    *)
(* return.  Go's select picks uniformly among its ready cases, so a case   *)
(* that is ready again and again is eventually taken: strong fairness for  *)
(* the ticker (against heartbeats) and for ctx.Done (against both).        *)
Fairness ==
  /\ SF_wvars(Stop)
  /\ SF_wvars(TickerFires)
  /\ WF_wvars(Loop /\ pc # "select")

FairSpec == Spec /\ Fairness

-----------------------------------------------------------------------------
(* The debounce is exact: a poll reaches kill() if and only if it and the  *)
(* polls before it, down_cycles_to_kill of them under the configuration of *)
(* that poll, were all unsafe - whatever reloads happened in between.      *)
KillIffConfirmed ==
  [][pc = "cycle" /\ pc' # "cycle" =>
       ((pc' = "kill") <=> (\A i \in 1..cfg.downCycles : recent'[i] = "unsafe"))]_wvars

(* n is the number of unsafe polls in a row up to the latest one, as far   *)
(* as StreakCap polls can tell.                                            *)
StreakIs(n) ==
  /\ \A i \in 1..n : recent[i] = "unsafe"
  /\ n < StreakCap => recent[n + 1] # "unsafe"

(* wdState.streak is the length of the current run of unsafe polls; while  *)
(* kill() runs it is one behind, because cycle() assigns it on return.     *)
StreakCountsUnsafePolls ==
  /\ pc # "kill" => StreakIs(state.streak)
  /\ pc = "kill" => ~PollSafe /\ StreakIs(Bump(state.streak))

(* A verdict is judged under the configuration its checks ran under: an    *)
(* unsafe poll has the reason of the check that failed, and a safe one has *)
(* none.  A reload that flips verify_egress in mid-poll changes neither.   *)
VerdictHasReason ==
  pc \in {"cycle", "kill"} => (PollSafe <=> poll.reason = "none")

(* "SetProbe publishes a forced probe without racing the watchdog's        *)
(* streak" (agent.go): outside the window in which the loop has a new      *)
(* streak to publish, the published streak is the debounce counter itself. *)
PublishedStreakIsCurrent ==
  pc \notin {"proof", "publish"} => store.streak = state.streak

(* "from confirmation on, kill runs every poll" (cycle's comment): once    *)
(* DOWN has been announced, every further unsafe poll kills.               *)
ConfirmedDownKeepsKilling ==
  [][pc = "cycle" /\ pc' # "cycle" /\ state.announced = "down" /\ ~PollSafe
       => pc' = "kill"]_wvars

(* An outage is enforced for as long as it lasts: if from some moment on   *)
(* every poll is unsafe and nobody stops the daemon, kill() runs again and *)
(* again, so processes started in the outage are reached too.              *)
OutageIsEnforced ==
  <>[](recent[1] = "unsafe" /\ ~ctxDone) => []<>(pc = "kill")

(* A recovered tunnel is announced and the killing ends. *)
RecoveryIsAnnounced ==
  <>[](recent[1] = "safe" /\ ~ctxDone) => <>[](state.announced = "up" /\ pc # "kill")

(* SIGTERM ends the loop, even in the middle of a poll or a kill round. *)
CancelStops == ctxDone ~> pc = "stopped"
=============================================================================
