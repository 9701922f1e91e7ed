--------------------------- MODULE WatchdogProofs ---------------------------
(***************************************************************************)
(* Proofs about Watchdog, for every set of configurations, every set of    *)
(* exits and every StreakCap.                                              *)
(***************************************************************************)
EXTENDS Watchdog, TLAPS

(* Counting up to the cap stays within the cap and moves by at most one. *)
LEMMA BumpFacts ==
  ASSUME NEW n \in 0..StreakCap
  PROVE  /\ Bump(n) \in 0..StreakCap
         /\ n < StreakCap => Bump(n) = n + 1
         /\ n = StreakCap => Bump(n) = n
BY WatchdogAssumption DEF Bump

(* cycle() maps a well-typed wdState to a well-typed wdState. *)
LEMMA CycleType ==
  ASSUME NEW s \in [streak: 0..StreakCap, announced: {"none", "up", "down"}],
         NEW safe, NEW n \in 1..StreakCap
  PROVE  Cycle(s, safe, n) \in [streak: 0..StreakCap, announced: {"none", "up", "down"}]
<1>1. s.streak \in 0..StreakCap /\ s.announced \in {"none", "up", "down"}
  OBVIOUS
<1>2. Bump(s.streak) \in 0..StreakCap
  BY <1>1, BumpFacts
<1>3. 0 \in 0..StreakCap
  BY WatchdogAssumption
<1>4. QED
  BY <1>1, <1>2, <1>3 DEF Cycle

(* Every step of the loop and of the other goroutines keeps the types. *)
LEMMA TypeStep == TypeOK /\ [Next]_wvars => TypeOK'
<1> SUFFICES ASSUME TypeOK, [Next]_wvars PROVE TypeOK'
  OBVIOUS
<1> USE WatchdogAssumption DEF TypeOK, Goto, PC, Reasons, States, Verdicts
<1>1. CASE Stop \/ HeartbeatFires \/ HeartbeatLogs \/ TickerFires
  BY <1>1 DEF Stop, HeartbeatFires, HeartbeatLogs, TickerFires
<1>2. ASSUME NEW ok \in {TRUE, FALSE}, TunnelReturns(ok) \/ EgressReturns(ok)
      PROVE  TypeOK'
  <2>1. CASE TunnelReturns(ok)
    <3>1. poll' \in [tOK: BOOLEAN, eOK: BOOLEAN, reason: Reasons, exit: Exits]
      BY <2>1 DEF TunnelReturns
    <3>2. pc' \in PC
      BY <2>1 DEF TunnelReturns
    <3>3. QED
      BY <2>1, <3>1, <3>2 DEF TunnelReturns
  <2>2. CASE EgressReturns(ok)
    <3>1. poll' \in [tOK: BOOLEAN, eOK: BOOLEAN, reason: Reasons, exit: Exits]
      BY <2>2 DEF EgressReturns
    <3>2. QED
      BY <2>2, <3>1 DEF EgressReturns
  <2>3. QED
    BY <1>2, <2>1, <2>2
<1>3. PollSafe \in BOOLEAN
  BY DEF PollSafe, IsSafe
<1>4. Cycle(state, PollSafe, cfg.downCycles)
        \in [streak: 0..StreakCap, announced: {"none", "up", "down"}]
  BY <1>3, CycleType
<1>5. Remember(PollSafe) => recent' \in [1..StreakCap -> Verdicts]
  BY <1>3 DEF Remember
<1>6. CASE CycleQuiet
  BY <1>4, <1>5, <1>6 DEF CycleQuiet
<1>7. CASE CycleKills
  BY <1>5, <1>7 DEF CycleKills
<1>8. CASE KillerReturns
  BY <1>4, <1>8 DEF KillerReturns
<1>9. ASSUME NEW exit \in Exits, ProofReturns(exit)
      PROVE  TypeOK'
  BY <1>9 DEF ProofReturns
<1>10. CASE StoreSet
  <2>1. NoPoll \in [tOK: BOOLEAN, eOK: BOOLEAN, reason: Reasons, exit: Exits]
    BY DEF NoPoll
  <2>2. StateLabel(state) \in States
    BY DEF StateLabel
  <2>3. QED
    BY <1>10, <2>1, <2>2 DEF StoreSet
<1>11. ASSUME NEW c \in Configs, LiveSet(c)
       PROVE  TypeOK'
  BY <1>11 DEF LiveSet
<1>12. ASSUME NEW st \in {"up", "down"}, NEW reason \in Reasons, NEW exit \in Exits,
              SetProbe(st, reason, exit)
       PROVE  TypeOK'
  <2>1. store' \in [state: States, streak: 0..StreakCap, reason: Reasons, exit: Exits]
    BY <1>12 DEF SetProbe
  <2>2. QED
    BY <1>12, <2>1 DEF SetProbe
<1>13. CASE Cancel
  BY <1>13 DEF Cancel
<1>14. CASE UNCHANGED wvars
  BY <1>14 DEF wvars
<1> HIDE DEF TypeOK
<1>15. QED
  BY <1>1, <1>2, <1>6, <1>7, <1>8, <1>9, <1>10, <1>11, <1>12, <1>13, <1>14
     DEF Next, Loop, Others, Reasons

(* The initial state is well typed. *)
LEMMA TypeInit == Init => TypeOK
<1> SUFFICES ASSUME Init PROVE TypeOK
  OBVIOUS
<1> USE WatchdogAssumption DEF Init
<1>1. store \in [state: States, streak: 0..StreakCap, reason: Reasons, exit: Exits]
  BY DEF States, Reasons
<1>2. poll \in [tOK: BOOLEAN, eOK: BOOLEAN, reason: Reasons, exit: Exits]
  BY DEF NoPoll, Reasons
<1>3. state \in [streak: 0..StreakCap, announced: {"none", "up", "down"}]
  OBVIOUS
<1>4. recent \in [1..StreakCap -> Verdicts]
  BY DEF Verdicts
<1>5. live \in Configs /\ cfg \in Configs /\ heartbeat \in BOOLEAN
  OBVIOUS
<1>6. ctxDone \in BOOLEAN /\ pc \in PC
  BY DEF PC
<1>7. QED
  BY <1>1, <1>2, <1>3, <1>4, <1>5, <1>6 DEF TypeOK

(* The types of all that runWatchdog and its neighbours keep hold always. *)
THEOREM TypeCorrect == Spec => []TypeOK
BY TypeInit, TypeStep, PTL DEF Spec

-----------------------------------------------------------------------------
(* The debounce.                                                           *)

(* What a poll's verdict does to the run of unsafe polls: a safe one ends  *)
(* it, an unsafe one makes it longer by one, up to the cap.                *)
LEMMA RememberExtends ==
  ASSUME TypeOK, StreakIs(state.streak), Remember(PollSafe)
  PROVE  /\ PollSafe => StreakIs(0)'
         /\ ~PollSafe => /\ \A i \in 1..Bump(state.streak) : recent'[i] = "unsafe"
                         /\ Bump(state.streak) < StreakCap
                              => recent'[Bump(state.streak) + 1] # "unsafe"
<1>1. state.streak \in 0..StreakCap
  BY DEF TypeOK
<1>2. /\ Bump(state.streak) \in 0..StreakCap
      /\ state.streak < StreakCap => Bump(state.streak) = state.streak + 1
      /\ state.streak = StreakCap => Bump(state.streak) = state.streak
  BY <1>1, BumpFacts
<1>3. CASE PollSafe
  BY <1>3, WatchdogAssumption DEF Remember, StreakIs
<1>4. CASE ~PollSafe
  <2>1. \A i \in 1..StreakCap :
          recent'[i] = IF i > 1 THEN recent[i - 1] ELSE "unsafe"
    BY <1>4 DEF Remember
  <2>2. \A i \in 1..Bump(state.streak) : recent'[i] = "unsafe"
    BY <1>1, <1>2, <2>1, WatchdogAssumption DEF StreakIs
  <2>3. Bump(state.streak) < StreakCap => recent'[Bump(state.streak) + 1] # "unsafe"
    BY <1>1, <1>2, <2>1, WatchdogAssumption DEF StreakIs
  <2>4. QED
    BY <1>4, <2>2, <2>3
<1>5. QED
  BY <1>3, <1>4

(* The streak stays the length of the run of unsafe polls. *)
LEMMA StreakStep ==
  TypeOK /\ StreakCountsUnsafePolls /\ [Next]_wvars => StreakCountsUnsafePolls'
<1> SUFFICES ASSUME TypeOK, StreakCountsUnsafePolls, [Next]_wvars
             PROVE  StreakCountsUnsafePolls'
  OBVIOUS
<1>1. ASSUME UNCHANGED <<state, recent, cfg, poll, pc>>
      PROVE  StreakCountsUnsafePolls'
  BY <1>1 DEF StreakCountsUnsafePolls, StreakIs, PollSafe
<1>2. ASSUME UNCHANGED <<state, recent>>, pc # "kill", pc' # "kill"
      PROVE  StreakCountsUnsafePolls'
  BY <1>2 DEF StreakCountsUnsafePolls, StreakIs
<1>3. CASE CycleQuiet
  <2>1. StreakIs(state.streak) /\ Remember(PollSafe) /\ pc' = "proof"
    BY <1>3 DEF CycleQuiet, Goto, StreakCountsUnsafePolls
  <2>2. state'.streak = IF PollSafe THEN 0 ELSE Bump(state.streak)
    BY <1>3 DEF CycleQuiet, Cycle
  <2>3. StreakIs(state.streak)'
    BY <2>1, <2>2, RememberExtends DEF StreakIs
  <2>4. QED
    BY <2>1, <2>3 DEF StreakCountsUnsafePolls
<1>4. CASE CycleKills
  <2>1. StreakIs(state.streak) /\ Remember(PollSafe) /\ ~PollSafe
    BY <1>4 DEF CycleKills, Goto, StreakCountsUnsafePolls, KillDue
  <2>2. UNCHANGED <<state, poll, cfg>> /\ pc' = "kill"
    BY <1>4 DEF CycleKills, Goto
  <2>3. ~PollSafe' /\ StreakIs(Bump(state.streak))'
    BY <2>1, <2>2, RememberExtends DEF PollSafe, StreakIs, Bump
  <2>4. QED
    BY <2>2, <2>3 DEF StreakCountsUnsafePolls
<1>5. CASE KillerReturns
  <2>1. ~PollSafe /\ StreakIs(Bump(state.streak)) /\ recent' = recent /\ pc' = "proof"
    BY <1>5 DEF KillerReturns, Goto, StreakCountsUnsafePolls
  <2>2. state'.streak = Bump(state.streak)
    BY <1>5, <2>1 DEF KillerReturns, Cycle
  <2>3. QED
    BY <2>1, <2>2 DEF StreakCountsUnsafePolls, StreakIs
<1>6. CASE Stop \/ HeartbeatFires \/ HeartbeatLogs \/ TickerFires \/ StoreSet
  BY <1>2, <1>6 DEF Stop, HeartbeatFires, HeartbeatLogs, TickerFires, StoreSet, Goto
<1>7. ASSUME NEW ok, TunnelReturns(ok) \/ EgressReturns(ok)
      PROVE  StreakCountsUnsafePolls'
  BY <1>2, <1>7 DEF TunnelReturns, EgressReturns, Goto
<1>8. ASSUME NEW exit, ProofReturns(exit)
      PROVE  StreakCountsUnsafePolls'
  BY <1>2, <1>8 DEF ProofReturns, Goto
<1>9. CASE Others \/ UNCHANGED wvars
  BY <1>1, <1>9 DEF Others, LiveSet, SetProbe, Cancel, wvars
<1>10. QED
  BY <1>3, <1>4, <1>5, <1>6, <1>7, <1>8, <1>9 DEF Next, Loop

(* Nothing has been polled yet. *)
LEMMA StreakInit == Init => StreakCountsUnsafePolls
BY WatchdogAssumption DEF Init, StreakCountsUnsafePolls, StreakIs

(* wdState.streak always is the number of consecutive unsafe polls, over   *)
(* any number of polls, reloads and forced probes.                         *)
THEOREM StreakCorrect == Spec => []StreakCountsUnsafePolls
BY TypeInit, TypeStep, StreakInit, StreakStep, PTL DEF Spec

(* A step out of cycle() enters kill() exactly when the last               *)
(* down_cycles_to_kill polls, this one included, were all unsafe.          *)
LEMMA KillStep ==
  ASSUME TypeOK, StreakCountsUnsafePolls, CycleQuiet \/ CycleKills
  PROVE  (pc' = "kill") <=> (\A i \in 1..cfg.downCycles : recent'[i] = "unsafe")
<1>1. StreakIs(state.streak) /\ Remember(PollSafe)
  BY DEF CycleQuiet, CycleKills, Goto, StreakCountsUnsafePolls
<1>2. (pc' = "kill") <=> KillDue(state, PollSafe, cfg.downCycles)
  BY DEF CycleQuiet, CycleKills, Goto
<1>3. /\ state.streak \in 0..StreakCap
      /\ cfg.downCycles \in 1..StreakCap
      /\ StreakCap \in Nat
  BY WatchdogAssumption DEF TypeOK
<1>4. Bump(state.streak) \in 0..StreakCap
  BY <1>3, BumpFacts
<1>5. CASE PollSafe
  <2>1. recent'[1] # "unsafe"
    BY <1>1, <1>3, <1>5 DEF Remember
  <2>2. QED
    BY <1>2, <1>3, <1>5, <2>1 DEF KillDue
<1>6. CASE ~PollSafe
  <2>1. /\ \A i \in 1..Bump(state.streak) : recent'[i] = "unsafe"
        /\ Bump(state.streak) < StreakCap => recent'[Bump(state.streak) + 1] # "unsafe"
    BY <1>1, <1>6, RememberExtends
  <2>2. CASE Bump(state.streak) >= cfg.downCycles
    BY <1>2, <1>3, <1>4, <1>6, <2>1, <2>2 DEF KillDue
  <2>3. CASE Bump(state.streak) < cfg.downCycles
    BY <1>2, <1>3, <1>4, <1>6, <2>1, <2>3 DEF KillDue
  <2>4. QED
    BY <1>3, <1>4, <2>2, <2>3
<1>7. QED
  BY <1>5, <1>6

(* The debounce is exact, whatever configurations are reloaded meanwhile:  *)
(* no kill without down_cycles_to_kill consecutive unsafe polls, and no    *)
(* such run of polls without a kill.                                       *)
THEOREM DebounceCorrect == Spec => KillIffConfirmed
<1>1. TypeOK /\ StreakCountsUnsafePolls /\ [Next]_wvars =>
        [pc = "cycle" /\ pc' # "cycle" =>
           ((pc' = "kill") <=> (\A i \in 1..cfg.downCycles : recent'[i] = "unsafe"))]_wvars
  <2> SUFFICES ASSUME TypeOK, StreakCountsUnsafePolls, Next, pc = "cycle", pc' # "cycle"
               PROVE  (pc' = "kill")
                        <=> (\A i \in 1..cfg.downCycles : recent'[i] = "unsafe")
    BY DEF wvars
  <2>1. CycleQuiet \/ CycleKills
    BY DEF Next, Loop, Others, Goto, Stop, HeartbeatFires, HeartbeatLogs, TickerFires,
           TunnelReturns, EgressReturns, KillerReturns, ProofReturns, StoreSet,
           LiveSet, SetProbe, Cancel
  <2>2. QED
    BY <2>1, KillStep
<1>2. QED
  BY <1>1, TypeCorrect, StreakCorrect, PTL DEF Spec, KillIffConfirmed

-----------------------------------------------------------------------------
(* What the loop publishes and by what it judges.                          *)

(* egress() is only called on a live tunnel that is to be verified. *)
EgressIsNeeded == pc = "egress" => poll.tOK /\ cfg.verify

VerdictInv == EgressIsNeeded /\ VerdictHasReason

(* The verdict and its reason stay in step. *)
LEMMA VerdictStep == TypeOK /\ VerdictInv /\ [Next]_wvars => VerdictInv'
<1> SUFFICES ASSUME TypeOK, VerdictInv, [Next]_wvars PROVE VerdictInv'
  OBVIOUS
<1> USE DEF VerdictInv, EgressIsNeeded, VerdictHasReason, PollSafe, IsSafe, Goto
<1>1. ASSUME UNCHANGED <<pc, poll, cfg>> PROVE VerdictInv'
  BY <1>1
<1>2. ASSUME pc' \notin {"egress", "cycle", "kill"} PROVE VerdictInv'
  BY <1>2
<1>3. ASSUME NEW ok \in {TRUE, FALSE}, TunnelReturns(ok) PROVE VerdictInv'
  <2>1. poll'.tOK = ok /\ (poll'.reason = "none" <=> ok) /\ cfg' = cfg
    BY <1>3 DEF TunnelReturns, TypeOK
  <2>2. CASE cfg.verify /\ ok
    BY <1>3, <2>1, <2>2 DEF TunnelReturns
  <2>3. CASE ~(cfg.verify /\ ok)
    BY <1>3, <2>1, <2>3 DEF TunnelReturns
  <2>4. QED
    BY <2>2, <2>3
<1>4. ASSUME NEW ok \in {TRUE, FALSE}, EgressReturns(ok) PROVE VerdictInv'
  <2>1. /\ poll'.eOK = ok /\ (poll'.reason = "none" <=> ok)
        /\ poll'.tOK = poll.tOK /\ cfg' = cfg /\ pc' = "cycle"
    BY <1>4 DEF EgressReturns, TypeOK
  <2>2. poll.tOK /\ cfg.verify
    BY <1>4 DEF EgressReturns
  <2>3. QED
    BY <2>1, <2>2
<1>5. CASE CycleKills
  BY <1>5 DEF CycleKills
<1>6. CASE Stop \/ HeartbeatFires \/ HeartbeatLogs \/ TickerFires \/ StoreSet
  BY <1>2, <1>6 DEF Stop, HeartbeatFires, HeartbeatLogs, TickerFires, StoreSet
<1>7. CASE CycleQuiet \/ KillerReturns \/ \E exit \in Exits : ProofReturns(exit)
  BY <1>2, <1>7 DEF CycleQuiet, KillerReturns, ProofReturns
<1>8. CASE Others \/ UNCHANGED wvars
  BY <1>1, <1>8 DEF Others, LiveSet, SetProbe, Cancel, wvars
<1> HIDE DEF VerdictInv
<1>9. QED
  BY <1>3, <1>4, <1>5, <1>6, <1>7, <1>8 DEF Next, Loop

(* Every verdict is judged under the configuration its checks ran under,   *)
(* so unsafe polls, and only those, carry the reason of a failed check.    *)
THEOREM VerdictCorrect == Spec => []VerdictHasReason
<1>1. Init => VerdictInv
  BY DEF Init, VerdictInv, EgressIsNeeded, VerdictHasReason
<1>2. VerdictInv => VerdictHasReason
  BY DEF VerdictInv
<1>3. QED
  BY <1>1, <1>2, TypeCorrect, VerdictStep, PTL DEF Spec

(* Forced probes never make the published streak differ from the           *)
(* watchdog's own.                                                         *)
THEOREM PublishedCorrect == Spec => []PublishedStreakIsCurrent
<1>1. Init => PublishedStreakIsCurrent
  BY DEF Init, PublishedStreakIsCurrent
<1>2. TypeOK /\ PublishedStreakIsCurrent /\ [Next]_wvars => PublishedStreakIsCurrent'
  <2> SUFFICES ASSUME TypeOK, PublishedStreakIsCurrent, [Next]_wvars
               PROVE  PublishedStreakIsCurrent'
    OBVIOUS
  <2> USE DEF PublishedStreakIsCurrent, Goto
  <2>1. ASSUME UNCHANGED <<store, state>>, pc \notin {"proof", "publish"}
        PROVE  PublishedStreakIsCurrent'
    BY <2>1
  <2>2. ASSUME pc' \in {"proof", "publish"} PROVE PublishedStreakIsCurrent'
    BY <2>2
  <2>3. ASSUME UNCHANGED <<pc, state>>, store'.streak = store.streak
        PROVE  PublishedStreakIsCurrent'
    BY <2>3
  <2>4. CASE Stop \/ HeartbeatFires \/ HeartbeatLogs \/ TickerFires \/ CycleKills
    BY <2>1, <2>4 DEF Stop, HeartbeatFires, HeartbeatLogs, TickerFires, CycleKills
  <2>5. ASSUME NEW ok, TunnelReturns(ok) \/ EgressReturns(ok)
        PROVE  PublishedStreakIsCurrent'
    BY <2>1, <2>5 DEF TunnelReturns, EgressReturns
  <2>6. CASE CycleQuiet \/ KillerReturns \/ \E exit \in Exits : ProofReturns(exit)
    BY <2>2, <2>6 DEF CycleQuiet, KillerReturns, ProofReturns
  <2>7. CASE StoreSet
    BY <2>7 DEF StoreSet
  <2>8. ASSUME NEW st, NEW reason, NEW exit, SetProbe(st, reason, exit)
        PROVE  PublishedStreakIsCurrent'
    BY <2>3, <2>8 DEF SetProbe, TypeOK
  <2>9. CASE (\E c \in Configs : LiveSet(c)) \/ Cancel \/ UNCHANGED wvars
    BY <2>3, <2>9 DEF LiveSet, Cancel, wvars
  <2> HIDE DEF PublishedStreakIsCurrent
  <2>10. QED
    BY <2>4, <2>5, <2>6, <2>7, <2>8, <2>9 DEF Next, Loop, Others
<1>3. QED
  BY <1>1, <1>2, TypeCorrect, PTL DEF Spec

-----------------------------------------------------------------------------
(* Killing goes on while the outage lasts.                                 *)

SteadyThreshold == \A c, d \in Configs : c.downCycles = d.downCycles

(* DOWN has been announced after enough unsafe polls, and the streak has   *)
(* not been reset since.                                                   *)
DownIsLong == state.announced = "down" => state.streak >= cfg.downCycles

(* cycle() leaves the streak long enough whenever it leaves DOWN announced. *)
LEMMA CycleKeepsDownLong ==
  ASSUME TypeOK, DownIsLong
  PROVE  LET s == Cycle(state, PollSafe, cfg.downCycles)
         IN  s.announced = "down" => s.streak >= cfg.downCycles
<1>1. /\ state.streak \in 0..StreakCap
      /\ cfg.downCycles \in 1..StreakCap
      /\ StreakCap \in Nat
  BY WatchdogAssumption DEF TypeOK
<1>2. Bump(state.streak) \in 0..StreakCap /\ Bump(state.streak) >= state.streak
  BY <1>1 DEF Bump
<1>3. QED
  BY <1>1, <1>2 DEF Cycle, KillDue, DownIsLong

(* With one threshold in all configurations, no reload makes a confirmed   *)
(* outage look unconfirmed. *)
LEMMA DownIsLongStep ==
  ASSUME SteadyThreshold, TypeOK, DownIsLong, [Next]_wvars
  PROVE  DownIsLong'
<1>1. ASSUME UNCHANGED state PROVE DownIsLong'
  <2>1. cfg' \in Configs
    BY TypeStep DEF TypeOK
  <2>2. cfg'.downCycles = cfg.downCycles
    BY <2>1 DEF SteadyThreshold, TypeOK
  <2>3. QED
    BY <1>1, <2>2 DEF DownIsLong
<1>2. CASE CycleQuiet \/ KillerReturns
  <2>1. state' = Cycle(state, PollSafe, cfg.downCycles) /\ cfg' = cfg
    BY <1>2 DEF CycleQuiet, KillerReturns
  <2>2. QED
    BY <2>1, CycleKeepsDownLong DEF DownIsLong
<1>3. CASE ~(CycleQuiet \/ KillerReturns)
  <2>1. UNCHANGED state
    BY <1>3 DEF Next, Loop, Others, Stop, HeartbeatFires, HeartbeatLogs, TickerFires,
                TunnelReturns, EgressReturns, CycleKills, ProofReturns, StoreSet,
                LiveSet, SetProbe, Cancel, wvars
  <2>2. QED
    BY <1>1, <2>1
<1>4. QED
  BY <1>2, <1>3

(* "from confirmation on, kill runs every poll": true as long as no reload *)
(* changes down_cycles_to_kill.                                            *)
THEOREM KillingContinues ==
  ASSUME SteadyThreshold
  PROVE  Spec => ConfirmedDownKeepsKilling
<1>1. Init => DownIsLong
  BY DEF Init, DownIsLong
<1>2. TypeOK /\ DownIsLong /\ [Next]_wvars => DownIsLong'
  BY DownIsLongStep
<1>3. TypeOK /\ DownIsLong /\ [Next]_wvars =>
        [pc = "cycle" /\ pc' # "cycle" /\ state.announced = "down" /\ ~PollSafe
           => pc' = "kill"]_wvars
  <2> SUFFICES ASSUME TypeOK, DownIsLong, Next, pc = "cycle", pc' # "cycle",
                      state.announced = "down", ~PollSafe
               PROVE  pc' = "kill"
    BY DEF wvars
  <2>1. /\ state.streak \in 0..StreakCap
        /\ cfg.downCycles \in 1..StreakCap
        /\ StreakCap \in Nat
    BY WatchdogAssumption DEF TypeOK
  <2>2. KillDue(state, PollSafe, cfg.downCycles)
    BY <2>1 DEF KillDue, Bump, DownIsLong
  <2>3. CycleKills
    BY <2>2 DEF Next, Loop, Others, Goto, Stop, HeartbeatFires, HeartbeatLogs,
           TickerFires, TunnelReturns, EgressReturns, CycleQuiet, KillerReturns,
           ProofReturns, StoreSet, LiveSet, SetProbe, Cancel
  <2>4. QED
    BY <2>3 DEF CycleKills, Goto
<1>4. QED
  BY <1>1, <1>2, <1>3, TypeCorrect, PTL DEF Spec, ConfirmedDownKeepsKilling
=============================================================================
