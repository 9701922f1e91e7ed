------------------------ MODULE EgressCheckerProofs ------------------------
(***************************************************************************)
(* Proofs about EgressChecker, for any number of goroutines, any           *)
(* configurations and DNSBL answers, and any bound on the clock.           *)
(***************************************************************************)
EXTENDS EgressChecker, TLAPS

Calls == [stage: Stages, start: 0..MaxTime, ok: BOOLEAN, reason: ProbeReasons,
          exit: Exits, probed: BOOLEAN, overtaken: BOOLEAN]
Caches == [set: BOOLEAN, verdict: BOOLEAN, reason: ProbeReasons, ts: 0..MaxTime,
           obsAt: 0..MaxTime, hit: BOOLEAN, stale: BOOLEAN]

(* The code's two byte tests select exactly the addresses of 127.0.0.0/8   *)
(* below 127.255.255.0, at both ends of the range.                         *)
LEMMA ListedAnswerIsRange ==
  ASSUME NEW a \in Octet \X Octet \X Octet
  PROVE  ListedAnswer(a) <=> InListedRange(a)
<1>1. PICK x \in 0..255, y \in 0..255, z \in 0..255 : a[1] = x /\ a[2] = y /\ a[3] = z
  BY DEF Octet
<1>2. /\ (x * 256 + y) * 256 + z >= 127 * 65536
      /\ (x * 256 + y) * 256 + z < 127 * 65536 + 65535
      <=> x = 127 /\ ~(y = 255 /\ z = 255)
  BY SMT
<1>3. QED
  BY <1>1, <1>2, SMT DEF ListedAnswer, InListedRange

(* A verdict passes probe()'s checks iff the exit is proof. *)
LEMMA JudgeProves ==
  ASSUME NEW c, NEW exit, Judge(c, exit) = "none"
  PROVE  Proves(c, exit)
BY DEF Judge, Proves

(* Every judgement is one of the reasons of a probe. *)
LEMMA JudgeType ==
  ASSUME NEW c, NEW exit
  PROVE  Judge(c, exit) \in ProbeReasons
BY DEF Judge, ProbeReasons

(* The values that stand for no exit, no call and no cached verdict. *)
LEMMA NoValues ==
  /\ NoExit \in Exits
  /\ NoCall \in Calls
  /\ NoCache \in Caches
<1>1. NoExit \in Exits
  BY DEF NoExit, Exits
<1>2. 0 \in 0..MaxTime
  BY EgressAssumption
<1>3. NoCall \in Calls
  BY <1>1, <1>2 DEF NoCall, Calls, Stages, ProbeReasons
<1>4. NoCache \in Caches
  BY <1>2 DEF NoCache, Caches, ProbeReasons
<1>5. QED
  BY <1>1, <1>3, <1>4

-----------------------------------------------------------------------------
(* Types.                                                                  *)

(* The types hold at the start. *)
LEMMA TypeInit == Init => TypeOK
<1> SUFFICES ASSUME Init PROVE TypeOK
  OBVIOUS
<1>1. cache \in Caches /\ last \in Exits /\ call \in [Procs -> Calls]
  BY NoValues DEF Init
<1>2. 0 \in 0..MaxTime
  BY EgressAssumption
<1>3. QED
  BY <1>1, <1>2 DEF Init, TypeOK, Calls, Caches

(* The end of a probe leaves a well-typed cache and result. *)
LEMMA FinishType ==
  ASSUME TypeOK, NEW g \in Procs, NEW reason \in ProbeReasons, NEW exit \in Exits,
         NEW hit \in BOOLEAN, Finish(g, reason, exit, hit), last' \in Exits
  PROVE  TypeOK'
<1>1. call[g] \in Calls
  BY DEF TypeOK, Calls
<1>2. cache' \in Caches
  BY <1>1 DEF Finish, Caches, Calls, TypeOK
<1>3. [call[g] EXCEPT !.stage = "done", !.ok = (reason = "none"), !.reason = reason,
                      !.exit = exit, !.probed = TRUE] \in Calls
  BY <1>1 DEF Calls, Stages
<1>4. call' \in [Procs -> Calls]
  BY <1>3 DEF Finish, TypeOK, Calls
<1>5. QED
  BY <1>2, <1>4 DEF Finish, TypeOK, Calls, Caches

(* Invalidating leaves the cache and the calls well typed. *)
LEMMA InvalidateType ==
  ASSUME TypeOK, InvalidateLocked
  PROVE  /\ cache' \in Caches /\ last' \in Exits /\ probed' \in BOOLEAN
         /\ call' \in [Procs -> Calls]
<1>1. \A p \in Procs : [call[p] EXCEPT !.overtaken = @ \/ call[p].stage \in {"request", "dnsbl"}] \in Calls
  BY DEF TypeOK, Calls
<1>2. QED
  BY <1>1, NoValues DEF InvalidateLocked

(* Every step keeps the types. *)
LEMMA TypeStep == TypeOK /\ [Next]_evars => TypeOK'
<1> SUFFICES ASSUME TypeOK, [Next]_evars PROVE TypeOK'
  OBVIOUS
<1>1. ASSUME NEW g \in Procs, EvalCached(g) PROVE TypeOK'
  <2>1. [NoCall EXCEPT !.stage = "done", !.ok = cache.verdict, !.reason = cache.reason,
                       !.exit = last] \in Calls
    BY NoValues DEF TypeOK, Calls, Stages
  <2>2. call' \in [Procs -> Calls]
    BY <1>1, <2>1 DEF EvalCached, TypeOK, Calls
  <2>3. QED
    BY <1>1, <2>2 DEF EvalCached, TypeOK, Calls
<1>2. ASSUME NEW g \in Procs, NEW fresh \in BOOLEAN, EvalStart(g, fresh) PROVE TypeOK'
  <2>1. [NoCall EXCEPT !.stage = "request", !.start = now] \in Calls
    BY NoValues DEF TypeOK, Calls, Stages
  <2>2. call' \in [Procs -> Calls]
    BY <1>2, <2>1 DEF EvalStart, TypeOK, Calls
  <2>3. QED
    BY <1>2, <2>2 DEF EvalStart, TypeOK, Calls
<1>3. ASSUME NEW g \in Procs, ProbeFails(g) PROVE TypeOK'
  BY <1>3, FinishType DEF ProbeFails, TypeOK, ProbeReasons
<1>4. ASSUME NEW g \in Procs, NEW exit \in Exits, ProbeAnswered(g, exit) PROVE TypeOK'
  <2>1. CASE NeedsDNSBL(conf, exit)
    <3>1. call' \in [Procs -> Calls]
      BY <1>4, <2>1 DEF ProbeAnswered, TypeOK, Calls, Stages
    <3>2. QED
      BY <1>4, <2>1, <3>1 DEF ProbeAnswered, TypeOK, Calls
  <2>2. CASE ~NeedsDNSBL(conf, exit)
    BY <1>4, <2>2, FinishType, JudgeType DEF ProbeAnswered
  <2>3. QED
    BY <2>1, <2>2
<1>5. ASSUME NEW g \in Procs, NEW answers, ProbeDNSBL(g, answers) PROVE TypeOK'
  <2>1. last' \in Exits /\ last \in Exits
    BY <1>5 DEF ProbeDNSBL, TypeOK
  <2>2. (IF Blacklisted(answers) THEN "listed" ELSE "none") \in ProbeReasons
    BY DEF ProbeReasons
  <2>3. (\E z \in DOMAIN answers : \E a \in answers[z] : InListedRange(a)) \in BOOLEAN
    OBVIOUS
  <2>4. QED
    BY <1>5, <2>1, <2>2, <2>3, FinishType DEF ProbeDNSBL
<1>6. ASSUME NEW g \in Procs, Return(g) PROVE TypeOK'
  <2>1. call' \in [Procs -> Calls]
    BY <1>6, NoValues DEF Return, TypeOK, Calls
  <2>2. QED
    BY <1>6, <2>1 DEF Return, TypeOK, Calls
<1>7. ASSUME NEW g \in Procs, Invalidate(g) PROVE TypeOK'
  BY <1>7, InvalidateType DEF Invalidate, TypeOK, Calls, Caches
<1>8. ASSUME NEW g \in Procs, NEW c \in Configs, Apply(g, c) PROVE TypeOK'
  BY <1>8, InvalidateType DEF Apply, TypeOK, Calls, Caches
<1>9. CASE Tick
  BY <1>9, EgressAssumption DEF Tick, TypeOK
<1>10. CASE UNCHANGED evars
  BY <1>10 DEF evars, TypeOK
<1>11. QED
  BY <1>1, <1>2, <1>3, <1>4, <1>5, <1>6, <1>7, <1>8, <1>9, <1>10 DEF Next, Evaluate

(* The checker's fields, and what its callers get, always have their types. *)
THEOREM TypeCorrect == Spec => []TypeOK
BY TypeInit, TypeStep, PTL DEF Spec

-----------------------------------------------------------------------------
(* What holds while a probe is in flight, and of the cached verdict.       *)

InFlight(g) == call[g].stage \in {"request", "dnsbl"}

(* A probe in flight holds the mutex, so no invalidation overtakes it; it  *)
(* began in the past; and by the time the DNSBL is asked, the exit has     *)
(* passed all other checks.                                                *)
FlightInv ==
  \A g \in Procs : InFlight(g) =>
    /\ mu = g
    /\ ~call[g].overtaken
    /\ call[g].start <= now
    /\ call[g].stage = "dnsbl" => Judge(conf, last) = "none"

(* A cached verdict is dated no later than it was reached. *)
DatedBack == cache.set => cache.ts <= cache.obsAt

EInv ==
  /\ FlightInv
  /\ DatedBack
  /\ VerdictMatchesExpectations
  /\ ProofPostdatesInvalidation

(* The invariant holds at the start, *)
LEMMA EInvInit == Init => EInv
BY DEF Init, EInv, FlightInv, InFlight, DatedBack, VerdictMatchesExpectations,
       ProofPostdatesInvalidation, NoCall, NoCache

(* The end of a probe: g was the only one in flight, and its verdict is OK *)
(* only if the exit it leaves is proof and nothing was listed.             *)
LEMMA FinishInv ==
  ASSUME TypeOK, EInv, NEW g \in Procs, InFlight(g), NEW reason, NEW exit, NEW hit,
         Finish(g, reason, exit, hit),
         reason = "none" => Proves(conf, last') /\ ~hit
  PROVE  EInv'
<1>1. mu = g /\ ~call[g].overtaken /\ call[g].start <= now
  BY DEF EInv, FlightInv
<1>2. \A p \in Procs : ~InFlight(p)'
  <2> SUFFICES ASSUME NEW p \in Procs PROVE ~InFlight(p)'
    OBVIOUS
  <2>1. CASE p = g
    BY <2>1 DEF Finish, InFlight, TypeOK
  <2>2. CASE p # g
    BY <1>1, <2>2 DEF Finish, InFlight, TypeOK, EInv, FlightInv
  <2>3. QED
    BY <2>1, <2>2
<1>3. /\ cache'.set /\ cache'.verdict = (reason = "none") /\ cache'.ts = call[g].start
      /\ cache'.obsAt = now /\ cache'.hit = hit /\ cache'.stale = call[g].overtaken
      /\ conf' = conf
  BY DEF Finish
<1>4. FlightInv'
  BY <1>2 DEF FlightInv
<1>5. DatedBack' /\ ProofPostdatesInvalidation'
  BY <1>1, <1>3 DEF DatedBack, ProofPostdatesInvalidation
<1>6. VerdictMatchesExpectations'
  BY <1>3 DEF VerdictMatchesExpectations, Proves
<1>7. QED
  BY <1>4, <1>5, <1>6 DEF EInv

(* Nothing is in flight when an invalidation has the mutex, so it leaves   *)
(* neither a verdict nor a probe that could still cache one.               *)
LEMMA InvalidateInv ==
  ASSUME TypeOK, EInv, mu = NoProc, InvalidateLocked
  PROVE  EInv'
<1>1. \A p \in Procs : ~InFlight(p)
  BY EgressAssumption DEF EInv, FlightInv
<1>2. \A p \in Procs : ~InFlight(p)'
  BY <1>1 DEF InvalidateLocked, InFlight, TypeOK
<1>3. ~cache'.set
  BY DEF InvalidateLocked, NoCache
<1>4. QED
  BY <1>2, <1>3 DEF EInv, FlightInv, DatedBack, VerdictMatchesExpectations,
                    ProofPostdatesInvalidation

(* every step of every goroutine keeps it, *)
LEMMA EInvStep == TypeOK /\ EInv /\ [Next]_evars => EInv'
<1> SUFFICES ASSUME TypeOK, EInv, [Next]_evars PROVE EInv'
  OBVIOUS
<1>1. ASSUME NEW g \in Procs, EvalCached(g) PROVE EInv'
  <2>1. \A p \in Procs : InFlight(p)' => p # g /\ InFlight(p) /\ call'[p] = call[p]
    BY <1>1 DEF EvalCached, InFlight, TypeOK
  <2>2. FlightInv'
    BY <1>1, <2>1 DEF EvalCached, EInv, FlightInv
  <2>3. QED
    BY <1>1, <2>2 DEF EvalCached, EInv, DatedBack, VerdictMatchesExpectations, Proves,
                      ProofPostdatesInvalidation
<1>2. ASSUME NEW g \in Procs, NEW fresh \in BOOLEAN, EvalStart(g, fresh) PROVE EInv'
  <2>1. \A p \in Procs : ~InFlight(p)
    BY <1>2, EgressAssumption DEF EvalStart, EInv, FlightInv
  <2>2. \A p \in Procs : p # g => ~InFlight(p)'
    BY <1>2, <2>1 DEF EvalStart, InFlight, TypeOK
  <2>3. /\ mu' = g /\ call'[g].stage = "request" /\ call'[g].start = now
        /\ ~call'[g].overtaken /\ now' = now
    BY <1>2 DEF EvalStart, TypeOK, NoCall
  <2>4. FlightInv'
    BY <2>2, <2>3 DEF FlightInv, TypeOK
  <2>5. mu' # NoProc
    BY <2>3, EgressAssumption
  <2>6. QED
    BY <1>2, <2>4, <2>5 DEF EvalStart, EInv, DatedBack, VerdictMatchesExpectations,
                            ProofPostdatesInvalidation
<1>3. ASSUME NEW g \in Procs, ProbeFails(g) PROVE EInv'
  BY <1>3, FinishInv DEF ProbeFails, InFlight
<1>4. ASSUME NEW g \in Procs, NEW exit \in Exits, ProbeAnswered(g, exit) PROVE EInv'
  <2>1. CASE NeedsDNSBL(conf, exit)
    <3>1. \A p \in Procs : InFlight(p) => p = g
      BY <1>4 DEF ProbeAnswered, EInv, FlightInv
    <3>2. \A p \in Procs : InFlight(p)' => p = g
      BY <1>4, <2>1, <3>1 DEF ProbeAnswered, InFlight, TypeOK
    <3>3. /\ call'[g].overtaken = call[g].overtaken /\ call'[g].start = call[g].start
          /\ mu' = g /\ mu = g /\ InFlight(g) /\ UNCHANGED <<conf, cache, now>> /\ last' = exit
      BY <1>4, <2>1 DEF ProbeAnswered, InFlight, TypeOK
    <3>4. Judge(conf, last)' = "none"
      BY <2>1, <3>3 DEF NeedsDNSBL, Judge
    <3>5. FlightInv'
      BY <3>2, <3>3, <3>4 DEF EInv, FlightInv
    <3>6. mu' # NoProc
      BY <3>3, EgressAssumption
    <3>7. QED
      BY <3>3, <3>5, <3>6 DEF EInv, DatedBack, VerdictMatchesExpectations,
                              ProofPostdatesInvalidation
  <2>2. CASE ~NeedsDNSBL(conf, exit)
    BY <1>4, <2>2, FinishInv, JudgeProves DEF ProbeAnswered, InFlight
  <2>3. QED
    BY <2>1, <2>2
<1>5. ASSUME NEW g \in Procs, NEW answers \in [conf.zones -> Lookups],
             ProbeDNSBL(g, answers)
      PROVE  EInv'
  <2>1. InFlight(g) /\ Judge(conf, last) = "none" /\ last' = last
    BY <1>5 DEF ProbeDNSBL, InFlight, EInv, FlightInv
  <2>2. Proves(conf, last')
    BY <2>1, JudgeProves
  <2>3. \A z \in DOMAIN answers : \A a \in answers[z] : a \in Octet \X Octet \X Octet
    BY EgressAssumption
  <2>4. ~Blacklisted(answers) =>
          ~\E z \in DOMAIN answers : \E a \in answers[z] : InListedRange(a)
    BY <2>3, ListedAnswerIsRange DEF Blacklisted
  <2>5. QED
    BY <1>5, <2>1, <2>2, <2>4, FinishInv DEF ProbeDNSBL
<1>6. ASSUME NEW g \in Procs, Return(g) PROVE EInv'
  <2>1. \A p \in Procs : InFlight(p)' => p # g /\ InFlight(p) /\ call'[p] = call[p]
    BY <1>6 DEF Return, InFlight, TypeOK, NoCall
  <2>2. FlightInv'
    BY <1>6, <2>1 DEF Return, EInv, FlightInv
  <2>3. QED
    BY <1>6, <2>2 DEF Return, EInv, DatedBack, VerdictMatchesExpectations, Proves,
                      ProofPostdatesInvalidation
<1>7. ASSUME NEW g \in Procs, Invalidate(g) PROVE EInv'
  BY <1>7, InvalidateInv DEF Invalidate
<1>8. ASSUME NEW g \in Procs, NEW c \in Configs, Apply(g, c) PROVE EInv'
  BY <1>8, InvalidateInv DEF Apply
<1>9. CASE Tick
  <2>1. FlightInv'
    BY <1>9 DEF Tick, EInv, FlightInv, InFlight, TypeOK
  <2>2. QED
    BY <1>9, <2>1 DEF Tick, EInv, DatedBack, VerdictMatchesExpectations, Proves,
                      ProofPostdatesInvalidation
<1>10. CASE UNCHANGED evars
  BY <1>10 DEF evars, EInv, FlightInv, InFlight, DatedBack, VerdictMatchesExpectations,
               Proves, ProofPostdatesInvalidation
<1>11. QED
  BY <1>1, <1>2, <1>3, <1>4, <1>5, <1>6, <1>7, <1>8, <1>9, <1>10 DEF Next, Evaluate

(* and so it holds throughout. *)
LEMMA EInvCorrect == Spec => []EInv
BY TypeCorrect, EInvInit, EInvStep, PTL DEF Spec

(* No cached OK that the exit shown beside it, the configuration in force  *)
(* or a DNSBL answer contradicts, whatever reloads and probes interleave.  *)
THEOREM VerdictCorrect == Spec => []VerdictMatchesExpectations
BY EInvCorrect, PTL DEF EInv

(* No probe that was in flight at an invalidation caches its verdict. *)
THEOREM InvalidationCorrect == Spec => []ProofPostdatesInvalidation
BY EInvCorrect, PTL DEF EInv

(* Whatever step is taken, only a cache hit takes a call from idle to its  *)
(* result, and only a cache hit or the end of a probe produces one.        *)
LEMMA ResultComesFrom ==
  ASSUME TypeOK, Next, NEW g \in Procs, call[g].stage # "done", call'[g].stage = "done"
  PROVE  \/ EvalCached(g)
         \/ InFlight(g) /\ (\/ ProbeFails(g)
                            \/ \E exit \in Exits : ProbeAnswered(g, exit)
                            \/ \E answers \in [conf.zones -> Lookups] : ProbeDNSBL(g, answers))
<1>1. ASSUME NEW p \in Procs, NEW reason, NEW exit, NEW hit, Finish(p, reason, exit, hit)
      PROVE  p = g
  BY <1>1 DEF Finish, TypeOK
<1>2. ASSUME NEW p \in Procs, EvalCached(p) PROVE p = g
  BY <1>2 DEF EvalCached, TypeOK
<1>3. ASSUME NEW p \in Procs, NEW fresh, EvalStart(p, fresh) PROVE FALSE
  BY <1>3 DEF EvalStart, TypeOK, NoCall
<1>4. ASSUME NEW p \in Procs, ProbeFails(p) PROVE p = g /\ InFlight(g)
  BY <1>1, <1>4 DEF ProbeFails, InFlight
<1>5. ASSUME NEW p \in Procs, NEW exit, ProbeAnswered(p, exit) PROVE p = g /\ InFlight(g)
  <2>1. CASE NeedsDNSBL(conf, exit)
    BY <1>5, <2>1 DEF ProbeAnswered, TypeOK
  <2>2. CASE ~NeedsDNSBL(conf, exit)
    BY <1>1, <1>5, <2>2 DEF ProbeAnswered, InFlight
  <2>3. QED
    BY <2>1, <2>2
<1>6. ASSUME NEW p \in Procs, NEW answers, ProbeDNSBL(p, answers) PROVE p = g /\ InFlight(g)
  BY <1>1, <1>6 DEF ProbeDNSBL, InFlight
<1>7. ASSUME NEW p \in Procs, Return(p) PROVE FALSE
  BY <1>7 DEF Return, TypeOK, NoCall
<1>8. ASSUME InvalidateLocked PROVE FALSE
  BY <1>8 DEF InvalidateLocked, TypeOK
<1>9. QED
  BY <1>2, <1>3, <1>4, <1>5, <1>6, <1>7, <1>8 DEF Next, Evaluate, Invalidate, Apply, Tick

(* A verdict from the cache rests on an observation less than TTL old. *)
THEOREM TTLCorrect == Spec => CachedVerdictWithinTTL
<1>1. TypeOK /\ EInv /\ [Next]_evars =>
        [\A g \in Procs : (call[g].stage = "idle" /\ call'[g].stage = "done")
           => now - cache.obsAt < conf.ttl]_evars
  <2> SUFFICES ASSUME TypeOK, EInv, Next, NEW g \in Procs,
                      call[g].stage = "idle", call'[g].stage = "done"
               PROVE  now - cache.obsAt < conf.ttl
    BY DEF evars
  <2>1. EvalCached(g)
    BY ResultComesFrom DEF InFlight
  <2>2. cache.set /\ now - cache.ts < conf.ttl /\ cache.ts <= cache.obsAt
    BY <2>1 DEF EvalCached, CacheHit, EInv, DatedBack
  <2>3. conf.ttl \in Nat /\ now \in Nat /\ cache.ts \in Nat /\ cache.obsAt \in Nat
    BY EgressAssumption DEF TypeOK
  <2>4. QED
    BY <2>2, <2>3
<1>2. QED
  BY <1>1, TypeCorrect, EInvCorrect, PTL DEF Spec, CachedVerdictWithinTTL

(* A caller told OK gets, in the same result, an exit that proves it,      *)
(* whether the verdict is cached, just probed or past the DNSBL.           *)
THEOREM CoherenceCorrect == Spec => ResultIsCoherent
<1>1. TypeOK /\ EInv /\ [Next]_evars =>
        [\A g \in Procs : (call[g].stage # "done" /\ call'[g].stage = "done" /\ call'[g].ok)
           => Proves(conf, call'[g].exit)]_evars
  <2> SUFFICES ASSUME TypeOK, EInv, Next, NEW g \in Procs,
                      call[g].stage # "done", call'[g].stage = "done", call'[g].ok
               PROVE  Proves(conf, call'[g].exit)
    BY DEF evars
  <2>1. ASSUME NEW reason, NEW exit, NEW hit, Finish(g, reason, exit, hit)
        PROVE  reason = "none" /\ call'[g].exit = exit
    BY <2>1 DEF Finish, TypeOK
  <2>2. CASE EvalCached(g)
    <3>1. call'[g].ok = cache.verdict /\ call'[g].exit = last
      BY <2>2 DEF EvalCached, TypeOK, NoCall
    <3>2. QED
      BY <2>2, <3>1 DEF EvalCached, CacheHit, EInv, VerdictMatchesExpectations
  <2>3. CASE ProbeFails(g)
    BY <2>1, <2>3 DEF ProbeFails
  <2>4. ASSUME NEW exit \in Exits, ProbeAnswered(g, exit)
        PROVE  Proves(conf, call'[g].exit)
    <3>1. CASE NeedsDNSBL(conf, exit)
      BY <2>4, <3>1 DEF ProbeAnswered, TypeOK
    <3>2. CASE ~NeedsDNSBL(conf, exit)
      BY <2>1, <2>4, <3>2, JudgeProves DEF ProbeAnswered
    <3>3. QED
      BY <3>1, <3>2
  <2>5. ASSUME NEW answers, ProbeDNSBL(g, answers) PROVE Proves(conf, call'[g].exit)
    <3>1. Proves(conf, last)
      BY <2>5, JudgeProves DEF ProbeDNSBL, EInv, FlightInv, InFlight
    <3>2. call'[g].exit = last
      BY <2>1, <2>5 DEF ProbeDNSBL
    <3>3. QED
      BY <3>1, <3>2
  <2>6. QED
    BY <2>2, <2>3, <2>4, <2>5, ResultComesFrom
<1>2. QED
  BY <1>1, TypeCorrect, EInvCorrect, PTL DEF Spec, ResultIsCoherent
=============================================================================
