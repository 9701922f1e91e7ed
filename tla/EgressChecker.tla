---------------------------- MODULE EgressChecker ----------------------------
(***************************************************************************)
(* The egress checker of internal/app/egress.go: one mutex, a cached       *)
(* verdict with a TTL, and the last observed exit, shared by the watchdog  *)
(* goroutine and by the agent's handler goroutines (Procs).                *)
(*                                                                         *)
(* evaluate() holds the mutex across its network calls, so it is a         *)
(* sequence of steps during which mu = g; everything else done under the   *)
(* mutex is one step.  e.now() carries Go's monotonic clock: now never     *)
(* goes back.                                                              *)
(***************************************************************************)
EXTENDS Integers, FiniteSets

CONSTANTS
  Procs, NoProc,     \* goroutines that use the checker
  Configs,           \* records with at least country, ip, ttl and zones
  Countries, IPs,    \* what the probe's two patterns can extract
  V4,                \* the members of IPs that parse as IPv4
  None,              \* the empty string: nothing extracted, or no expected_ip
  Lookups,           \* what one DNSBL query can answer: sets of addresses,
                     \* {} also standing for a lookup error
  MaxTime            \* bound on the clock

(* An address is the triple of its first three octets; the fourth is never *)
(* looked at.                                                              *)
Octet == 0..255
ASSUME EgressAssumption ==
  /\ NoProc \notin Procs
  /\ None \notin Countries \cup IPs
  /\ V4 \subseteq IPs
  /\ Lookups \subseteq SUBSET (Octet \X Octet \X Octet)
  /\ MaxTime \in Nat
  /\ \A c \in Configs : /\ c.country \in Countries \cup {None}
                        /\ c.ip \in IPs \cup {None}
                        /\ c.ttl \in Nat

VARIABLES
  mu,       \* the holder of e.mu, or NoProc
  conf,     \* the configuration last applied
  cache,    \* verdict, reason, ts, set; and the history fields obsAt (when
            \* the cached verdict was reached), hit (a DNSBL answer counted
            \* against it) and stale (an invalidation overtook its probe)
  last,     \* LastCountry, LastIP
  probed,   \* Probed
  call,     \* per goroutine: the evaluate() call in progress and its result
  now       \* the clock

evars == <<mu, conf, cache, last, probed, call, now>>

Exits == [country: Countries \cup {None}, ip: IPs \cup {None}]
NoExit == [country |-> None, ip |-> None]
(* "none" stands for the empty string: no reason, the verdict is OK. *)
ProbeReasons == {"none", "request", "no_country", "country", "ip", "no_ip", "listed"}
Stages == {"idle", "request", "dnsbl", "done"}

NoCache == [set |-> FALSE, verdict |-> FALSE, reason |-> "none", ts |-> 0,
            obsAt |-> 0, hit |-> FALSE, stale |-> FALSE]
(* overtaken is history: an invalidation happened while the probe was in   *)
(* flight.                                                                 *)
NoCall == [stage |-> "idle", start |-> 0, ok |-> FALSE, reason |-> "none",
           exit |-> NoExit, probed |-> FALSE, overtaken |-> FALSE]

TypeOK ==
  /\ mu \in Procs \cup {NoProc}
  /\ conf \in Configs
  /\ cache \in [set: BOOLEAN, verdict: BOOLEAN, reason: ProbeReasons, ts: 0..MaxTime,
                obsAt: 0..MaxTime, hit: BOOLEAN, stale: BOOLEAN]
  /\ last \in Exits
  /\ probed \in BOOLEAN
  /\ call \in [Procs -> [stage: Stages, start: 0..MaxTime, ok: BOOLEAN,
                         reason: ProbeReasons, exit: Exits, probed: BOOLEAN,
                         overtaken: BOOLEAN]]
  /\ now \in 0..MaxTime

-----------------------------------------------------------------------------
(* The pure part.                                                          *)

(* Mutant: the negation of the conjunction gone wrong. *)
ListedAnswerNarrow(a) == a[1] = 127 /\ a[2] # 255 /\ a[3] # 255
ListedAnswer(a) == a[1] = 127 /\ ~(a[2] = 255 /\ a[3] = 255)

(* A hit in any zone: a lookup that fails, or answers nothing listed, is   *)
(* passed over.                                                            *)
Blacklisted(answers) == \E z \in DOMAIN answers : \E a \in answers[z] : ListedAnswer(a)

(* probe()'s checks of an answered request up to the DNSBL, in order. *)
Judge(c, exit) ==
  IF exit.country = None THEN "no_country"
  ELSE IF exit.country # c.country THEN "country"
  ELSE IF c.ip # None /\ exit.ip # c.ip THEN "ip"
  ELSE IF c.zones # {} /\ exit.ip = None THEN "no_ip"
  ELSE "none"

(* blacklisted() queries the zones for an IPv4 exit only. *)
NeedsDNSBL(c, exit) == Judge(c, exit) = "none" /\ c.zones # {} /\ exit.ip \in V4

-----------------------------------------------------------------------------
(* evaluate(ctx, fresh)                                                    *)

CacheHit(fresh) == ~fresh /\ cache.set /\ now - cache.ts < conf.ttl

(* Mutant: a hit renews the cache entry. *)
EvalCachedSliding(g) ==
  /\ mu = NoProc
  /\ call[g].stage = "idle"
  /\ CacheHit(FALSE)
  /\ probed' = FALSE
  /\ cache' = [cache EXCEPT !.ts = now]
  /\ call' = [call EXCEPT ![g] = [NoCall EXCEPT !.stage = "done", !.ok = cache.verdict,
                                   !.reason = cache.reason, !.exit = last]]
  /\ UNCHANGED <<mu, conf, last, now>>
(* The cached verdict is still valid. *)
EvalCached(g) ==
  /\ mu = NoProc
  /\ call[g].stage = "idle"
  /\ CacheHit(FALSE)
  /\ probed' = FALSE
  /\ call' = [call EXCEPT ![g] = [NoCall EXCEPT !.stage = "done", !.ok = cache.verdict,
                                   !.reason = cache.reason, !.exit = last]]
  /\ UNCHANGED <<mu, conf, cache, last, now>>

(* It is not, or a fresh one is wanted: the probe request goes out. *)
EvalStart(g, fresh) ==
  /\ mu = NoProc
  /\ call[g].stage = "idle"
  /\ ~CacheHit(fresh)
  /\ mu' = g
  /\ call' = [call EXCEPT ![g] = [NoCall EXCEPT !.stage = "request", !.start = now]]
  /\ UNCHANGED <<conf, cache, last, probed, now>>

(* The end of evaluate(): the verdict is cached as of the call's start,    *)
(* the result carries what last holds by then, and the mutex is released.  *)
Finish(g, reason, exit, hit) ==
  /\ cache' = [set |-> TRUE, verdict |-> (reason = "none"), reason |-> reason,
               ts |-> call[g].start, obsAt |-> now, hit |-> hit,
               stale |-> call[g].overtaken]
  /\ probed' = TRUE
  /\ mu' = NoProc
  /\ call' = [call EXCEPT ![g] = [@ EXCEPT !.stage = "done", !.ok = (reason = "none"),
                                   !.reason = reason, !.exit = exit, !.probed = TRUE]]
  /\ UNCHANGED <<conf, now>>

(* The request cannot be built or fails, times out, is not answered with   *)
(* status 200, or its body cannot be read: probe() returns before it has   *)
(* recorded an observation.                                                *)
ProbeFails(g) ==
  /\ mu = g
  /\ call[g].stage = "request"
  /\ last' = last
  /\ Finish(g, "request", last, FALSE)

(* A body was read: its observation is recorded before any verdict.        *)
ProbeAnswered(g, exit) ==
  /\ mu = g
  /\ call[g].stage = "request"
  /\ last' = exit
  /\ IF NeedsDNSBL(conf, exit)
     THEN /\ call' = [call EXCEPT ![g].stage = "dnsbl"]
          /\ UNCHANGED <<mu, conf, cache, probed, now>>
     ELSE Finish(g, Judge(conf, exit), exit, FALSE)

(* An address of 127.0.0.0/8 outside 127.255.255.0/24, by its number; only *)
(* the history field hit is computed with it.                              *)
InListedRange(a) ==
  LET n == (a[1] * 256 + a[2]) * 256 + a[3]
  IN  n >= 127 * 65536 /\ n < 127 * 65536 + 65535

(* All the zones have answered, or have failed to. *)
ProbeDNSBL(g, answers) ==
  /\ mu = g
  /\ call[g].stage = "dnsbl"
  /\ last' = last
  /\ Finish(g, IF Blacklisted(answers) THEN "listed" ELSE "none", last,
            \E z \in DOMAIN answers : \E a \in answers[z] : InListedRange(a))

(* The caller has taken its result. *)
Return(g) ==
  /\ call[g].stage = "done"
  /\ call' = [call EXCEPT ![g] = NoCall]
  /\ UNCHANGED <<mu, conf, cache, last, probed, now>>

-----------------------------------------------------------------------------
InvalidateLocked ==
  /\ cache' = NoCache
  /\ last' = NoExit
  /\ probed' = FALSE
  /\ call' = [p \in Procs |->
               [call[p] EXCEPT !.overtaken = @ \/ call[p].stage \in {"request", "dnsbl"}]]

(* Mutant: without the mutex. *)
InvalidateUnlocked(g) ==
  /\ call[g].stage = "idle"
  /\ InvalidateLocked
  /\ UNCHANGED <<mu, conf, now>>
Invalidate(g) ==
  /\ mu = NoProc
  /\ call[g].stage = "idle"
  /\ InvalidateLocked
  /\ UNCHANGED <<mu, conf, now>>

(* Mutant: expected_country not swapped. *)
ApplyForgetsCountry(g, c) ==
  /\ mu = NoProc
  /\ call[g].stage = "idle"
  /\ conf' = [c EXCEPT !.country = conf.country]
  /\ InvalidateLocked
  /\ UNCHANGED <<mu, now>>
(* Mutant: without the invalidation. *)
ApplyKeepsVerdict(g, c) ==
  /\ mu = NoProc
  /\ call[g].stage = "idle"
  /\ conf' = c
  /\ UNCHANGED <<mu, cache, last, probed, call, now>>
(* Apply of a configuration that passed Validate, which leaves none of     *)
(* Apply's error returns reachable.                                        *)
Apply(g, c) ==
  /\ mu = NoProc
  /\ call[g].stage = "idle"
  /\ conf' = c
  /\ InvalidateLocked
  /\ UNCHANGED <<mu, now>>

Tick ==
  /\ now < MaxTime
  /\ now' = now + 1
  /\ UNCHANGED <<mu, conf, cache, last, probed, call>>

-----------------------------------------------------------------------------
Init ==
  /\ mu = NoProc
  /\ conf \in Configs
  /\ cache = NoCache
  /\ last = NoExit
  /\ probed = FALSE
  /\ call = [g \in Procs |-> NoCall]
  /\ now = 0

Evaluate(g) ==
  \/ EvalCached(g)
  \/ \E fresh \in BOOLEAN : EvalStart(g, fresh)
  \/ ProbeFails(g)
  \/ \E exit \in Exits : ProbeAnswered(g, exit)
  \/ \E answers \in [conf.zones -> Lookups] : ProbeDNSBL(g, answers)
  \/ Return(g)

Next ==
  \/ \E g \in Procs : Evaluate(g) \/ Invalidate(g) \/ \E c \in Configs : Apply(g, c)
  \/ Tick

Spec == Init /\ [][Next]_evars

-----------------------------------------------------------------------------
(* What an exit must satisfy to be proof under configuration c. *)
Proves(c, exit) ==
  /\ exit.country = c.country
  /\ exit.country # None
  /\ c.ip # None => exit.ip = c.ip
  /\ c.zones # {} => exit.ip # None

(* Whenever nobody holds the mutex, a cached positive verdict is backed by *)
(* the exit the checker shows beside it, under the configuration in force  *)
(* now, and no DNSBL answer in the listed range was seen for it: a reload  *)
(* or a failed probe never leaves an OK that the observation contradicts.  *)
VerdictMatchesExpectations ==
  mu = NoProc /\ cache.set /\ cache.verdict => Proves(conf, last) /\ ~cache.hit

(* "Invalidate discards proof tied to the current tunnel session": a probe *)
(* that was in flight when the tunnel died, or when the configuration      *)
(* changed, does not put its verdict into the cache afterwards.            *)
ProofPostdatesInvalidation == cache.set => ~cache.stale

(* "Verdicts are cached for TTL": an answer given from the cache rests on  *)
(* an observation less than TTL old, however often it is asked for.        *)
CachedVerdictWithinTTL ==
  [][\A g \in Procs :
       (call[g].stage = "idle" /\ call'[g].stage = "done")
         => now - cache.obsAt < conf.ttl]_evars

(* A result is coherent: a caller that is told OK gets, in the same        *)
(* result, an exit that proves it under the configuration in force.        *)
ResultIsCoherent ==
  [][\A g \in Procs :
       (call[g].stage # "done" /\ call'[g].stage = "done" /\ call'[g].ok)
         => Proves(conf, call'[g].exit)]_evars
=============================================================================
