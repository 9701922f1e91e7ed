---------------------------- MODULE TunnelChecker ----------------------------
(***************************************************************************)
(* The tunnel checker of internal/app/tunnel.go: Check pings (optionally), *)
(* runs `wg show <iface> dump`, takes the freshest peer handshake from it  *)
(* and compares its age, in whole seconds of the wall clock, with          *)
(* max_handshake_age.  Check and Apply exclude each other by a mutex.      *)
(*                                                                         *)
(* Time passes in ticks, Rate of them to a second.  The kernel stamps a    *)
(* handshake with the wall clock, which Skews may set wrong.               *)
(***************************************************************************)
EXTENDS Integers, Sequences

CONSTANTS
  Procs, NoProc,   \* the goroutines that call Check and Apply
  Peers,           \* sequence of the interface's peers
  Configs,         \* records with maxAge, in ticks, and ping (is ping_target set)
  Rate,            \* ticks per second
  Skews,           \* by how much the wall clock may be off
  Junk,            \* malformed lines a dump may begin with
  Start, End       \* the first and the last tick

ASSUME TunnelAssumption ==
  /\ NoProc \notin Procs
  /\ Rate \in Nat \ {0}
  /\ 0 \in Skews
  /\ \A s \in Skews : s \in Int /\ Start + s >= Rate
  /\ \A c \in Configs : c.maxAge \in Nat \ {0} /\ c.ping \in BOOLEAN
  /\ Start \in Nat /\ End \in Nat /\ Start <= End
  /\ Len(Peers) \in Nat

VARIABLES
  tick,     \* true time
  skew,     \* the wall clock shows tick + skew
  exists,   \* the interface exists
  peer,     \* per peer: stamp, the latest handshake as the kernel reports it
            \* in seconds, 0 for none; and (history) at, when it really
            \* happened, and by, how wrong the wall clock was then
  tconf,    \* MaxAge and PingTarget
  tmu,      \* the holder of t.mu
  check,    \* the Check in progress: its stage and the dump it has read; and
            \* (history) the handshakes seen in it, and the configuration in
            \* force when it began
  verdict   \* what the latest Check returned

tvars == <<tick, skew, exists, peer, tconf, tmu, check, verdict>>

Never == [stamp |-> 0, at |-> 0, by |-> 0]

(* time.Now().Unix() *)
Unix == (tick + skew) \div Rate

Handshaken == [stamp |-> Unix, at |-> tick, by |-> skew]

-----------------------------------------------------------------------------
(* parseLatestHandshake: a line has a number of fields and, in field 4, a  *)
(* number or something ParseInt rejects.                                   *)
LineStamp(line) ==
  IF line.fields >= 5 /\ line.numeric THEN line.stamp ELSE 0

(* Mutant: the first handshake, not the latest. *)
ParseFirstPeer(dump) ==
  LET peers == {i \in 1..Len(dump) : LineStamp(dump[i]) # 0}
  IN  IF peers = {} THEN 0
      ELSE LineStamp(dump[CHOOSE i \in peers : \A j \in peers : i <= j])
ParseLatestHandshake(dump) ==
  LET latest[i \in 0..Len(dump)] ==
        IF i = 0 THEN 0
        ELSE IF LineStamp(dump[i]) > latest[i - 1] THEN LineStamp(dump[i])
        ELSE latest[i - 1]
  IN  latest[Len(dump)]

ASSUME JunkAssumption ==
  \A junk \in Junk :
    junk \in Seq([fields: Nat, numeric: BOOLEAN, stamp: Nat])
    /\ \A i \in 1..Len(junk) : LineStamp(junk[i]) = 0

InterfaceLine == [fields |-> 4, numeric |-> TRUE, stamp |-> 0]
PeerLine(i) == [fields |-> 8, numeric |-> TRUE, stamp |-> peer[i].stamp]

-----------------------------------------------------------------------------
(* Check, step by step.                                                    *)

Lock(g) ==
  /\ tmu = NoProc
  /\ tmu' = g
  /\ check' = [check EXCEPT !.stage = IF tconf.ping THEN "ping" ELSE "show",
                            !.used = tconf]
  /\ UNCHANGED <<tick, skew, exists, peer, tconf, verdict>>

(* One ping through the tunnel, which makes peer i handshake if it answers *)
(* and otherwise nothing; its outcome is ignored.                          *)
Ping(g, i) ==
  /\ tmu = g
  /\ check.stage = "ping"
  /\ check' = [check EXCEPT !.stage = "show"]
  /\ \/ UNCHANGED peer
     \/ exists /\ peer' = [peer EXCEPT ![i] = Handshaken]
  /\ UNCHANGED <<tick, skew, exists, tconf, tmu, verdict>>

(* `wg show` prints the interface, then its peers; or fails.               *)
Show(g, junk) ==
  /\ tmu = g
  /\ check.stage = "show"
  /\ exists
  /\ check' = [check EXCEPT !.stage = "judge",
                            !.dump = junk \o <<InterfaceLine>>
                                      \o [i \in 1..Len(Peers) |-> PeerLine(i)],
                            !.seen = {peer[i] : i \in 1..Len(Peers)} \ {Never}]
  /\ UNCHANGED <<tick, skew, exists, peer, tconf, tmu, verdict>>

(* The result, and the end of the call. *)
Verdict(ok, reason) ==
  /\ verdict' = [ok |-> ok, reason |-> reason]
  /\ tmu' = NoProc
  /\ check' = [check EXCEPT !.stage = "idle", !.dump = << >>, !.seen = {}]
  /\ UNCHANGED <<tick, skew, exists, peer, tconf>>

(* Mutant: an early return without the unlock. *)
ShowFailsLocked(g) ==
  /\ tmu = g
  /\ check.stage = "show"
  /\ verdict' = [ok |-> FALSE, reason |-> "wg show failed"]
  /\ check' = [check EXCEPT !.stage = "idle"]
  /\ UNCHANGED <<tick, skew, exists, peer, tconf, tmu>>
(* The interface is missing, or ctx was cancelled. *)
ShowFails(g) ==
  /\ tmu = g
  /\ check.stage = "show"
  /\ Verdict(FALSE, "wg show failed")

(* age > int64(t.MaxAge.Seconds()), with age in whole seconds *)
AgeExceeds(latest) == Unix - latest > tconf.maxAge \div Rate

(* What Check makes of the dump, if it reads the clock now. *)
Judgement ==
  LET latest == ParseLatestHandshake(check.dump)
  IN  IF latest = 0 THEN "no handshake" ELSE IF AgeExceeds(latest) THEN "old" ELSE "none"

JudgeDump(g) ==
  /\ tmu = g
  /\ check.stage = "judge"
  /\ Verdict(Judgement = "none", Judgement)

(* Mutant: without the mutex. *)
ApplyUnlocked(g, c) ==
  /\ tconf' = c
  /\ UNCHANGED <<tick, skew, exists, peer, tmu, check, verdict>>
Apply(g, c) ==
  /\ tmu = NoProc
  /\ tconf' = c
  /\ UNCHANGED <<tick, skew, exists, peer, tmu, check, verdict>>

-----------------------------------------------------------------------------
(* The kernel and the clock.                                               *)

Handshake(i) ==
  /\ exists
  /\ peer' = [peer EXCEPT ![i] = Handshaken]
  /\ UNCHANGED <<tick, skew, exists, tconf, tmu, check, verdict>>

(* wg-quick down, or up: a new interface has no handshakes. *)
Toggle ==
  /\ exists' = ~exists
  /\ peer' = [i \in 1..Len(Peers) |-> Never]
  /\ UNCHANGED <<tick, skew, tconf, tmu, check, verdict>>

Tick ==
  /\ tick < End
  /\ tick' = tick + 1
  /\ UNCHANGED <<skew, exists, peer, tconf, tmu, check, verdict>>

StepClock(s) ==
  /\ s # skew
  /\ skew' = s
  /\ UNCHANGED <<tick, exists, peer, tconf, tmu, check, verdict>>

-----------------------------------------------------------------------------
Init ==
  /\ tick = Start
  /\ skew = 0
  /\ exists \in BOOLEAN
  /\ peer = [i \in 1..Len(Peers) |-> Never]
  /\ tconf \in Configs
  /\ tmu = NoProc
  /\ check = [stage |-> "idle", dump |-> << >>, seen |-> {}, used |-> tconf]
  /\ verdict = [ok |-> FALSE, reason |-> "none"]

Next ==
  \/ \E g \in Procs : \/ Lock(g)
                      \/ \E i \in 1..Len(Peers) : Ping(g, i)
                      \/ \E junk \in Junk : Show(g, junk)
                      \/ ShowFails(g)
                      \/ JudgeDump(g)
                      \/ \E c \in Configs : Apply(g, c)
  \/ \E i \in 1..Len(Peers) : Handshake(i)
  \/ Toggle \/ Tick
  \/ \E s \in Skews : StepClock(s)

Spec == Init /\ [][Next]_tvars

-----------------------------------------------------------------------------
TypeOK ==
  /\ tick \in Start..End
  /\ skew \in Skews
  /\ exists \in BOOLEAN
  /\ peer \in [1..Len(Peers) -> [stamp: Nat, at: 0..End, by: Skews]]
  /\ tconf \in Configs
  /\ tmu \in Procs \cup {NoProc}
  /\ check.stage \in (IF tmu = NoProc THEN {"idle"} ELSE {"ping", "show", "judge"})
  /\ check.used \in Configs
  /\ verdict \in [ok: BOOLEAN, reason: {"none", "wg show failed", "no handshake", "old"}]

(* No handshake in the dump was stamped before the clock was last set.     *)
ClockKept == \A hs \in check.seen : hs.by = skew

(* Some handshake in the dump is less than max_handshake_age and a second  *)
(* old, by the configuration the call began under.                         *)
SomeRecent == \E hs \in check.seen : tick - hs.at < check.used.maxAge + Rate

(* Counting in whole seconds costs less than one second: at whatever       *)
(* moment a tunnel is judged alive, some peer's handshake in the dump is   *)
(* less than max_handshake_age plus one second old.                        *)
AliveIsRecent ==
  check.stage = "judge" /\ Judgement = "none" /\ ClockKept => SomeRecent

(* Nor is a tunnel given up early: when it is judged dead, all handshakes  *)
(* in the dump are older than max_handshake_age less one second.           *)
DeadIsOld ==
  check.stage = "judge" /\ Judgement # "none" /\ ClockKept =>
    \A hs \in check.seen : tick - hs.at > check.used.maxAge - Rate
=============================================================================
