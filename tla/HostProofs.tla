----------------------------- MODULE HostProofs -----------------------------
(***************************************************************************)
(* Proofs about the two components that deal with the host: the tunnel     *)
(* checker, which reads the kernel's handshakes through `wg show`, and     *)
(* the killer, which reads and signals the process table.  They share      *)
(* nothing: two specifications, proved one after the other.                *)
(***************************************************************************)
EXTENDS TunnelChecker, Killer, TLAPS, WellFoundedInduction, SequenceTheorems

(* A set of naturals has a least member.  A claim about 0, 1, 2, ... is    *)
(* proved below of the least number in the set of its counterexamples.     *)
LEMMA LeastNat ==
  ASSUME NEW B \in SUBSET Nat, B # {}
  PROVE  \E b \in B : \A k \in B : b <= k
<1>1. PICK b \in B : \A k \in B : ~(<<k, b>> \in OpToRel(<, Nat))
  BY WFMin, NatLessThanWellFounded
<1>2. \A k \in B : ~(k < b)
  BY <1>1 DEF OpToRel
<1>3. QED
  BY <1>2

(* m is the latest stamp in the first i lines, or 0. *)
IsLatest(m, dump, i) ==
  /\ m \in Nat
  /\ \A j \in 1..i : LineStamp(dump[j]) <= m
  /\ m = 0 \/ \E j \in 1..i : LineStamp(dump[j]) = m

(* What whole division keeps of a number. *)
LEMMA DivFacts ==
  ASSUME NEW a \in Nat, NEW R \in Nat \ {0}
  PROVE  /\ a \div R \in Nat
         /\ (a \div R) * R <= a
         /\ a < (a \div R) * R + R
BY SMT

(* Two times whose distance in whole seconds is compared with a whole      *)
(* number of seconds are apart by that much, give or take one second.      *)
LEMMA Apart ==
  ASSUME NEW a \in Nat, NEW b \in Nat, NEW m \in Nat, NEW R \in Nat \ {0}
  PROVE  /\ (a \div R) - (b \div R) <= m \div R => a - b < m + R
         /\ (a \div R) - (b \div R) > m \div R => a - b > m - R
<1>1. PICK x \in Nat, y \in Nat, z \in Nat : x = a \div R /\ y = b \div R /\ z = m \div R
  BY DivFacts
<1>2. x * R <= a /\ a < x * R + R /\ y * R <= b /\ b < y * R + R /\ z * R <= m /\ m < z * R + R
  BY <1>1, DivFacts
<1>3. ASSUME x - y <= z PROVE a - b < m + R
  <2>1. x <= y + z
    BY <1>3
  <2>2. x * R <= (y + z) * R
    BY <2>1, SMT
  <2>3. (y + z) * R = y * R + z * R
    BY SMT
  <2>4. PICK xr \in Nat, yr \in Nat, zr \in Nat : xr = x * R /\ yr = y * R /\ zr = z * R
    BY SMT
  <2>5. QED
    BY <1>2, <2>2, <2>3, <2>4
<1>4. ASSUME x - y > z PROVE a - b > m - R
  <2>1. x >= y + z + 1
    BY <1>4
  <2>2. x * R >= (y + z + 1) * R
    BY <2>1, SMT
  <2>3. (y + z + 1) * R = y * R + z * R + R
    BY SMT
  <2>4. PICK xr \in Nat, yr \in Nat, zr \in Nat : xr = x * R /\ yr = y * R /\ zr = z * R
    BY SMT
  <2>5. QED
    BY <1>2, <2>2, <2>3, <2>4
<1>5. QED
  BY <1>1, <1>3, <1>4

(* One round of the scanner's loop: the latest of i lines from that of     *)
(* i - 1.                                                                  *)
LEMMA LatestStep ==
  ASSUME NEW dump, NEW i \in Nat \ {0}, \A j \in 1..i : LineStamp(dump[j]) \in Nat,
         NEW m, IsLatest(m, dump, i - 1)
  PROVE  IsLatest(IF LineStamp(dump[i]) > m THEN LineStamp(dump[i]) ELSE m, dump, i)
<1>1. PICK s \in Nat : s = LineStamp(dump[i])
  BY i \in 1..i
<1>2. \A j \in 1..i : j = i \/ j \in 1..(i - 1)
  OBVIOUS
<1>3. QED
  BY <1>1, <1>2 DEF IsLatest

(* f is what the recursive definition in ParseLatestHandshake defines: the *)
(* latest of the first i lines, for each i.                                *)
Latests(dump, f) ==
  f = [i \in 0..Len(dump) |->
        IF i = 0 THEN 0
        ELSE IF LineStamp(dump[i]) > f[i - 1] THEN LineStamp(dump[i])
        ELSE f[i - 1]]

(* There is such a function ... *)
LEMMA LatestsExists ==
  ASSUME NEW dump, Len(dump) \in Nat, \A j \in 1..Len(dump) : LineStamp(dump[j]) \in Nat
  PROVE  \E f : Latests(dump, f)
<1>1. PICK n \in Nat : n = Len(dump)
  OBVIOUS
<1>2. \A i \in 0..n : \E m : IsLatest(m, dump, i)
  <2> SUFFICES ASSUME NEW B, B = {i \in 0..n : ~\E m : IsLatest(m, dump, i)}, B # {}
               PROVE  FALSE
    OBVIOUS
  <2>0. B \in SUBSET Nat
    OBVIOUS
  <2>1. PICK b \in B : \A k \in B : b <= k
    BY <2>0, LeastNat
  <2>2. b # 0
    <3>1. IsLatest(0, dump, 0)
      BY DEF IsLatest
    <3>2. QED
      BY <3>1
  <2>3. b \in Nat \ {0} /\ b - 1 \in 0..n /\ b - 1 \notin B
    <3>1. b \in 0..n
      OBVIOUS
    <3>2. QED
      BY <2>1, <2>2, <3>1
  <2>4. PICK m : IsLatest(m, dump, b - 1)
    BY <2>3
  <2>5. \A j \in 1..b : LineStamp(dump[j]) \in Nat
    BY <1>1
  <2>6. QED
    BY <2>3, <2>4, <2>5, LatestStep
<1>3. PICK f : f = [i \in 0..n |-> CHOOSE m : IsLatest(m, dump, i)]
  OBVIOUS
<1>4. \A i \in 0..n : IsLatest(f[i], dump, i)
  BY <1>2, <1>3
<1>5. ASSUME NEW i, NEW l, NEW m, IsLatest(l, dump, i), IsLatest(m, dump, i) PROVE l = m
  BY <1>5 DEF IsLatest
<1>6. ASSUME NEW i \in 0..n
      PROVE  f[i] = IF i = 0 THEN 0
                    ELSE IF LineStamp(dump[i]) > f[i - 1] THEN LineStamp(dump[i])
                    ELSE f[i - 1]
  <2>1. CASE i = 0
    BY <1>4, <2>1 DEF IsLatest
  <2>2. CASE i # 0
    <3>1. IsLatest(f[i - 1], dump, i - 1) /\ IsLatest(f[i], dump, i)
      BY <1>1, <1>4, <2>2
    <3>2. \A j \in 1..i : LineStamp(dump[j]) \in Nat
      BY <1>1
    <3>3. QED
      BY <1>5, <2>2, <3>1, <3>2, LatestStep
  <2>3. QED
    BY <2>1, <2>2
<1>7. QED
  BY <1>1, <1>3, <1>6 DEF Latests

(* ... so parseLatestHandshake returns the latest stamp of the dump, of    *)
(* whatever length: no later line has a greater one, and some line has it. *)
LEMMA ParseIsLatest ==
  ASSUME NEW dump, Len(dump) \in Nat, \A j \in 1..Len(dump) : LineStamp(dump[j]) \in Nat
  PROVE  IsLatest(ParseLatestHandshake(dump), dump, Len(dump))
<1>1. PICK f : f = CHOOSE g : Latests(dump, g)
  OBVIOUS
<1>2. Latests(dump, f)
  BY <1>1, LatestsExists
<1>3. ParseLatestHandshake(dump) = f[Len(dump)]
  BY <1>1 DEF ParseLatestHandshake, Latests
<1>4. PICK n \in Nat : n = Len(dump)
  OBVIOUS
<1>5. \A i \in 0..n : IsLatest(f[i], dump, i)
  <2> SUFFICES ASSUME NEW B, B = {i \in 0..n : ~IsLatest(f[i], dump, i)}, B # {}
               PROVE  FALSE
    OBVIOUS
  <2>0. B \in SUBSET Nat
    OBVIOUS
  <2>1. PICK b \in B : \A k \in B : b <= k
    BY <2>0, LeastNat
  <2>2. b # 0
    <3>1. IsLatest(0, dump, 0)
      BY DEF IsLatest
    <3>2. QED
      BY <1>2, <1>4, <3>1 DEF Latests
  <2>3. b \in Nat \ {0} /\ b - 1 \in 0..n /\ b - 1 \notin B
    <3>1. b \in 0..n
      OBVIOUS
    <3>2. QED
      BY <2>1, <2>2, <3>1
  <2>4. IsLatest(f[b - 1], dump, b - 1)
    BY <2>3
  <2>5. \A j \in 1..b : LineStamp(dump[j]) \in Nat
    BY <1>4
  <2>6. f[b] = IF LineStamp(dump[b]) > f[b - 1] THEN LineStamp(dump[b]) ELSE f[b - 1]
    BY <1>2, <1>4, <2>2 DEF Latests
  <2>7. QED
    BY <2>3, <2>4, <2>5, <2>6, LatestStep
<1>6. QED
  BY <1>3, <1>4, <1>5

-----------------------------------------------------------------------------
Stamps == [stamp: Nat, at: 0..End, by: Skews]
Lines == [fields: Nat, numeric: BOOLEAN, stamp: Nat]

(* A handshake the kernel has stamped by the clock of its time. *)
Genuine(hs) ==
  /\ hs \in Stamps
  /\ hs.at \in Start..tick
  /\ hs.stamp = (hs.at + hs.by) \div Rate

(* What a dump says of the handshakes seen in it: each has a line, and     *)
(* every line with a stamp is of one of them.                              *)
DumpOK(dump, seen) ==
  /\ dump \in Seq(Lines)
  /\ \A hs \in seen : /\ Genuine(hs)
                      /\ \E j \in 1..Len(dump) : LineStamp(dump[j]) = hs.stamp
  /\ \A j \in 1..Len(dump) : LineStamp(dump[j]) # 0 =>
       \E hs \in seen : hs.stamp = LineStamp(dump[j])

(* A Check c in progress while m holds the mutex, under configuration cf. *)
CheckOK(c, m, cf) ==
  /\ c = [stage |-> c.stage, dump |-> c.dump, seen |-> c.seen, used |-> c.used]
  /\ c.stage \in (IF m = NoProc THEN {"idle"} ELSE {"ping", "show", "judge"})
  /\ c.used \in Configs
  /\ m # NoProc => c.used = cf
  /\ DumpOK(c.dump, c.seen)

ClockInv == tick \in Start..End /\ skew \in Skews /\ exists \in BOOLEAN

PeerInv ==
  /\ peer \in [1..Len(Peers) -> Stamps]
  /\ \A i \in 1..Len(Peers) : peer[i] = Never \/ Genuine(peer[i])

Verdicts == [ok: BOOLEAN, reason: {"none", "wg show failed", "no handshake", "old"}]

CheckInv ==
  /\ tconf \in Configs
  /\ tmu \in Procs \cup {NoProc}
  /\ CheckOK(check, tmu, tconf)
  /\ verdict \in Verdicts

(* The inductive invariant: the types, that the handshakes of the peers    *)
(* and those seen in a dump carry the time they were made at, that the     *)
(* dump says what was seen, and that the configuration does not change     *)
(* under a Check.                                                          *)
TInv == ClockInv /\ PeerInv /\ CheckInv

(* The types are part of it. *)
LEMMA TInvTypes == TInv => TypeOK
BY DEF TInv, ClockInv, PeerInv, CheckInv, CheckOK, TypeOK, Stamps, Verdicts

(* The clock never shows a time before the first second. *)
LEMMA ClockFacts ==
  ASSUME ClockInv
  PROVE  /\ tick \in Nat /\ tick >= Start /\ tick \in 0..End /\ skew \in Int
         /\ tick + skew \in Nat /\ Rate \in Nat \ {0} /\ Start \in Nat
<1>1. tick \in Start..End /\ skew \in Skews
  BY DEF ClockInv
<1>2. Start \in Nat /\ End \in Nat /\ Rate \in Nat \ {0} /\ skew \in Int /\ Start + skew >= Rate
  BY <1>1, TunnelAssumption
<1>3. QED
  BY <1>1, <1>2

(* A genuine handshake has a stamp that is not 0, which would mean none. *)
LEMMA GenuinePositive ==
  ASSUME NEW hs, Genuine(hs), tick \in Nat
  PROVE  hs.stamp \in Nat /\ hs.stamp >= 1 /\ hs.at + hs.by \in Nat
<1>1. /\ hs.at \in Nat /\ hs.by \in Int /\ Start + hs.by >= Rate /\ hs.at >= Start
      /\ Rate \in Nat \ {0} /\ Start \in Nat
  BY TunnelAssumption DEF Genuine, Stamps
<1>2. PICK x \in Nat : x = hs.at + hs.by /\ x >= Rate
  BY <1>1
<1>3. PICK q \in Nat : q = x \div Rate /\ x < q * Rate + Rate
  BY <1>1, <1>2, DivFacts
<1>4. q # 0
  <2>1. ASSUME q = 0 PROVE FALSE
    <3>1. q * Rate = 0
      BY <1>1, <2>1
    <3>2. QED
      BY <1>1, <1>2, <1>3, <3>1
  <2>2. QED
    BY <2>1
<1>5. QED
  BY <1>2, <1>3, <1>4 DEF Genuine

(* The kernel stamps by the clock. *)
LEMMA HandshakenGenuine ==
  ASSUME ClockInv
  PROVE  Genuine(Handshaken)
<1>1. tick \in Nat /\ tick >= Start /\ tick \in 0..End /\ tick + skew \in Nat
      /\ Rate \in Nat \ {0} /\ Start \in Nat
  BY ClockFacts
<1>2. tick \in Start..tick
  BY <1>1
<1>3. Unix \in Nat
  BY <1>1, <1>2, DivFacts DEF Unix
<1>4. QED
  BY <1>1, <1>2, <1>3 DEF Handshaken, Genuine, Stamps, Unix, ClockInv

(* What is read off a dump that is faithful to the handshakes seen in it.  *)
LEMMA JudgedRight ==
  ASSUME TInv, check.stage = "judge"
  PROVE  AliveIsRecent /\ DeadIsOld
<1>1. PICK latest : latest = ParseLatestHandshake(check.dump)
  OBVIOUS
<1>2. Len(check.dump) \in Nat /\ \A j \in 1..Len(check.dump) : LineStamp(check.dump[j]) \in Nat
  <2>1. check.dump \in Seq(Lines)
    BY DEF TInv, CheckInv, CheckOK, DumpOK
  <2>2. \A j \in 1..Len(check.dump) : check.dump[j] \in Lines
    BY <2>1
  <2>3. \A line \in Lines : LineStamp(line) \in Nat
    BY DEF Lines, LineStamp
  <2>4. QED
    BY <2>1, <2>2, <2>3
<1>3. IsLatest(latest, check.dump, Len(check.dump))
  BY <1>1, <1>2, ParseIsLatest
<1>4. latest \in Nat /\ (latest # 0 => \E hs \in check.seen : hs.stamp = latest)
  BY <1>2, <1>3 DEF IsLatest, TInv, CheckInv, CheckOK, DumpOK
<1>5. \A hs \in check.seen : hs.stamp <= latest
  BY <1>3 DEF IsLatest, TInv, CheckInv, CheckOK, DumpOK
<1>6. tick \in Nat /\ Rate \in Nat \ {0} /\ skew \in Int /\ tick + skew \in Nat
  BY ClockFacts DEF TInv
<1>7. tconf.maxAge \in Nat /\ check.used = tconf
  <2>1. tconf \in Configs /\ tmu # NoProc
    BY DEF TInv, CheckInv, CheckOK
  <2>2. QED
    BY <2>1, TunnelAssumption DEF TInv, CheckInv, CheckOK
<1>8. ASSUME NEW hs \in check.seen, hs.by = skew
      PROVE  /\ Unix - hs.stamp <= tconf.maxAge \div Rate => tick - hs.at < tconf.maxAge + Rate
             /\ Unix - hs.stamp > tconf.maxAge \div Rate => tick - hs.at > tconf.maxAge - Rate
             /\ hs.stamp >= 1 /\ hs.stamp \in Nat
  <2>0. Genuine(hs)
    BY DEF TInv, CheckInv, CheckOK, DumpOK
  <2>1. Genuine(hs) /\ hs.at \in Nat
    BY <2>0, TunnelAssumption DEF Genuine, Stamps
  <2>2. hs.stamp \in Nat /\ hs.stamp >= 1 /\ hs.at + hs.by \in Nat
    BY <1>6, <2>1, GenuinePositive
  <2>3. PICK a \in Nat, b \in Nat : a = tick + skew /\ b = hs.at + skew /\ a - b = tick - hs.at
    <3>1. hs.at + skew \in Nat
      BY <1>8, <2>2
    <3>2. (tick + skew) - (hs.at + skew) = tick - hs.at
      BY <1>6, <2>1
    <3>3. QED
      BY <1>6, <3>1, <3>2
  <2>4. Unix = a \div Rate /\ hs.stamp = b \div Rate
    BY <1>8, <2>1, <2>3 DEF Unix, Genuine
  <2>5. QED
    BY <1>6, <1>7, <2>2, <2>3, <2>4, Apart
<1>9. Unix \in Nat /\ tconf.maxAge \div Rate \in Nat
  BY <1>6, <1>7, DivFacts DEF Unix
<1>10. AliveIsRecent
  <2> SUFFICES ASSUME Judgement = "none", ClockKept PROVE SomeRecent
    BY DEF AliveIsRecent
  <2>1. latest # 0 /\ ~(Unix - latest > tconf.maxAge \div Rate)
    BY <1>1 DEF Judgement, AgeExceeds
  <2>2. PICK hs \in check.seen : hs.stamp = latest
    BY <1>4, <2>1
  <2>3. tick - hs.at < tconf.maxAge + Rate
    BY <1>4, <1>8, <1>9, <2>1, <2>2 DEF ClockKept
  <2>4. QED
    BY <1>7, <2>3 DEF SomeRecent
<1>11. DeadIsOld
  <2> SUFFICES ASSUME Judgement # "none", ClockKept, NEW hs \in check.seen
               PROVE  tick - hs.at > check.used.maxAge - Rate
    BY DEF DeadIsOld
  <2>1. hs.stamp >= 1 /\ hs.stamp \in Nat /\ hs.stamp <= latest /\ hs.by = skew
    BY <1>5, <1>8 DEF ClockKept
  <2>2. Unix - latest > tconf.maxAge \div Rate
    BY <1>1, <1>4, <2>1 DEF Judgement, AgeExceeds
  <2>3. Unix - hs.stamp > tconf.maxAge \div Rate
    BY <1>4, <1>9, <2>1, <2>2
  <2>4. QED
    BY <1>7, <1>8, <2>1, <2>3
<1>12. QED
  BY <1>10, <1>11

-----------------------------------------------------------------------------
(* Time passing leaves a handshake genuine. *)
LEMMA GenuineLater ==
  ASSUME NEW hs, Genuine(hs), tick \in Nat, tick' \in Nat, tick' >= tick
  PROVE  Genuine(hs)'
BY TunnelAssumption DEF Genuine, Stamps

(* The lines of a dump. *)
LEMMA ShownDump ==
  ASSUME PeerInv, NEW junk \in Junk, NEW dump, NEW seen,
         dump = junk \o <<InterfaceLine>> \o [i \in 1..Len(Peers) |-> PeerLine(i)],
         seen = {peer[i] : i \in 1..Len(Peers)} \ {Never}
  PROVE  DumpOK(dump, seen)
<1>1. junk \in Seq(Lines) /\ (\A i \in 1..Len(junk) : LineStamp(junk[i]) = 0) /\ Len(junk) \in Nat
  BY JunkAssumption DEF Lines
<1>2. PICK n \in Nat : n = Len(Peers)
  BY TunnelAssumption
<1>3. peer \in [1..n -> Stamps]
  BY <1>2 DEF PeerInv
<1>4. PICK ps : ps = [i \in 1..n |-> PeerLine(i)]
  OBVIOUS
<1>5. ps \in Seq(Lines) /\ Len(ps) = n /\ \A i \in 1..n : ps[i] = PeerLine(i)
  BY <1>3, <1>4 DEF PeerLine, Lines, Stamps
<1>6. InterfaceLine \in Lines /\ LineStamp(InterfaceLine) = 0
  BY DEF InterfaceLine, Lines, LineStamp
<1>7. \A i \in 1..n : LineStamp(ps[i]) = peer[i].stamp
  BY <1>5 DEF PeerLine, LineStamp
<1>8. /\ dump \in Seq(Lines) /\ Len(dump) = Len(junk) + 1 + n
      /\ \A j \in 1..Len(dump) :
           \/ j \in 1..Len(junk) /\ dump[j] = junk[j]
           \/ dump[j] = InterfaceLine
           \/ j - (Len(junk) + 1) \in 1..n /\ dump[j] = ps[j - (Len(junk) + 1)]
      /\ \A i \in 1..n : dump[Len(junk) + 1 + i] = ps[i]
  <2>1. PICK d : d = junk \o <<InterfaceLine>>
    OBVIOUS
  <2>2. d \in Seq(Lines) /\ Len(d) = Len(junk) + 1 /\ d[Len(junk) + 1] = InterfaceLine
        /\ \A j \in 1..Len(junk) : d[j] = junk[j]
    BY <1>1, <1>6, <2>1
  <2>3. dump = d \o ps
    BY <1>2, <1>4, <2>1
  <2>4. PICK m \in Nat : m = Len(junk) + 1
    BY <1>1
  <2>5. /\ dump \in Seq(Lines) /\ Len(dump) = Len(d) + Len(ps)
        /\ \A i \in 1..(Len(d) + Len(ps)) :
             dump[i] = IF i <= Len(d) THEN d[i] ELSE ps[i - Len(d)]
    <3>1. d \in Seq(Lines) /\ ps \in Seq(Lines)
      BY <1>5, <2>2
    <3>2. QED
      BY <2>3, <3>1, ConcatProperties, Zenon
  <2>6. /\ Len(dump) = m + n
        /\ \A i \in 1..(m + n) : dump[i] = IF i <= m THEN d[i] ELSE ps[i - m]
    BY <1>5, <2>2, <2>4, <2>5
  <2>7. ASSUME NEW j \in 1..(m + n)
        PROVE  \/ j \in 1..Len(junk) /\ dump[j] = junk[j]
               \/ dump[j] = InterfaceLine
               \/ j - m \in 1..n /\ dump[j] = ps[j - m]
    <3>1. CASE j <= m
      <4>1. dump[j] = d[j]
        BY <2>6, <3>1
      <4>2. j \in 1..Len(junk) \/ j = Len(junk) + 1
        BY <1>1, <2>4, <3>1
      <4>3. QED
        BY <2>2, <4>1, <4>2
    <3>2. CASE ~(j <= m)
      <4>1. j - m \in 1..n
        BY <3>2
      <4>2. QED
        BY <2>6, <3>2, <4>1
    <3>3. QED
      BY <3>1, <3>2
  <2>8. ASSUME NEW i \in 1..n PROVE dump[m + i] = ps[i]
    <3>1. m + i \in 1..(m + n) /\ ~(m + i <= m) /\ (m + i) - m = i
      OBVIOUS
    <3>2. QED
      BY <2>6, <3>1
  <2>9. QED
    BY <2>4, <2>5, <2>6, <2>7, <2>8
<1>9. ASSUME NEW hs \in seen
      PROVE  Genuine(hs) /\ \E j \in 1..Len(dump) : LineStamp(dump[j]) = hs.stamp
  <2>1. PICK i \in 1..n : hs = peer[i] /\ peer[i] # Never
    BY <1>2
  <2>2. Genuine(hs)
    BY <1>2, <2>1 DEF PeerInv
  <2>3. Len(junk) + 1 + i \in 1..Len(dump)
    BY <1>1, <1>8
  <2>4. QED
    BY <1>7, <1>8, <2>1, <2>2, <2>3
<1>10. ASSUME NEW j \in 1..Len(dump), LineStamp(dump[j]) # 0
       PROVE  \E hs \in seen : hs.stamp = LineStamp(dump[j])
  <2>1. PICK i \in 1..n : dump[j] = ps[i]
    BY <1>1, <1>6, <1>8, <1>10
  <2>2. peer[i].stamp # 0 /\ peer[i].stamp = LineStamp(dump[j])
    BY <1>7, <1>10, <2>1
  <2>3. peer[i] # Never
    BY <2>2 DEF Never
  <2>4. QED
    BY <1>2, <2>2, <2>3
<1>11. QED
  BY <1>8, <1>9, <1>10 DEF DumpOK

(* Clocks and handshakes. *)
LEMMA PeerStep ==
  ASSUME ClockInv, PeerInv, tick' \in Nat, tick' >= tick,
         \/ peer' = peer
         \/ \E i \in 1..Len(Peers) : peer' = [peer EXCEPT ![i] = Handshaken]
         \/ peer' = [i \in 1..Len(Peers) |-> Never]
  PROVE  PeerInv'
<1>1. tick \in Nat
  BY ClockFacts
<1>2. Never \in Stamps /\ Genuine(Handshaken)
  BY HandshakenGenuine, TunnelAssumption DEF Never, Stamps
<1>3. peer \in [1..Len(Peers) -> Stamps] /\ Handshaken \in Stamps
  BY <1>2 DEF PeerInv, Genuine
<1>4. peer' \in [1..Len(Peers) -> Stamps]
  BY <1>2, <1>3
<1>5. \A i \in 1..Len(Peers) : peer'[i] = Never \/ Genuine(peer'[i])
  BY <1>2, <1>3 DEF PeerInv
<1>6. \A hs : Genuine(hs) => Genuine(hs)'
  BY <1>1, GenuineLater
<1>7. QED
  BY <1>4, <1>5, <1>6 DEF PeerInv, Genuine, Stamps, Never

(* And so a dump that has been read stays faithful to what was seen in it, *)
(* though the kernel's own peers change.                                   *)
LEMMA DumpLater ==
  ASSUME ClockInv, tick' \in Nat, tick' >= tick, NEW dump, NEW seen, DumpOK(dump, seen)
  PROVE  DumpOK(dump, seen)'
<1>1. \A hs : Genuine(hs) => Genuine(hs)'
  BY ClockFacts, GenuineLater
<1>2. QED
  BY <1>1 DEF DumpOK, LineStamp

(* A step that leaves a Check with these locals keeps its invariant. *)
LEMMA CheckStep ==
  ASSUME ClockInv, tick' \in Nat, tick' >= tick,
         NEW stage, NEW dump, NEW seen, NEW used \in Configs, DumpOK(dump, seen),
         check' = [stage |-> stage, dump |-> dump, seen |-> seen, used |-> used],
         tmu' \in Procs \cup {NoProc},
         stage \in (IF tmu' = NoProc THEN {"idle"} ELSE {"ping", "show", "judge"}),
         tmu' # NoProc => used = tconf',
         tconf' \in Configs, verdict' \in Verdicts
  PROVE  CheckInv'
<1>1. check'.stage = stage /\ check'.dump = dump /\ check'.seen = seen /\ check'.used = used
  OBVIOUS
<1>2. DumpOK(dump, seen)'
  BY DumpLater
<1>3. DumpOK(check.dump, check.seen)'
  BY <1>1, <1>2 DEF DumpOK
<1>4. CheckOK(check, tmu, tconf)'
  BY <1>1, <1>3 DEF CheckOK
<1>5. QED
  BY <1>4 DEF CheckInv, Verdicts

(* Before `wg show` has answered, nothing has been seen. *)
LEMMA EmptyDump == DumpOK(<<>>, {})
BY DEF DumpOK

(* Every step keeps the invariant. *)
LEMMA TInvStep == TInv /\ [Next]_tvars => TInv'
<1> SUFFICES ASSUME TInv, [Next]_tvars PROVE TInv'
  OBVIOUS
<1> USE DEF TInv
<1>0. PICK stage, dump, seen, used :
        check = [stage |-> stage, dump |-> dump, seen |-> seen, used |-> used]
        /\ used \in Configs /\ stage = check.stage
  BY DEF CheckInv, CheckOK
<1>1. /\ DumpOK(dump, seen) /\ tconf \in Configs /\ verdict \in Verdicts
      /\ tmu \in Procs \cup {NoProc} /\ (tmu # NoProc => used = tconf)
      /\ stage \in (IF tmu = NoProc THEN {"idle"} ELSE {"ping", "show", "judge"})
  BY <1>0 DEF CheckInv, CheckOK
<1>2. /\ NoProc \notin Procs /\ tick \in Nat /\ tick >= tick
  BY TunnelAssumption, ClockFacts
<1>3. ASSUME UNCHANGED <<tick, skew, exists>> PROVE ClockInv'
  BY <1>3 DEF ClockInv
<1>4. ASSUME UNCHANGED <<tick, peer>> PROVE PeerInv'
  BY <1>2, <1>4, PeerStep
<1>5. ASSUME tick' \in Nat, tick' >= tick, UNCHANGED <<tconf, tmu, check, verdict>> PROVE CheckInv'
  BY <1>0, <1>1, <1>5, CheckStep
<1>6. ASSUME NEW g \in Procs, Lock(g) PROVE TInv'
  <2>1. PICK st \in {"ping", "show"} : st = IF tconf.ping THEN "ping" ELSE "show"
    OBVIOUS
  <2>2. check' = [stage |-> st, dump |-> dump, seen |-> seen, used |-> tconf]
    BY <1>0, <1>6, <2>1 DEF Lock
  <2>3. UNCHANGED <<tick, skew, exists, peer, tconf, verdict>> /\ tmu' = g
    BY <1>6 DEF Lock
  <2>4. CheckInv'
    BY <1>1, <1>2, <2>2, <2>3, CheckStep
  <2>5. QED
    BY <1>3, <1>4, <2>3, <2>4
<1>7. ASSUME NEW g \in Procs, NEW i \in 1..Len(Peers), Ping(g, i) PROVE TInv'
  <2>1. /\ check' = [stage |-> "show", dump |-> dump, seen |-> seen, used |-> used]
        /\ tmu = g /\ UNCHANGED <<tick, skew, exists, tconf, tmu, verdict>>
    BY <1>0, <1>7 DEF Ping
  <2>2. PeerInv'
    BY <1>2, <1>7, <2>1, PeerStep DEF Ping
  <2>3. CheckInv'
    BY <1>0, <1>1, <1>2, <2>1, CheckStep
  <2>4. QED
    BY <1>3, <2>1, <2>2, <2>3
<1>8. ASSUME NEW g \in Procs, NEW junk \in Junk, Show(g, junk) PROVE TInv'
  <2>1. PICK d, sn : /\ d = junk \o <<InterfaceLine>> \o [i \in 1..Len(Peers) |-> PeerLine(i)]
                     /\ sn = {peer[i] : i \in 1..Len(Peers)} \ {Never}
    OBVIOUS
  <2>2. check' = [stage |-> "judge", dump |-> d, seen |-> sn, used |-> used]
    BY <1>0, <1>8, <2>1 DEF Show
  <2>3. UNCHANGED <<tick, skew, exists, peer, tconf, tmu, verdict>> /\ tmu = g
    BY <1>8 DEF Show
  <2>4. DumpOK(d, sn)
    BY <2>1, ShownDump
  <2>5. CheckInv'
    BY <1>0, <1>1, <1>2, <2>2, <2>3, <2>4, CheckStep
  <2>6. QED
    BY <1>3, <1>4, <2>3, <2>5
<1>9. ASSUME NEW ok \in BOOLEAN, NEW reason \in {"none", "wg show failed", "no handshake", "old"},
             Verdict(ok, reason)
      PROVE  TInv'
  <2>1. check' = [stage |-> "idle", dump |-> <<>>, seen |-> {}, used |-> used]
    BY <1>0, <1>9 DEF Verdict
  <2>2. DumpOK(<<>>, {})
    BY EmptyDump
  <2>3. UNCHANGED <<tick, skew, exists, peer, tconf>> /\ tmu' = NoProc /\ verdict' \in Verdicts
    BY <1>9 DEF Verdict, Verdicts
  <2>4. CheckInv'
    BY <1>0, <1>1, <1>2, <2>1, <2>2, <2>3, CheckStep
  <2>5. QED
    BY <1>3, <1>4, <2>3, <2>4
<1>10. ASSUME NEW g \in Procs, ShowFails(g) \/ JudgeDump(g) PROVE TInv'
  <2>1. Judgement \in {"none", "wg show failed", "no handshake", "old"}
    BY DEF Judgement
  <2>2. (Judgement = "none") \in BOOLEAN
    OBVIOUS
  <2>3. QED
    BY <1>9, <1>10, <2>1, <2>2 DEF ShowFails, JudgeDump
<1>11. ASSUME NEW g \in Procs, NEW c \in Configs, Apply(g, c) PROVE TInv'
  <2>1. /\ tmu = NoProc /\ tconf' = c
        /\ UNCHANGED <<tick, skew, exists, peer, tmu, check, verdict>>
    BY <1>11 DEF Apply
  <2>2. CheckInv'
    BY <1>0, <1>1, <1>2, <2>1, CheckStep
  <2>3. QED
    BY <1>3, <1>4, <2>1, <2>2
<1>12. ASSUME NEW i \in 1..Len(Peers), Handshake(i) PROVE TInv'
  <2>1. UNCHANGED <<tick, skew, exists, tconf, tmu, check, verdict>>
    BY <1>12 DEF Handshake
  <2>2. PeerInv'
    BY <1>2, <1>12, <2>1, PeerStep DEF Handshake
  <2>3. QED
    BY <1>2, <1>3, <1>5, <2>1, <2>2
<1>13. CASE Toggle
  <2>1. UNCHANGED <<tick, skew, tconf, tmu, check, verdict>> /\ ClockInv'
    BY <1>13 DEF Toggle, ClockInv
  <2>2. PeerInv'
    BY <1>2, <1>13, <2>1, PeerStep DEF Toggle
  <2>3. QED
    BY <1>2, <1>5, <2>1, <2>2
<1>14. CASE Tick \/ \E s \in Skews : StepClock(s)
  <2>1. UNCHANGED <<exists, peer, tconf, tmu, check, verdict>>
    BY <1>14 DEF Tick, StepClock
  <2>2. tick \in Start..End /\ Start \in Nat /\ End \in Nat
    BY TunnelAssumption DEF ClockInv
  <2>3. tick' \in Start..End /\ tick' \in Nat /\ tick' >= tick
    BY <1>14, <2>2 DEF Tick, StepClock
  <2>4. ClockInv'
    BY <1>14, <2>1, <2>3 DEF ClockInv, Tick, StepClock
  <2>5. PeerInv'
    BY <2>1, <2>3, PeerStep
  <2>6. QED
    BY <1>5, <2>1, <2>3, <2>4, <2>5
<1>15. CASE UNCHANGED tvars
  BY <1>2, <1>3, <1>4, <1>5, <1>15 DEF tvars
<1>16. QED
  BY <1>6, <1>7, <1>8, <1>10, <1>11, <1>12, <1>13, <1>14, <1>15 DEF Next

(* And it holds at the start. *)
LEMMA TInvInit == Init => TInv
<1> SUFFICES ASSUME Init PROVE TInv
  OBVIOUS
<1>1. ClockInv
  BY TunnelAssumption DEF Init, ClockInv
<1>2. Never \in Stamps
  BY TunnelAssumption DEF Never, Stamps
<1>3. PeerInv
  BY <1>2 DEF Init, PeerInv
<1>4. DumpOK(<<>>, {})
  BY EmptyDump
<1>5. CheckOK(check, tmu, tconf)
  BY <1>4 DEF Init, CheckOK
<1>6. CheckInv
  BY <1>5 DEF Init, CheckInv, Verdicts
<1>7. QED
  BY <1>1, <1>3, <1>6 DEF TInv

(* So the invariant holds throughout. *)
LEMMA TInvCorrect == Spec => []TInv
BY TInvInit, TInvStep, PTL DEF Spec

(* The types of the tunnel checker, its caller's place in Check and the    *)
(* holder of t.mu agreeing.                                                *)
THEOREM TunnelTypeCorrect == Spec => []TypeOK
BY TInvCorrect, TInvTypes, PTL

(* A tunnel judged alive has a peer whose handshake is less than           *)
(* max_handshake_age and a second old: for any number of peers, any rate   *)
(* of the clock, any configurations and any interleaving of Check with     *)
(* Apply, the kernel and the clock.                                        *)
THEOREM AliveCorrect == Spec => []AliveIsRecent
<1>1. TInv => AliveIsRecent
  <2>1. check.stage # "judge" => AliveIsRecent
    BY DEF AliveIsRecent
  <2>2. QED
    BY <2>1, JudgedRight
<1>2. QED
  BY <1>1, TInvCorrect, PTL

(* A tunnel judged dead has no handshake younger than max_handshake_age    *)
(* less a second.                                                          *)
THEOREM DeadCorrect == Spec => []DeadIsOld
<1>1. TInv => DeadIsOld
  <2>1. check.stage # "judge" => DeadIsOld
    BY DEF DeadIsOld
  <2>2. QED
    BY <2>1, JudgedRight
<1>2. QED
  BY <1>1, TInvCorrect, PTL

-----------------------------------------------------------------------------
(* The killer, for any process table, any targets and any number of signal *)
(* workers.                                                                *)

(* Nothing is in the workers' hands outside signalProcesses. *)
PoolInv == kpc # "signal" => jobs = {} /\ busy = {}

KTypes == KillerTypeOK /\ PoolInv

(* The steps of the process table and those of a round. *)
LEMMA KillerSteps ==
  ASSUME [KillerNext]_kvars
  PROVE  \/ \E p \in Pids : Exit(p)
         \/ \E p \in Pids : \E new \in Processes : Spawn(p, new)
         \/ \E p \in Pids : \E comm \in Comms : Rename(p, comm)
         \/ Cancel
         \/ \E ts \in TargetLists : Begin(ts)
         \/ ReadDir \/ ReadDirFails \/ (\E p \in Pids : ReadComm(p)) \/ Scanned
         \/ (\E f \in found : TakeJob(f)) \/ (\E f \in found : Signal(f))
         \/ Joined \/ GraceEnds \/ GraceCancelled \/ Finish
         \/ UNCHANGED kvars
BY Zenon DEF KillerNext, World, KillRound

(* Every step keeps the types. *)
LEMMA KTypesStep == KTypes /\ [KillerNext]_kvars => KTypes'
<1> SUFFICES ASSUME KTypes, [KillerNext]_kvars PROVE KTypes'
  OBVIOUS
<1> USE DEF KTypes, KillerTypeOK, PoolInv, world, round
<1>1. ASSUME NEW p \in Pids, Exit(p) PROVE KTypes'
  BY <1>1 DEF Exit
<1>2. ASSUME NEW p \in Pids, NEW new \in Processes, Spawn(p, new) PROVE KTypes'
  BY <1>2 DEF Spawn
<1>3. ASSUME NEW p \in Pids, NEW comm \in Comms, Rename(p, comm) PROVE KTypes'
  <2>1. proc[p] \in Processes
    BY <1>3 DEF Rename, Alive
  <2>2. [proc[p] EXCEPT !.comm = comm] \in Processes
    BY <2>1 DEF Processes
  <2>3. proc' = [proc EXCEPT ![p] = [proc[p] EXCEPT !.comm = comm]]
    BY <1>3 DEF Rename
  <2>4. proc' \in [Pids -> Processes \cup {Dead}]
    BY <2>2, <2>3
  <2>5. QED
    BY <1>3, <2>4 DEF Rename
<1>4. CASE Cancel
  BY <1>4 DEF Cancel
<1>5. ASSUME NEW ts \in TargetLists, Begin(ts) PROVE KTypes'
  BY <1>5 DEF Begin
<1>6. CASE ReadDir
  BY <1>6 DEF ReadDir
<1>7. CASE ReadDirFails
  BY <1>7 DEF ReadDirFails
<1>8. ASSUME NEW p \in Pids, ReadComm(p) PROVE KTypes'
  <2>1. IsTarget(p) => proc[p].comm \in Comms
    BY DEF IsTarget, Alive, Processes
  <2>2. found' \subseteq Pids \X Comms /\ found \subseteq found'
    BY <1>8, <2>1 DEF ReadComm
  <2>3. QED
    BY <1>8, <2>2 DEF ReadComm
<1>9. CASE Scanned
  <2>1. NamesOf(found) \subseteq Comms
    BY DEF NamesOf
  <2>2. QED
    BY <1>9, <2>1 DEF Scanned
<1>10. ASSUME NEW f \in found, TakeJob(f) PROVE KTypes'
  BY <1>10 DEF TakeJob
<1>11. ASSUME NEW f \in found, Signal(f) PROVE KTypes'
  <2>1. proc' \in [Pids -> Processes \cup {Dead}] /\ due' \subseteq Pids
    BY <1>11 DEF Signal
  <2>2. failures' \subseteq {"list", "signal"}
    BY <1>11 DEF Signal
  <2>3. QED
    BY <1>11, <2>1, <2>2 DEF Signal
<1>12. CASE Joined \/ GraceEnds \/ GraceCancelled
  BY <1>12 DEF Joined, GraceEnds, GraceCancelled
<1>13. CASE Finish
  BY <1>13 DEF Finish
<1>14. CASE UNCHANGED kvars
  BY <1>14 DEF kvars
<1>15. QED
  BY <1>1, <1>2, <1>3, <1>4, <1>5, <1>6, <1>7, <1>8, <1>9, <1>10, <1>11, <1>12, <1>13, <1>14,
     KillerSteps

(* So they hold throughout. *)
LEMMA KTypesCorrect == KillerSpec => []KTypes
<1>1. KillerInit => KTypes
  BY DEF KillerInit, KTypes, KillerTypeOK, PoolInv
<1>2. QED
  BY <1>1, KTypesStep, PTL DEF KillerSpec

(* The types; among them, that a round never signals what it has not       *)
(* found itself.                                                           *)
THEOREM KillerTypeCorrect == KillerSpec => []KillerTypeOK
BY KTypesCorrect, PTL DEF KTypes

-----------------------------------------------------------------------------
(* Where a process that is due to be killed is.                            *)

Entry(p) == <<p, proc[p].comm>>

(* A due process is alive and a target.  Until the scan ends it is still   *)
(* to be read or has been found; in the second pass it then is with the    *)
(* pool, until a worker kills it or reports that it cannot.                *)
DueInv ==
  /\ \A p \in due : IsTarget(p)
  /\ kpc = "idle" => due = {}
  /\ kpc = "read" => \A p \in due : p \in listing \/ Entry(p) \in found
  /\ kpc = "signal" /\ sig = "SIGKILL" /\ failures = {} =>
       \A p \in due : Entry(p) \in jobs \cup busy
  /\ NoSilentSurvivor

(* Processes that leave the table, or change their names, are not due any  *)
(* more, and nothing else changes for those that are.                      *)
LEMMA WorldKeepsDue ==
  ASSUME DueInv, due' \subseteq due, \A p \in due' : proc'[p] = proc[p],
         cancelled => cancelled', UNCHANGED round
  PROVE  DueInv'
BY DEF DueInv, NoSilentSurvivor, IsTarget, Alive, Entry, round

(* Every step, of the round or of the process table, keeps DueInv. *)
LEMMA DueStep == KTypes /\ DueInv /\ [KillerNext]_kvars => DueInv'
<1> SUFFICES ASSUME KTypes, DueInv, [KillerNext]_kvars PROVE DueInv'
  OBVIOUS
<1>0. KillerTypeOK /\ PoolInv
  BY DEF KTypes
<1>1. ASSUME NEW p \in Pids, Exit(p) PROVE DueInv'
  BY <1>0, <1>1, WorldKeepsDue DEF Exit, KillerTypeOK
<1>2. ASSUME NEW p \in Pids, NEW new \in Processes, Spawn(p, new) PROVE DueInv'
  <2>1. p \notin due
    BY <1>2 DEF Spawn, DueInv, IsTarget
  <2>2. QED
    BY <1>0, <1>2, <2>1, WorldKeepsDue DEF Spawn, KillerTypeOK
<1>3. ASSUME NEW p \in Pids, NEW comm \in Comms, Rename(p, comm) PROVE DueInv'
  BY <1>0, <1>3, WorldKeepsDue DEF Rename, KillerTypeOK
<1>4. CASE Cancel
  BY <1>4, WorldKeepsDue DEF Cancel
<1> USE DEF DueInv, NoSilentSurvivor, IsTarget, Alive, Entry, world
<1>5. ASSUME NEW ts \in TargetLists, Begin(ts) PROVE DueInv'
  BY <1>5 DEF Begin
<1>6. CASE ReadDir
  BY <1>6 DEF ReadDir
<1>7. CASE ReadDirFails
  BY <1>7 DEF ReadDirFails
<1>8. ASSUME NEW p \in Pids, ReadComm(p) PROVE DueInv'
  BY <1>8 DEF ReadComm
<1>9. CASE Scanned
  BY <1>9 DEF Scanned
<1>10. ASSUME NEW f \in found, TakeJob(f) PROVE DueInv'
  BY <1>10 DEF TakeJob
<1>11. ASSUME NEW f \in found, Signal(f) PROVE DueInv'
  <2>1. /\ due' \subseteq due /\ \A p \in due' : proc'[p] = proc[p]
        /\ UNCHANGED <<targets, kpc, sig, jobs, cancelled>> /\ kpc = "signal"
        /\ failures \subseteq failures' /\ busy' = busy \ {f}
    BY <1>0, <1>11 DEF Signal, KillerTypeOK
  <2>2. ASSUME sig = "SIGKILL", failures' = {}, NEW p \in due' PROVE Entry(p)' \in jobs \cup busy'
    <3>1. Entry(p)' = Entry(p) /\ Entry(p) \in jobs \cup busy
      BY <2>1, <2>2
    <3>2. CASE Entry(p) = f
      <4>1. f[1] = p /\ p \in Pids
        BY <2>1, <1>0, <3>2, <2>2 DEF KillerTypeOK
      <4>2. Alive(p)
        BY <2>1, <2>2
      <4>3. QED
        BY <1>11, <2>2, <4>1, <4>2 DEF Signal, DiesOf
    <3>3. CASE Entry(p) # f
      BY <2>1, <3>1, <3>3
    <3>4. QED
      BY <3>2, <3>3
  <2>3. QED
    BY <2>1, <2>2
<1>12. CASE Joined
  BY <1>0, <1>12 DEF Joined, KillerTypeOK
<1>13. CASE GraceEnds \/ GraceCancelled
  BY <1>13 DEF GraceEnds, GraceCancelled
<1>14. CASE Finish
  BY <1>14 DEF Finish
<1>15. CASE UNCHANGED kvars
  BY <1>15 DEF kvars, round
<1>16. QED
  BY <1>1, <1>2, <1>3, <1>4, <1>5, <1>6, <1>7, <1>8, <1>9, <1>10, <1>11, <1>12, <1>13, <1>14,
     <1>15, KillerSteps

(* A round that runs to its end and reports no failure leaves no process   *)
(* that was a target all along since its last scan began.                  *)
THEOREM SurvivorsCorrect == KillerSpec => []NoSilentSurvivor
<1>1. KillerInit => DueInv
  BY DEF KillerInit, DueInv, NoSilentSurvivor
<1>2. DueInv => NoSilentSurvivor
  BY DEF DueInv
<1>3. QED
  BY <1>1, <1>2, DueStep, KTypesCorrect, PTL DEF KillerSpec
=============================================================================
