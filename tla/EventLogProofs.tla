--------------------------- MODULE EventLogProofs ----------------------------
(***************************************************************************)
(* Proofs about EventLog, for any number of goroutines, records and        *)
(* levels, and any limit on the entries `reptile history` shows.           *)
(***************************************************************************)
EXTENDS EventLog, SequenceTheorems, TLAPS

(* The types of the daemon's part. *)
LogTypes ==
  /\ gpc \in [Loggers -> {"idle", "console", "file"}]
  /\ rec \in [Loggers -> Records \cup {NoRecord}]
  /\ count \in [Loggers -> 0..MaxRecords]
  /\ shown \subseteq Records
  /\ log \in Seq(Lines)
  /\ handled \subseteq Records

(* A goroutine in Handle has its latest record in hand, which a sink is    *)
(* enabled for and which has reached the console before the file; what has *)
(* been handled of a goroutine's records came before.                      *)
HandleInv ==
  /\ \A g \in Loggers : gpc[g] # "idle" =>
       /\ rec[g] \in Records /\ rec[g].from = g /\ rec[g].no = count[g]
       /\ Enabled(rec[g].rank)
       /\ gpc[g] = "file" => rec[g] \in shown
  /\ \A r \in handled :
       /\ r \in shown
       /\ r.no <= count[r.from]
       /\ gpc[r.from] # "idle" => r.no < count[r.from]

(* Only the last line may lack its end, and then it holds no whole record; *)
(* the others hold one that was handled, or none.                          *)
LinesInv ==
  \A p \in DOMAIN log :
    /\ log[p].open => p = Len(log) /\ log[p].rec = NoRecord
    /\ log[p].rec \in handled \cup {NoRecord}

LogInv == LogTypes /\ HandleInv /\ LinesInv /\ HandledIsLogged

-----------------------------------------------------------------------------
(* The file.                                                               *)

(* Writing a record leaves every line that holds one where it is, and puts *)
(* the record on the last line.                                            *)
LEMMA WrittenLines ==
  ASSUME LogTypes, LinesInv, NEW r \in Records, r.rank \in RankInfo..RankError
  PROVE  /\ Written(r) \in Seq(Lines)
         /\ Len(log) <= Len(Written(r)) /\ Len(Written(r)) >= 1
         /\ Written(r)[Len(Written(r))].rec = r /\ ~Written(r)[Len(Written(r))].open
         /\ \A p \in DOMAIN Written(r) : p # Len(Written(r)) =>
              p \in DOMAIN log /\ Written(r)[p] = log[p]
         /\ \A p \in DOMAIN log : p \in DOMAIN Written(r)
         /\ \A p \in DOMAIN log : log[p].rec # NoRecord => p # Len(Written(r))
<1>1. CASE LastOpen
  <2>1. Len(log) \in DOMAIN log /\ log[Len(log)] \in Lines /\ log[Len(log)].rec = NoRecord
    BY <1>1 DEF LastOpen, LogTypes, LinesInv
  <2>2. PICK line \in Lines : line.rec = r /\ ~line.open /\ Written(r) = [log EXCEPT ![Len(log)] = line]
    <3>1. [log[Len(log)] EXCEPT !.rec = r, !.open = FALSE] \in Lines
      BY <2>1 DEF Lines
    <3>2. Written(r) = [log EXCEPT ![Len(log)] = [log[Len(log)] EXCEPT !.rec = r, !.open = FALSE]]
      BY <1>1 DEF Written
    <3>3. QED
      BY <2>1, <3>1, <3>2 DEF Lines
  <2>3. QED
    BY <1>1, <2>1, <2>2 DEF LogTypes
<1>2. CASE ~LastOpen
  <2>1. PICK line \in Lines : line.rec = r /\ ~line.open /\ Written(r) = Append(log, line)
    BY <1>2 DEF Written, Lines
  <2>2. QED
    BY <1>2, <2>1 DEF LogTypes
<1>3. QED
  BY <1>1, <1>2

(* A write that fails adds at most one line, which holds no record. *)
LEMMA CutLines ==
  ASSUME LogTypes, LinesInv, NEW rank \in (RankInfo..RankError) \cup {NotAnEvent}
  PROVE  /\ Cut(rank) \in Seq(Lines)
         /\ Len(log) <= Len(Cut(rank))
         /\ \A p \in DOMAIN log : p \in DOMAIN Cut(rank) /\ Cut(rank)[p] = log[p]
         /\ \A p \in DOMAIN Cut(rank) : p \notin DOMAIN log =>
              p = Len(Cut(rank)) /\ Cut(rank)[p].rec = NoRecord
         /\ ~LastOpen => \A p \in DOMAIN log : ~log[p].open
         /\ LastOpen => Cut(rank) = log
<1>1. CASE LastOpen
  BY <1>1 DEF Cut, LogTypes
<1>2. CASE ~LastOpen
  <2>1. PICK line \in Lines : line.rec = NoRecord /\ Cut(rank) = Append(log, line)
    BY <1>2 DEF Cut, Lines
  <2>2. \A p \in DOMAIN log : ~log[p].open
    BY <1>2 DEF LastOpen, LinesInv, LogTypes
  <2>3. QED
    BY <1>2, <2>1, <2>2 DEF LogTypes
<1>3. QED
  BY <1>1, <1>2

-----------------------------------------------------------------------------
(* Logging.                                                                *)

(* A goroutine that returns from Handle is idle, and no other is           *)
(* disturbed.                                                              *)
LEMMA ReturnTypes ==
  ASSUME LogTypes, NEW g \in Loggers, Return(g)
  PROVE  /\ gpc' \in [Loggers -> {"idle", "console", "file"}]
         /\ rec' \in [Loggers -> Records \cup {NoRecord}]
         /\ gpc'[g] = "idle"
         /\ \A h \in Loggers : h # g => gpc'[h] = gpc[h] /\ rec'[h] = rec[h]
BY DEF LogTypes, Return

(* The level of a record that some sink is enabled for. *)
LEMMA EnabledRank ==
  ASSUME NEW r \in Records, Enabled(r.rank)
  PROVE  r.rank \in RankInfo..RankError
<1>1. r.rank \in Ranks
  BY DEF Records
<1>2. r.rank \in Int /\ r.rank <= RankError
  BY <1>1, EventLogAssumption
<1>3. QED
  BY <1>2 DEF Enabled, RankInfo, RankError

(* A step that touches neither the file nor what was handled.              *)
LEMMA FileKept ==
  ASSUME LogInv, UNCHANGED <<log, handled>>, shown \subseteq shown'
  PROVE  LinesInv' /\ HandledIsLogged'
BY DEF LogInv, LinesInv, HandledIsLogged, LinesOf

(* Logging a record, *)
LEMMA LogInvLog ==
  ASSUME LogInv, NEW g \in Loggers, NEW rank \in Ranks, Log(g, rank)
  PROVE  LogInv'
<1>0. LogTypes /\ HandleInv /\ count[g] \in Nat /\ MaxRecords \in Nat
  BY EventLogAssumption DEF LogInv, LogTypes
<1>1. /\ gpc[g] = "idle" /\ count[g] + 1 \in 1..MaxRecords
      /\ UNCHANGED <<shown, log, handled>>
      /\ count' = [count EXCEPT ![g] = count[g] + 1]
  BY <1>0 DEF Log, LogTypes
<1>2. count' \in [Loggers -> 0..MaxRecords] /\ count'[g] = count[g] + 1
      /\ \A h \in Loggers : h # g => count'[h] = count[h]
  BY <1>0, <1>1 DEF LogTypes
<1>3. CASE Enabled(rank)
  <2>1. [from |-> g, no |-> count'[g], rank |-> rank] \in Records
    BY <1>1, <1>2 DEF Records
  <2>2. /\ gpc' = [gpc EXCEPT ![g] = "console"]
        /\ rec' = [rec EXCEPT ![g] = [from |-> g, no |-> count'[g], rank |-> rank]]
    BY <1>3 DEF Log
  <2>3. LogTypes'
    BY <1>0, <1>1, <1>2, <2>1, <2>2 DEF LogTypes
  <2>4. HandleInv'
    <3>1. \A h \in Loggers : gpc'[h] # "idle" =>
            /\ rec'[h] \in Records /\ rec'[h].from = h /\ rec'[h].no = count'[h]
            /\ Enabled(rec'[h].rank)
            /\ gpc'[h] = "file" => rec'[h] \in shown'
      BY <1>0, <1>1, <1>2, <1>3, <2>1, <2>2 DEF HandleInv, LogTypes
    <3>2. ASSUME NEW r \in handled
          PROVE  r \in shown' /\ r.no <= count'[r.from]
                 /\ (gpc'[r.from] # "idle" => r.no < count'[r.from])
      <4>1. r.from \in Loggers /\ r.no \in Nat /\ count[r.from] \in Nat
        BY <1>0, <3>2 DEF LogTypes, Records
      <4>2. CASE r.from = g
        BY <1>0, <1>1, <1>2, <3>2, <4>1, <4>2 DEF HandleInv
      <4>3. CASE r.from # g
        BY <1>0, <1>1, <1>2, <2>2, <3>2, <4>1, <4>3 DEF HandleInv, LogTypes
      <4>4. QED
        BY <4>2, <4>3
    <3>3. QED
      BY <1>1, <3>1, <3>2 DEF HandleInv
  <2>5. QED
    BY <1>1, <2>3, <2>4, FileKept DEF LogInv
<1>4. CASE ~Enabled(rank)
  <2>1. UNCHANGED <<gpc, rec>>
    BY <1>4 DEF Log
  <2>2. LogTypes'
    BY <1>0, <1>1, <1>2, <2>1 DEF LogTypes
  <2>3. ASSUME NEW r \in handled
        PROVE  r \in shown' /\ r.no <= count'[r.from]
               /\ (gpc'[r.from] # "idle" => r.no < count'[r.from])
    <3>1. r.from \in Loggers /\ r.no \in Nat /\ count[r.from] \in Nat
      BY <1>0, <2>3 DEF LogTypes, Records
    <3>2. QED
      BY <1>0, <1>1, <1>2, <2>1, <2>3, <3>1 DEF HandleInv
  <2>4. HandleInv'
    BY <1>0, <1>1, <1>2, <2>1, <2>3 DEF HandleInv
  <2>5. QED
    BY <1>1, <2>2, <2>4, FileKept DEF LogInv
<1>5. QED
  BY <1>3, <1>4

(* its console line, written or not, *)
LEMMA LogInvConsole ==
  ASSUME LogInv, NEW g \in Loggers, ConsoleWrites(g) \/ ConsoleFails(g)
  PROVE  LogInv'
<1>0. LogTypes /\ HandleInv
  BY DEF LogInv
<1>1. CASE ConsoleWrites(g)
  <2>1. rec[g] \in Records /\ shown' = shown \cup {rec[g]} /\ UNCHANGED <<rec, count, log, handled>>
    BY <1>0, <1>1 DEF ConsoleWrites, HandleInv
  <2>2. LogTypes'
    BY <1>0, <1>1, <2>1 DEF ConsoleWrites, LogTypes
  <2>3. HandleInv'
    BY <1>0, <1>1, <2>1 DEF ConsoleWrites, LogTypes, HandleInv, Records
  <2>4. QED
    BY <2>1, <2>2, <2>3, FileKept DEF LogInv
<1>2. CASE ConsoleFails(g)
  <2>1. UNCHANGED <<count, shown, log, handled>> /\ Return(g)
    BY <1>2 DEF ConsoleFails
  <2>2. LogTypes'
    BY <1>0, <2>1, ReturnTypes DEF LogTypes
  <2>3. HandleInv'
    BY <1>0, <2>1, ReturnTypes DEF LogTypes, HandleInv, Records
  <2>4. QED
    BY <2>1, <2>2, <2>3, FileKept DEF LogInv
<1>3. QED
  BY <1>1, <1>2

(* its line in the file, after a torn one or not, *)
LEMMA LogInvFile ==
  ASSUME LogInv, NEW g \in Loggers, FileWrites(g)
  PROVE  LogInv'
<1>0. LogTypes /\ HandleInv /\ LinesInv
  BY DEF LogInv
<1>a. PICK r : r = rec[g]
  OBVIOUS
<1>1. r \in Records /\ r.from = g /\ r.no = count[g] /\ r \in shown /\ Enabled(r.rank)
  BY <1>0, <1>a DEF FileWrites, HandleInv
<1>2. r.rank \in RankInfo..RankError
  BY <1>1, EnabledRank
<1>3. /\ handled' = handled \cup {r} /\ log' = Written(r)
      /\ UNCHANGED <<count, shown>> /\ Return(g) /\ gpc[g] = "file"
  BY <1>a DEF FileWrites
<1>4. LogTypes'
  BY <1>0, <1>1, <1>2, <1>3, ReturnTypes, WrittenLines DEF LogTypes
<1>5. HandleInv'
  <2>1. \A h \in Loggers : gpc'[h] # "idle" =>
          /\ rec'[h] \in Records /\ rec'[h].from = h /\ rec'[h].no = count'[h]
          /\ Enabled(rec'[h].rank)
          /\ gpc'[h] = "file" => rec'[h] \in shown'
    BY <1>0, <1>3, ReturnTypes DEF HandleInv
  <2>2. ASSUME NEW e \in handled'
        PROVE  e \in shown' /\ e.no <= count'[e.from]
               /\ (gpc'[e.from] # "idle" => e.no < count'[e.from])
    <3>1. CASE e = r
      BY <1>0, <1>1, <1>3, <3>1, ReturnTypes DEF LogTypes
    <3>2. CASE e \in handled
      <4>1. e.from \in Loggers
        BY <1>0, <3>2 DEF LogTypes, Records
      <4>2. QED
        BY <1>0, <1>3, <3>2, <4>1, ReturnTypes DEF HandleInv
    <3>3. QED
      BY <1>3, <2>2, <3>1, <3>2
  <2>3. QED
    BY <2>1, <2>2 DEF HandleInv
(* The record is new to the file. *)
<1>6. r \notin handled /\ \A e \in handled : e.from = r.from => e.no < r.no
  BY <1>0, <1>1, <1>3 DEF HandleInv, LogTypes, Records
<1>b. PICK k : k = Len(Written(r))
  OBVIOUS
<1>7. /\ k \in DOMAIN log' /\ log'[k].rec = r /\ ~log'[k].open
      /\ \A p \in DOMAIN log' : p # k => p \in DOMAIN log /\ log'[p] = log[p] /\ p < k
      /\ \A p \in DOMAIN log : p \in DOMAIN log'
      /\ \A p \in DOMAIN log : log[p].rec # NoRecord => p # k
      /\ Len(log') = k
  BY <1>0, <1>1, <1>2, <1>3, <1>b, WrittenLines DEF LogTypes
<1>8. LinesInv'
  <2> SUFFICES ASSUME NEW p \in DOMAIN log'
               PROVE  /\ log'[p].open => p = Len(log') /\ log'[p].rec = NoRecord
                      /\ log'[p].rec \in handled' \cup {NoRecord}
    BY DEF LinesInv
  <2>1. CASE p = k
    BY <1>3, <1>7, <2>1
  <2>2. CASE p # k
    <3>1. p \in DOMAIN log /\ log'[p] = log[p] /\ p < k
      BY <1>7, <2>2
    <3>2. CASE log[p].open
      <4>1. LastOpen /\ p = Len(log)
        BY <1>0, <3>1, <3>2 DEF LinesInv, LastOpen
      <4>2. Written(r) = [log EXCEPT ![Len(log)].rec = r, ![Len(log)].open = FALSE]
        BY <4>1 DEF Written
      <4>3. Len(Written(r)) = Len(log)
        BY <1>0, <4>2 DEF LogTypes
      <4>4. QED
        BY <1>b, <2>2, <4>1, <4>3
    <3>3. CASE ~log[p].open
      BY <1>0, <1>3, <3>1, <3>3 DEF LinesInv
    <3>4. QED
      BY <3>2, <3>3
  <2>3. QED
    BY <2>1, <2>2
(* The lines of the others are where they were, and the new one is last. *)
<1>9. LinesOf(r)' = {k}
  <2>1. \A p \in DOMAIN log' : p # k => log'[p].rec # r
    BY <1>0, <1>1, <1>6, <1>7, NoRecordAssumption DEF LinesInv
  <2>2. QED
    BY <1>7, <2>1 DEF LinesOf
<1>10. ASSUME NEW e \in handled PROVE LinesOf(e)' = LinesOf(e) /\ \A q \in LinesOf(e) : q < k
  <2>1. e # NoRecord /\ e # r
    BY <1>0, <1>6, <1>10, NoRecordAssumption DEF LogTypes
  <2>2. QED
    BY <1>7, <2>1 DEF LinesOf
<1>11. HandledIsLogged'
  <2> SUFFICES ASSUME NEW s \in handled'
               PROVE  /\ s \in shown'
                      /\ \E p \in DOMAIN log' :
                           /\ LinesOf(s)' = {p}
                           /\ \A e \in handled' : e.from = s.from /\ e.no < s.no =>
                                \A q \in LinesOf(e)' : q < p
    BY DEF HandledIsLogged
  <2>1. CASE s = r
    <3>1. \A e \in handled' : e.no < r.no => e \in handled
      BY <1>0, <1>1, <1>3 DEF LogTypes, Records
    <3>2. \A e \in handled' : e.from = r.from /\ e.no < r.no => \A q \in LinesOf(e)' : q < k
      BY <1>10, <3>1
    <3>3. QED
      BY <1>1, <1>3, <1>7, <1>9, <2>1, <3>2
  <2>2. CASE s \in handled
    <3>1. PICK p \in DOMAIN log :
            /\ LinesOf(s) = {p}
            /\ \A e \in handled : e.from = s.from /\ e.no < s.no => \A q \in LinesOf(e) : q < p
      BY <2>2 DEF LogInv, HandledIsLogged
    <3>2. ~(r.from = s.from /\ r.no < s.no)
      BY <1>0, <1>1, <1>6, <2>2 DEF LogTypes, Records
    <3>3. p \in DOMAIN log' /\ LinesOf(s)' = {p} /\ s \in shown'
      BY <1>3, <1>7, <1>10, <2>2, <3>1 DEF LogInv, HandledIsLogged
    <3>4. \A e \in handled' : e.from = s.from /\ e.no < s.no => \A q \in LinesOf(e)' : q < p
      BY <1>3, <1>10, <3>1, <3>2
    <3>5. QED
      BY <3>3, <3>4
  <2>3. QED
    BY <1>3, <2>1, <2>2
<1>12. QED
  BY <1>4, <1>5, <1>8, <1>11 DEF LogInv

(* and a write that fails, part of the line written or none, *)
LEMMA LogInvFails ==
  ASSUME LogInv, NEW g \in Loggers, FileFails(g)
  PROVE  LogInv'
<1>0. LogTypes /\ HandleInv /\ LinesInv
  BY DEF LogInv
<1>1. UNCHANGED <<count, shown, handled>> /\ Return(g) /\ gpc[g] = "file"
  BY DEF FileFails
<1>2. HandleInv'
  BY <1>0, <1>1, ReturnTypes DEF LogTypes, HandleInv, Records
<1>3. CASE log' = log
  <2>1. LogTypes'
    BY <1>0, <1>1, <1>3, ReturnTypes DEF LogTypes
  <2>2. QED
    BY <1>1, <1>2, <1>3, <2>1, FileKept DEF LogInv
<1>4. CASE \E rank \in {rec[g].rank, NotAnEvent} : log' = Cut(rank)
  <2>1. rec[g].rank \in RankInfo..RankError
    BY <1>0, <1>1, EnabledRank DEF HandleInv
  <2>2. PICK rank \in (RankInfo..RankError) \cup {NotAnEvent} : log' = Cut(rank)
    BY <1>4, <2>1
  <2>3. LogTypes'
    BY <1>0, <1>1, <2>2, ReturnTypes, CutLines DEF LogTypes
  <2>4. LinesInv'
    <3>1. CASE LastOpen
      BY <1>0, <1>1, <2>2, <3>1, CutLines DEF LinesInv
    <3>2. CASE ~LastOpen
      BY <1>0, <1>1, <2>2, <3>2, CutLines DEF LinesInv
    <3>3. QED
      BY <3>1, <3>2
  <2>5. \A e \in handled : LinesOf(e)' = LinesOf(e)
    <3> SUFFICES ASSUME NEW e \in handled PROVE LinesOf(e)' = LinesOf(e)
      OBVIOUS
    <3>1. e # NoRecord
      BY <1>0, NoRecordAssumption DEF LogTypes
    <3>2. QED
      BY <1>0, <2>2, <3>1, CutLines DEF LinesOf
  <2>6. \A p \in DOMAIN log : p \in DOMAIN log'
    BY <1>0, <2>2, CutLines
  <2>7. HandledIsLogged'
    BY <1>1, <2>5, <2>6 DEF LogInv, HandledIsLogged
  <2>8. QED
    BY <1>2, <2>3, <2>4, <2>7 DEF LogInv
<1>5. QED
  BY <1>3, <1>4 DEF FileFails

(* all keep the invariant, as does every other step, *)
LEMMA LogInvNext == LogInv /\ [Next]_evars => LogInv'
<1> SUFFICES ASSUME LogInv, [Next]_evars PROVE LogInv'
  OBVIOUS
<1>1. CASE UNCHANGED <<gpc, rec, count, shown, log, handled>>
  <2>1. LogTypes' /\ HandleInv'
    BY <1>1 DEF LogInv, LogTypes, HandleInv
  <2>2. QED
    BY <1>1, <2>1, FileKept DEF LogInv
<1>2. CASE History \/ UNCHANGED evars
  BY <1>1, <1>2 DEF History, HistoryRefuses, HistoryBegins, Scan, HistoryEnds, ReadFails,
                    HistoryExits, evars
<1>3. QED
  BY <1>2, LogInvLog, LogInvConsole, LogInvFile, LogInvFails DEF Next, Handle

(* so that it holds throughout. *)
LEMMA LogInvCorrect == Spec => []LogInv
<1>1. Init => LogInv
  <2> SUFFICES ASSUME Init PROVE LogInv
    OBVIOUS
  <2>1. LogTypes
    BY EventLogAssumption DEF Init, LogTypes
  <2>2. DOMAIN log = {}
    BY DEF Init
  <2>3. HandleInv /\ LinesInv /\ HandledIsLogged
    BY <2>2 DEF Init, HandleInv, LinesInv, HandledIsLogged
  <2>4. QED
    BY <2>1, <2>3 DEF LogInv
<1>2. QED
  BY <1>1, LogInvNext, PTL DEF Spec

(* A record whose Handle returned no error is on the console and, whole    *)
(* and once, in the file, after what its goroutine had logged before.      *)
THEOREM HandledCorrect == Spec => []HandledIsLogged
BY LogInvCorrect, PTL DEF LogInv

-----------------------------------------------------------------------------
(* The ring buffer of `reptile history`.                                   *)

(* A remainder is an index into the ring, *)
LEMMA ModRange ==
  ASSUME NEW x \in Nat, NEW n \in Nat \ {0}
  PROVE  x % n \in 0..(n - 1)
BY SMT

(* and before the ring is full, it is the number itself. *)
LEMMA ModSmall ==
  ASSUME NEW x \in Nat, NEW n \in Nat \ {0}, x < n
  PROVE  x % n = x
BY SMT

(* The slots in use are the first ones, one per entry seen up to n. *)
RingOK(r) ==
  /\ DOMAIN r.ring = 0..(minInt(r.seen, r.n) - 1)
  /\ \A i \in DOMAIN r.ring : r.ring[i] \in Lines

(* The record's fields, spelled out. *)
ReaderShape(r) ==
  r = [pc |-> r.pc, min |-> r.min, n |-> r.n, pos |-> r.pos, seen |-> r.seen,
       ring |-> r.ring, out |-> r.out]

(* A reader is never behind an unfinished line: it would count it twice. *)
ReaderInv ==
  /\ ReaderShape(reader)
  /\ reader.pc \in {"idle", "scan", "done", "failed"}
  /\ reader.min \in RankInfo..RankError
  /\ reader.n \in 0..maxHistoryEntries
  /\ reader.pos \in 0..Len(log)
  /\ reader.seen \in 0..reader.pos
  /\ reader.out \in Seq(Lines)
  /\ RingOK(reader)
  /\ reader.pc = "scan" => reader.n # 0 /\ (LastOpen => reader.pos < Len(log))

(* The entries come from slots in use: none is read that was not written.  *)
LEMMA UnrolledType ==
  ASSUME NEW r, r.n \in Nat \ {0}, r.seen \in Nat, RingOK(r)
  PROVE  Unrolled(r) \in Seq(Lines)
<1>1. minInt(r.seen, r.n) \in Nat
  BY DEF minInt
<1>2. ASSUME NEW start \in Nat, start = (IF r.seen > r.n THEN r.seen % r.n ELSE 0),
             NEW i \in 1..minInt(r.seen, r.n)
      PROVE  r.ring[(start + i - 1) % r.n] \in Lines
  <2>1. i \in Nat /\ i >= 1 /\ i <= minInt(r.seen, r.n) /\ start + i - 1 \in Nat
    BY <1>1, <1>2
  <2>2. CASE r.seen > r.n
    <3>1. minInt(r.seen, r.n) = r.n
      BY <2>2 DEF minInt
    <3>2. (start + i - 1) % r.n \in 0..(r.n - 1)
      BY <2>1, ModRange
    <3>3. QED
      BY <3>1, <3>2 DEF RingOK
  <2>3. CASE ~(r.seen > r.n)
    <3>1. minInt(r.seen, r.n) = r.seen /\ start = 0
      BY <1>2, <2>3 DEF minInt
    <3>2. start + i - 1 < r.n /\ start + i - 1 < r.seen
      BY <2>1, <2>3, <3>1
    <3>3. (start + i - 1) % r.n = start + i - 1
      BY <2>1, <3>2, ModSmall
    <3>4. start + i - 1 \in 0..(minInt(r.seen, r.n) - 1)
      BY <2>1, <3>1, <3>2
    <3>5. QED
      BY <3>3, <3>4 DEF RingOK
  <2>4. QED
    BY <2>2, <2>3
<1>3. PICK start \in Nat : start = (IF r.seen > r.n THEN r.seen % r.n ELSE 0)
  <2>1. r.seen % r.n \in Nat
    BY ModRange
  <2>2. QED
    BY <2>1
<1>4. Unrolled(r) = [i \in 1..minInt(r.seen, r.n) |-> r.ring[(start + i - 1) % r.n]]
  BY <1>3 DEF Unrolled
<1>5. QED
  BY <1>1, <1>2, <1>3, <1>4

(* One more line read. *)
LEMMA ScannedOK ==
  ASSUME ReaderInv, reader.pc = "scan", NEW line \in Lines
  PROVE  /\ ReaderShape(Scanned(line)) /\ RingOK(Scanned(line))
         /\ Scanned(line).pc = "scan" /\ Scanned(line).min = reader.min
         /\ Scanned(line).n = reader.n /\ Scanned(line).out = reader.out
         /\ Scanned(line).pos = reader.pos + 1
         /\ Scanned(line).seen \in {reader.seen, reader.seen + 1}
<1>0. reader.seen \in Nat /\ reader.n \in Nat \ {0}
  BY DEF ReaderInv
<1>1. CASE IsEvent(line) /\ line.rank >= reader.min
  <2>1. PICK k : k = reader.seen % reader.n
    OBVIOUS
  <2>2. PICK ring : ring = [i \in DOMAIN reader.ring \cup {k} |->
                              IF i = k THEN line ELSE reader.ring[i]]
    OBVIOUS
  <2>3. Scanned(line) = [reader EXCEPT !.pos = reader.pos + 1, !.seen = reader.seen + 1,
                                       !.ring = ring]
    BY <1>1, <2>1, <2>2 DEF Scanned
  <2>4. Scanned(line) = [pc |-> reader.pc, min |-> reader.min, n |-> reader.n,
                         pos |-> reader.pos + 1, seen |-> reader.seen + 1,
                         ring |-> ring, out |-> reader.out]
    BY <2>3 DEF ReaderInv, ReaderShape
  <2>5. DOMAIN ring = 0..(minInt(reader.seen + 1, reader.n) - 1)
    <3>1. CASE reader.seen < reader.n
      <4>1. k = reader.seen
        BY <1>0, <2>1, <3>1, ModSmall
      <4>2. DOMAIN reader.ring = 0..(reader.seen - 1)
        BY <1>0, <3>1 DEF ReaderInv, RingOK, minInt
      <4>3. minInt(reader.seen + 1, reader.n) = reader.seen + 1
        BY <1>0, <3>1 DEF minInt
      <4>4. QED
        BY <1>0, <2>2, <4>1, <4>2, <4>3
    <3>2. CASE ~(reader.seen < reader.n)
      <4>1. k \in 0..(reader.n - 1)
        BY <1>0, <2>1, ModRange
      <4>2. DOMAIN reader.ring = 0..(reader.n - 1)
        BY <1>0, <3>2 DEF ReaderInv, RingOK, minInt
      <4>3. minInt(reader.seen + 1, reader.n) = reader.n
        BY <1>0, <3>2 DEF minInt
      <4>4. QED
        BY <2>2, <4>1, <4>2, <4>3
    <3>3. QED
      BY <3>1, <3>2
  <2>6. \A i \in DOMAIN ring : ring[i] \in Lines
    BY <2>2 DEF ReaderInv, RingOK
  <2>7. QED
    BY <2>4, <2>5, <2>6 DEF RingOK, ReaderShape
<1>2. CASE ~(IsEvent(line) /\ line.rank >= reader.min)
  <2>1. Scanned(line) = [reader EXCEPT !.pos = reader.pos + 1]
    BY <1>2 DEF Scanned
  <2>2. Scanned(line) = [pc |-> reader.pc, min |-> reader.min, n |-> reader.n,
                         pos |-> reader.pos + 1, seen |-> reader.seen,
                         ring |-> reader.ring, out |-> reader.out]
    BY <2>1 DEF ReaderInv, ReaderShape
  <2>3. RingOK(reader)
    BY DEF ReaderInv
  <2>4. PICK s : s = Scanned(line)
    OBVIOUS
  <2>5. s.ring = reader.ring /\ s.seen = reader.seen /\ s.n = reader.n
    BY <2>2, <2>4
  <2>6. RingOK(s)
    BY <2>3, <2>5 DEF RingOK
  <2>7. QED
    BY <2>2, <2>4, <2>6 DEF ReaderShape
<1>3. QED
  BY <1>1, <1>2

(* A reader that is not reading. *)
LEMMA NoReaderOK ==
  ASSUME NEW r, NEW pc \in {"idle", "failed"}, r = [NoReader EXCEPT !.pc = pc], reader' = r,
         log' \in Seq(Lines)
  PROVE  ReaderInv'
<1>1. r = [pc |-> pc, min |-> 0, n |-> 0, pos |-> 0, seen |-> 0, ring |-> <<>>, out |-> <<>>]
  BY DEF NoReader
<1>2. <<>> \in Seq(Lines) /\ DOMAIN <<>> = {}
  OBVIOUS
<1>3. RingOK(r)
  BY <1>1, <1>2 DEF RingOK, minInt
<1>4. Len(log') \in Nat
  OBVIOUS
<1>5. ReaderShape(r)
  BY <1>1 DEF ReaderShape
<1>6. 0 \in RankInfo..RankError /\ 0 \in 0..maxHistoryEntries /\ 0 \in 0..Len(log')
      /\ 0 \in 0..0
  BY <1>4, EventLogAssumption DEF RankInfo, RankError
<1>7. ReaderShape(reader') /\ RingOK(reader')
  BY <1>3, <1>5
<1>8. /\ reader'.pc = pc /\ reader'.min = 0 /\ reader'.n = 0 /\ reader'.pos = 0
      /\ reader'.seen = 0 /\ reader'.out = <<>>
  BY <1>1
<1>9. QED
  BY <1>2, <1>6, <1>7, <1>8 DEF ReaderInv, ReaderShape, RingOK

(* The file only grows, and only past what a reader has read. *)
LEMMA LogGrows ==
  ASSUME LogInv, NEW g \in Loggers, (\E rank \in Ranks : Log(g, rank)) \/ Handle(g)
  PROVE  /\ reader' = reader /\ log' \in Seq(Lines) /\ Len(log) <= Len(log')
         /\ LastOpen' => LastOpen \/ Len(log) < Len(log')
<1>0. LogTypes /\ HandleInv /\ LinesInv
  BY DEF LogInv
<1>1. CASE reader' = reader /\ log' = log
  BY <1>0, <1>1 DEF LogTypes, LastOpen
<1>2. CASE FileWrites(g)
  <2>1. rec[g] \in Records /\ rec[g].rank \in RankInfo..RankError
    BY <1>0, <1>2, EnabledRank DEF FileWrites, HandleInv
  <2>2. QED
    BY <1>0, <1>2, <2>1, WrittenLines DEF FileWrites, LastOpen
<1>3. ASSUME NEW rank \in {rec[g].rank, NotAnEvent}, log' = Cut(rank), FileFails(g)
      PROVE  /\ reader' = reader /\ log' \in Seq(Lines) /\ Len(log) <= Len(log')
             /\ LastOpen' => LastOpen \/ Len(log) < Len(log')
  <2>1. rank \in (RankInfo..RankError) \cup {NotAnEvent}
    BY <1>0, <1>3, EnabledRank DEF FileFails, HandleInv
  <2>2. log' \in Seq(Lines) /\ Len(log) <= Len(log')
    BY <1>0, <1>3, <2>1, CutLines
  <2>3. ~LastOpen => Len(log) < Len(log')
    BY <1>0, <1>3 DEF Cut, LogTypes
  <2>4. QED
    BY <1>3, <2>2, <2>3 DEF FileFails
<1>4. QED
  BY <1>1, <1>2, <1>3 DEF Log, Handle, ConsoleWrites, ConsoleFails, FileFails

(* Every step, of the reader or of a logger, keeps the ring. *)
LEMMA ReaderStep == LogInv /\ ReaderInv /\ [Next]_evars => ReaderInv'
<1> SUFFICES ASSUME LogInv, ReaderInv, [Next]_evars PROVE ReaderInv'
  OBVIOUS
<1>0. log \in Seq(Lines)
  BY DEF LogInv, LogTypes
<1>1. ASSUME NEW g \in Loggers, (\E rank \in Ranks : Log(g, rank)) \/ Handle(g)
      PROVE  ReaderInv'
  BY <1>0, <1>1, LogGrows DEF ReaderInv
<1>2. CASE UNCHANGED evars
  BY <1>2 DEF evars, ReaderInv, LastOpen
<1>3. ASSUME NEW n, HistoryRefuses(n) PROVE ReaderInv'
  BY <1>0, <1>3, NoReaderOK DEF HistoryRefuses
<1>4. CASE ReadFails
  BY <1>0, <1>4, NoReaderOK DEF ReadFails
<1>5. CASE HistoryExits
  <2>1. NoReader = [NoReader EXCEPT !.pc = "idle"]
    BY DEF NoReader
  <2>2. QED
    BY <1>0, <1>5, <2>1, NoReaderOK DEF HistoryExits
<1>6. ASSUME NEW n, NEW min \in RankInfo..RankError, HistoryBegins(n, min) PROVE ReaderInv'
  <2>1. reader' = [pc |-> IF n = 0 THEN "done" ELSE "scan", min |-> min, n |-> n, pos |-> 0,
                   seen |-> 0, ring |-> <<>>, out |-> <<>>]
    BY <1>6 DEF HistoryBegins, NoReader
  <2>2. <<>> \in Seq(Lines) /\ DOMAIN <<>> = {}
    OBVIOUS
  <2>3. n \in 0..maxHistoryEntries /\ log' = log
    BY <1>6 DEF HistoryBegins
  <2>4. RingOK(reader')
    BY <2>1, <2>2, <2>3, EventLogAssumption DEF RingOK, minInt
  <2>5. LastOpen' => 0 < Len(log')
    BY <1>0, <2>3 DEF LastOpen
  <2>6. ReaderShape(reader')
    BY <2>1 DEF ReaderShape
  <2>7. QED
    BY <1>0, <2>1, <2>2, <2>3, <2>4, <2>5, <2>6 DEF ReaderInv, ReaderShape, RingOK
<1>7. CASE Scan
  <2>1. log[reader.pos + 1] \in Lines /\ reader.pos + 1 \in 1..Len(log)
    BY <1>0, <1>7 DEF Scan, ReaderInv
  <2>2. LastOpen => reader.pos + 1 < Len(log)
    BY <1>0, <1>7, <2>1 DEF Scan, LastOpen
  <2>3. reader' = Scanned(log[reader.pos + 1]) /\ log' = log /\ reader.pc = "scan"
    BY <1>7 DEF Scan
  <2>4. /\ ReaderShape(reader') /\ RingOK(reader') /\ reader'.pc = "scan"
        /\ reader'.min = reader.min /\ reader'.n = reader.n /\ reader'.out = reader.out
        /\ reader'.pos = reader.pos + 1 /\ reader'.seen \in {reader.seen, reader.seen + 1}
    BY <2>1, <2>3, ScannedOK
  <2>5. reader'.pos \in 0..Len(log') /\ reader'.seen \in 0..reader'.pos
    BY <2>1, <2>3, <2>4 DEF ReaderInv
  <2>6. LastOpen' => reader'.pos < Len(log')
    BY <2>2, <2>3, <2>4 DEF LastOpen
  <2>7. QED
    BY <2>3, <2>4, <2>5, <2>6 DEF ReaderInv, ReaderShape, RingOK
<1>8. CASE HistoryEnds
  <2>1. PICK r : /\ r = (IF LastOpen THEN Scanned(log[Len(log)]) ELSE reader)
                 /\ reader' = [r EXCEPT !.pc = "done", !.out = Unrolled(r)]
    BY <1>8 DEF HistoryEnds
  <2>2. reader.pc = "scan" /\ log' = log
    BY <1>8 DEF HistoryEnds
  <2>3. /\ ReaderShape(r) /\ RingOK(r) /\ r.min = reader.min /\ r.n = reader.n
        /\ r.pos \in 0..Len(log) /\ r.seen \in 0..r.pos
    <3>1. CASE LastOpen
      <4>1. log[Len(log)] \in Lines /\ reader.pos + 1 = Len(log)
        BY <1>0, <1>8, <3>1 DEF HistoryEnds, ReaderInv, LastOpen
      <4>2. QED
        BY <1>0, <2>1, <2>2, <3>1, <4>1, ScannedOK DEF ReaderInv
    <3>2. CASE ~LastOpen
      BY <2>1, <3>2 DEF ReaderInv
    <3>3. QED
      BY <3>1, <3>2
  <2>4. Unrolled(r) \in Seq(Lines)
    BY <1>0, <2>2, <2>3, UnrolledType DEF ReaderInv
  <2>5. reader' = [pc |-> "done", min |-> r.min, n |-> r.n, pos |-> r.pos, seen |-> r.seen,
                   ring |-> r.ring, out |-> Unrolled(r)]
    BY <2>1, <2>3 DEF ReaderShape
  <2>6. ReaderShape(reader') /\ RingOK(reader')
    BY <2>3, <2>5 DEF ReaderShape, RingOK
  <2>7. QED
    BY <2>2, <2>3, <2>4, <2>5, <2>6 DEF ReaderInv, ReaderShape, RingOK
<1>9. QED
  BY <1>1, <1>2, <1>3, <1>4, <1>5, <1>6, <1>7, <1>8 DEF Next, History

(* The types; among them, that the ring buffer is only read where it was   *)
(* written, and never beyond its n slots.                                  *)
THEOREM TypeCorrect == Spec => []TypeOK
<1>1. Init => ReaderInv
  <2> SUFFICES ASSUME Init PROVE ReaderInv
    OBVIOUS
  <2>1. reader = [pc |-> "idle", min |-> 0, n |-> 0, pos |-> 0, seen |-> 0, ring |-> <<>>,
                  out |-> <<>>]
    BY DEF Init, NoReader
  <2>2. <<>> \in Seq(Lines) /\ DOMAIN <<>> = {} /\ Len(log) = 0
    BY DEF Init
  <2>3. RingOK(reader)
    BY <2>1, <2>2 DEF RingOK, minInt
  <2>4. QED
    BY <2>1, <2>2, <2>3, EventLogAssumption DEF ReaderInv, ReaderShape, RankInfo, RankError
<1>2. LogInv /\ ReaderInv => TypeOK
  BY DEF LogInv, LogTypes, ReaderInv, RingOK, TypeOK
<1>3. QED
  BY <1>1, <1>2, ReaderStep, LogInvCorrect, PTL DEF Spec
=============================================================================
