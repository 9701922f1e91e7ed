------------------------------ MODULE EventLog ------------------------------
(***************************************************************************)
(* The daemon's log and `reptile history`: fanoutHandler.Handle            *)
(* (fanout.go) hands each record to the console sink and then to the log   *)
(* file's (consoleHandler.Handle, handler.go); ReadRecentEvents            *)
(* (history.go) streams the file through a ring buffer while the daemon    *)
(* may go on writing it.                                                   *)
(*                                                                         *)
(* A record is known by its goroutine, its number there and its level.  A  *)
(* line of the file is known by the level parseEvent finds in it and by    *)
(* the record whose whole text it holds: a write cut short (a full disk)   *)
(* leaves a line without its end, and the next record ends that line.      *)
(***************************************************************************)
EXTENDS Integers, Sequences

CONSTANTS
  Loggers,           \* goroutines of the daemon
  MaxRecords,        \* bound on the records of each
  Ranks,             \* their levels; below RankInfo is DEBUG
  Counts,            \* the values -n is given
  maxHistoryEntries,
  NoRecord

RankInfo == 0
RankError == 2

ASSUME EventLogAssumption ==
  /\ MaxRecords \in Nat
  /\ Ranks \subseteq Int /\ \A r \in Ranks : r <= RankError
  /\ Counts \subseteq Int
  /\ maxHistoryEntries \in Nat

VARIABLES
  gpc,      \* where each goroutine is in fanoutHandler.Handle
  rec,      \* the record it is handling
  count,    \* how many it has logged
  shown,    \* the records on the console
  log,      \* the lines of the log file
  handled,  \* history: the records whose Handle returned nil
  reader    \* a `reptile history`

evars == <<gpc, rec, count, shown, log, handled, reader>>

Records == [from: Loggers, no: 1..MaxRecords, rank: Ranks]
ASSUME NoRecordAssumption == NoRecord \notin Records

NotAnEvent == RankInfo - 1
Lines == [rank: (RankInfo..RankError) \cup {NotAnEvent}, rec: Records \cup {NoRecord}, open: BOOLEAN]

NoReader == [pc |-> "idle", min |-> 0, n |-> 0, pos |-> 0, seen |-> 0,
             ring |-> <<>>, out |-> <<>>]

TypeOK ==
  /\ gpc \in [Loggers -> {"idle", "console", "file"}]
  /\ rec \in [Loggers -> Records \cup {NoRecord}]
  /\ count \in [Loggers -> 0..MaxRecords]
  /\ shown \subseteq Records
  /\ log \in Seq(Lines)
  /\ handled \subseteq Records
  /\ reader.pc \in {"idle", "scan", "done", "failed"}
  /\ reader.min \in RankInfo..RankError
  /\ reader.n \in 0..maxHistoryEntries
  /\ reader.pos \in 0..Len(log)
  /\ reader.seen \in 0..reader.pos
  /\ \A i \in DOMAIN reader.ring : reader.ring[i] \in Lines
  /\ reader.out \in Seq(Lines)

-----------------------------------------------------------------------------
(* Logging.                                                                *)

Enabled(rank) == rank >= RankInfo

(* slog.Info and so on: a record no sink is enabled for goes nowhere.      *)
Log(g, rank) ==
  /\ gpc[g] = "idle"
  /\ count[g] < MaxRecords
  /\ count' = [count EXCEPT ![g] = @ + 1]
  /\ IF Enabled(rank)
       THEN /\ gpc' = [gpc EXCEPT ![g] = "console"]
            /\ rec' = [rec EXCEPT ![g] = [from |-> g, no |-> count'[g], rank |-> rank]]
       ELSE UNCHANGED <<gpc, rec>>
  /\ UNCHANGED <<shown, log, handled, reader>>

ConsoleWrites(g) ==
  /\ gpc[g] = "console"
  /\ gpc' = [gpc EXCEPT ![g] = "file"]
  /\ shown' = shown \cup {rec[g]}
  /\ UNCHANGED <<rec, count, log, handled, reader>>

Return(g) ==
  /\ gpc' = [gpc EXCEPT ![g] = "idle"]
  /\ rec' = [rec EXCEPT ![g] = NoRecord]

(* Mutant: an error does not end the loop, and is lost. *)
ConsoleErrorIgnored(g) ==
  /\ gpc[g] = "console"
  /\ gpc' = [gpc EXCEPT ![g] = "file"]
  /\ UNCHANGED <<rec, count, shown, log, handled, reader>>
(* The first error ends Handle: the file does not get the record.          *)
ConsoleFails(g) ==
  /\ gpc[g] = "console"
  /\ Return(g)
  /\ UNCHANGED <<count, shown, log, handled, reader>>

LastOpen == log # <<>> /\ log[Len(log)].open

(* What writing a whole line does: behind an unfinished line it ends that. *)
Written(r) ==
  IF LastOpen
    THEN [log EXCEPT ![Len(log)].rec = r, ![Len(log)].open = FALSE]
    ELSE Append(log, [rank |-> r.rank, rec |-> r, open |-> FALSE])

(* One WriteString under the sink's mutex. *)
FileWrites(g) ==
  /\ gpc[g] = "file"
  /\ log' = Written(rec[g])
  /\ handled' = handled \cup {rec[g]}
  /\ Return(g)
  /\ UNCHANGED <<count, shown, reader>>

(* What the beginning of a line does: cut within time and level it makes   *)
(* no event, cut behind them it is one.                                    *)
Cut(rank) ==
  IF LastOpen THEN log
              ELSE Append(log, [rank |-> rank, rec |-> NoRecord, open |-> TRUE])

(* It fails, having written nothing or a part. *)
FileFails(g) ==
  /\ gpc[g] = "file"
  /\ \/ log' = log
     \/ \E rank \in {rec[g].rank, NotAnEvent} : log' = Cut(rank)
  /\ Return(g)
  /\ UNCHANGED <<count, shown, handled, reader>>

-----------------------------------------------------------------------------
(* `reptile history -n n -level min`.                                      *)

(* n is out of range.  An invalid -level, or no log file, ends likewise.   *)
HistoryRefuses(n) ==
  /\ reader.pc = "idle"
  /\ n < 0 \/ n > maxHistoryEntries
  /\ reader' = [NoReader EXCEPT !.pc = "failed"]
  /\ UNCHANGED <<gpc, rec, count, shown, log, handled>>

(* Mutant: without the check of its argument. *)
HistoryBeginsUnchecked(n, min) ==
  /\ reader.pc = "idle"
  /\ reader' = [NoReader EXCEPT !.pc = IF n = 0 THEN "done" ELSE "scan",
                                !.n = n, !.min = min]
  /\ UNCHANGED <<gpc, rec, count, shown, log, handled>>
HistoryBegins(n, min) ==
  /\ reader.pc = "idle"
  /\ n \in 0..maxHistoryEntries
  /\ reader' = [NoReader EXCEPT !.pc = IF n = 0 THEN "done" ELSE "scan",
                                !.n = n, !.min = min]
  /\ UNCHANGED <<gpc, rec, count, shown, log, handled>>

(* parseEvent's second result. *)
IsEvent(line) == line.rank # NotAnEvent

(* ring[seen % n] = entry, for an event at or above min. *)
Scanned(line) ==
  IF IsEvent(line) /\ line.rank >= reader.min
    THEN [reader EXCEPT
            !.pos = @ + 1, !.seen = @ + 1,
            !.ring = [i \in DOMAIN @ \cup {reader.seen % reader.n} |->
                        IF i = reader.seen % reader.n THEN line ELSE @[i]]]
    ELSE [reader EXCEPT !.pos = @ + 1]

Scan ==
  /\ reader.pc = "scan"
  /\ reader.pos < Len(log)
  /\ ~log[reader.pos + 1].open
  /\ reader' = Scanned(log[reader.pos + 1])
  /\ UNCHANGED <<gpc, rec, count, shown, log, handled>>

minInt(a, b) == IF a < b THEN a ELSE b

(* Mutant: the oldest entry taken to be the first of the ring. *)
UnrolledFromZero(r) ==
  [i \in 1..minInt(r.seen, r.n) |-> r.ring[i - 1]]
(* The entries, oldest first. *)
Unrolled(r) ==
  LET start == IF r.seen > r.n THEN r.seen % r.n ELSE 0
  IN  [i \in 1..minInt(r.seen, r.n) |-> r.ring[(start + i - 1) % r.n]]

(* End of file.  The scanner also returns a last line without its end.     *)
HistoryEnds ==
  /\ reader.pc = "scan"
  /\ \/ reader.pos = Len(log)
     \/ reader.pos + 1 = Len(log) /\ LastOpen
  /\ LET r == IF LastOpen THEN Scanned(log[Len(log)]) ELSE reader
     IN  reader' = [r EXCEPT !.pc = "done", !.out = Unrolled(r)]
  /\ UNCHANGED <<gpc, rec, count, shown, log, handled>>

(* An I/O error, or a line of more than 4 MB. *)
ReadFails ==
  /\ reader.pc = "scan"
  /\ reader' = [NoReader EXCEPT !.pc = "failed"]
  /\ UNCHANGED <<gpc, rec, count, shown, log, handled>>

(* Rendered; the process exits, and another may be run. *)
HistoryExits ==
  /\ reader.pc \in {"done", "failed"}
  /\ reader' = NoReader
  /\ UNCHANGED <<gpc, rec, count, shown, log, handled>>

-----------------------------------------------------------------------------
Init ==
  /\ gpc = [g \in Loggers |-> "idle"]
  /\ rec = [g \in Loggers |-> NoRecord]
  /\ count = [g \in Loggers |-> 0]
  /\ shown = {}
  /\ log = <<>>
  /\ handled = {}
  /\ reader = NoReader

Handle(g) == ConsoleWrites(g) \/ ConsoleFails(g) \/ FileWrites(g) \/ FileFails(g)

History ==
  \/ \E n \in Counts : HistoryRefuses(n) \/ \E min \in RankInfo..RankError : HistoryBegins(n, min)
  \/ Scan \/ HistoryEnds \/ ReadFails \/ HistoryExits

Next ==
  \/ \E g \in Loggers : (\E rank \in Ranks : Log(g, rank)) \/ Handle(g)
  \/ History

Spec == Init /\ [][Next]_evars

-----------------------------------------------------------------------------
(* The lines of the file that hold a record. *)
LinesOf(r) == {p \in DOMAIN log : log[p].rec = r}

(* fanoutHandler "fans each record out to every handler": a record whose   *)
(* Handle returned no error is on the console and, whole and once, in the  *)
(* file, after what its goroutine had logged before, whatever other        *)
(* goroutines wrote and whichever writes failed.  A failing console costs  *)
(* the file its record, but never without an error.                        *)
HandledIsLogged ==
  \A r \in handled :
    /\ r \in shown
    /\ \E p \in DOMAIN log :
         /\ LinesOf(r) = {p}
         /\ \A e \in handled : e.from = r.from /\ e.no < r.no =>
              \A q \in LinesOf(e) : q < p

ParseEvents(lines) == SelectSeq(lines, IsEvent)
FilterMin(entries, min) == LET Keep(e) == e.rank >= min IN SelectSeq(entries, Keep)
LastN(s, n) == SubSeq(s, Len(s) - minInt(n, Len(s)) + 1, Len(s))

(* `reptile history` shows "the last n entries at or above min"            *)
(* (ReadRecentEvents), oldest first, of the file as it is when its end is  *)
(* reached, although the ring buffer has been filled one entry at a time   *)
(* while the daemon was writing.                                           *)
HistoryIsTheTail ==
  [][reader.pc = "scan" /\ reader'.pc = "done" =>
       reader'.out = LastN(FilterMin(ParseEvents(log), reader.min), reader.n)]_evars
=============================================================================
