------------------------------- MODULE Killer -------------------------------
(***************************************************************************)
(* killTargets (internal/app/killer.go) called round after round by the    *)
(* watchdog, against a process table that changes under it: processes      *)
(* exit, are spawned (perhaps on a pid just freed) and rename themselves   *)
(* between any two steps.                                                  *)
(*                                                                         *)
(* A scan of /proc is one ReadDir and then one read of comm per entry, in  *)
(* directory order; the pool of signal workers handles the jobs in the     *)
(* order of that scan, any MaxWorkers of them at a time.  Here a scan and  *)
(* a pool take their entries in any order, which allows more.              *)
(***************************************************************************)
EXTENDS Naturals, FiniteSets

CONSTANTS
  Pids,
  Comms,         \* kernel comm names
  TargetLists,   \* the values of Config.Targets, as sets of comm names
  MaxWorkers     \* maxSignalWorkers

ASSUME KillerAssumption ==
  /\ TargetLists \subseteq SUBSET Comms
  /\ MaxWorkers \in Nat \ {0}

VARIABLES
  proc,       \* the process table: what runs under each pid
  cancelled,  \* ctx is done
  kpc,        \* where killTargets is
  targets,    \* want: the targets of this round
  listing,    \* entries of ReadDir whose comm is still to be read
  found,      \* the matching processes read so far: <<pid, comm>> pairs
  sig,        \* the signal being sent
  jobs,       \* processes no worker has taken yet
  busy,       \* processes in the hands of a worker
  names,      \* the names to return
  failures,   \* the failures to return
  due         \* history: processes that have been matching targets ever
              \* since the latest scan began

world == <<proc, cancelled>>
round == <<kpc, targets, listing, found, sig, jobs, busy, names, failures>>
kvars == <<world, round, due>>

(* What a process does when signalled: "meek" ends on SIGTERM, "stubborn"  *)
(* only on SIGKILL, and "denied" cannot be signalled (EPERM).              *)
Kinds == {"meek", "stubborn", "denied"}
Dead == [comm |-> "none", kind |-> "none"]
Processes == [comm: Comms, kind: Kinds]

KillerTypeOK ==
  /\ proc \in [Pids -> Processes \cup {Dead}]
  /\ cancelled \in BOOLEAN
  /\ kpc \in {"idle", "list", "read", "signal", "grace", "done"}
  /\ targets \in TargetLists \cup {{}}
  /\ listing \subseteq Pids
  /\ found \subseteq Pids \X Comms
  /\ sig \in {"SIGTERM", "SIGKILL"}
  /\ jobs \subseteq found
  /\ busy \subseteq found
  /\ names \subseteq Comms
  /\ failures \subseteq {"list", "signal"}
  /\ due \subseteq Pids

Alive(p) == proc[p] # Dead
IsTarget(p) == Alive(p) /\ proc[p].comm \in targets

-----------------------------------------------------------------------------
(* The process table. *)

Exit(p) ==
  /\ Alive(p)
  /\ proc' = [proc EXCEPT ![p] = Dead]
  /\ due' = due \ {p}
  /\ UNCHANGED <<cancelled, round>>

Spawn(p, new) ==
  /\ ~Alive(p)
  /\ proc' = [proc EXCEPT ![p] = new]
  /\ UNCHANGED <<cancelled, round, due>>

(* execve or PR_SET_NAME *)
Rename(p, comm) ==
  /\ Alive(p)
  /\ proc[p].comm # comm
  /\ proc' = [proc EXCEPT ![p].comm = comm]
  /\ due' = due \ {p}
  /\ UNCHANGED <<cancelled, round>>

Cancel ==
  /\ ~cancelled
  /\ cancelled' = TRUE
  /\ UNCHANGED <<proc, round, due>>

-----------------------------------------------------------------------------
(* A round.                                                                *)

(* The killer closure reads the targets from Live. *)
Begin(ts) ==
  /\ kpc = "idle"
  /\ kpc' = "list"
  /\ targets' = ts
  /\ sig' = "SIGTERM"
  /\ UNCHANGED <<world, listing, found, jobs, busy, names, failures, due>>

(* lister.List(): the entries of /proc at this moment. *)
ReadDir ==
  /\ kpc = "list"
  /\ kpc' = "read"
  /\ listing' = {p \in Pids : Alive(p)}
  /\ found' = {}
  /\ due' = {p \in Pids : IsTarget(p)}
  /\ UNCHANGED <<world, targets, sig, jobs, busy, names, failures>>

(* ReadDir fails: in the first scan nothing is known yet, in the second    *)
(* the names of the first are returned with the failure.                   *)
ReadDirFails ==
  /\ kpc = "list"
  /\ kpc' = "done"
  /\ failures' = failures \cup {"list"}
  /\ UNCHANGED <<world, targets, listing, found, sig, jobs, busy, names, due>>

(* The comm of one entry; one that has vanished is skipped. *)
ReadComm(p) ==
  /\ kpc = "read"
  /\ p \in listing
  /\ listing' = listing \ {p}
  /\ found' = IF IsTarget(p) THEN found \cup {<<p, proc[p].comm>>} ELSE found
  /\ UNCHANGED <<world, kpc, targets, sig, jobs, busy, names, failures, due>>

NamesOf(procs) == {f[2] : f \in procs}

(* The scan is complete.  Without a match the first one ends the round;    *)
(* only the first one determines the names.                                *)
Scanned ==
  /\ kpc = "read"
  /\ listing = {}
  /\ kpc' = IF found = {} /\ sig = "SIGTERM" THEN "done" ELSE "signal"
  /\ names' = IF sig = "SIGTERM" THEN NamesOf(found) ELSE names
  /\ jobs' = found
  /\ UNCHANGED <<world, targets, listing, found, sig, busy, failures, due>>

SmallerOf(m, n) == IF m < n THEN m ELSE n

(* signalProcesses: a worker takes a job from the channel ... *)
TakeJob(f) ==
  /\ kpc = "signal"
  /\ f \in jobs
  /\ Cardinality(busy) < SmallerOf(Cardinality(found), MaxWorkers)
  /\ jobs' = jobs \ {f}
  /\ busy' = busy \cup {f}
  /\ UNCHANGED <<world, kpc, targets, listing, found, sig, names, failures, due>>

DiesOf(p) == sig = "SIGKILL" \/ proc[p].kind = "meek"

(* Mutant: every error taken for ESRCH. *)
SignalIgnoresEPERM(f) ==
  LET p == f[1] IN
  /\ kpc = "signal"
  /\ f \in busy
  /\ busy' = busy \ {f}
  /\ IF Alive(p) /\ proc[p].kind # "denied" /\ DiesOf(p)
     THEN proc' = [proc EXCEPT ![p] = Dead] /\ due' = due \ {p}
     ELSE UNCHANGED <<proc, due>>
  /\ UNCHANGED <<failures, cancelled, kpc, targets, listing, found, sig, jobs, names>>
(* ... and calls kill(2) on its pid, whatever runs under it by now.  ESRCH *)
(* is no failure; any other error (EPERM) is.                              *)
Signal(f) ==
  LET p == f[1] IN
  /\ kpc = "signal"
  /\ f \in busy
  /\ busy' = busy \ {f}
  /\ failures' = IF Alive(p) /\ proc[p].kind = "denied"
                 THEN failures \cup {"signal"} ELSE failures
  /\ IF Alive(p) /\ proc[p].kind # "denied" /\ DiesOf(p)
     THEN proc' = [proc EXCEPT ![p] = Dead] /\ due' = due \ {p}
     ELSE UNCHANGED <<proc, due>>
  /\ UNCHANGED <<cancelled, kpc, targets, listing, found, sig, jobs, names>>

(* Mutant: without wg.Wait(). *)
JoinedEarly ==
  /\ kpc = "signal"
  /\ jobs = {}
  /\ kpc' = IF sig = "SIGTERM" THEN "grace" ELSE "done"
  /\ UNCHANGED <<world, targets, listing, found, sig, jobs, busy, names, failures, due>>
(* wg.Wait() *)
Joined ==
  /\ kpc = "signal"
  /\ jobs = {} /\ busy = {}
  /\ kpc' = IF sig = "SIGTERM" THEN "grace" ELSE "done"
  /\ UNCHANGED <<world, targets, listing, found, sig, jobs, busy, names, failures, due>>

(* Mutant: no SIGKILL phase. *)
GraceEndsRound ==
  /\ kpc = "grace"
  /\ kpc' = "done"
  /\ UNCHANGED <<world, targets, listing, found, sig, jobs, busy, names, failures, due>>
(* The grace period is over: survivors and replacements get SIGKILL. *)
GraceEnds ==
  /\ kpc = "grace"
  /\ kpc' = "list"
  /\ sig' = "SIGKILL"
  /\ UNCHANGED <<world, targets, listing, found, jobs, busy, names, failures, due>>

(* ctx.Done() in the grace period: the round ends without SIGKILL. *)
GraceCancelled ==
  /\ kpc = "grace"
  /\ cancelled
  /\ kpc' = "done"
  /\ UNCHANGED <<world, targets, listing, found, sig, jobs, busy, names, failures, due>>

(* The watchdog logs the failures and polls on. *)
Finish ==
  /\ kpc = "done"
  /\ kpc' = "idle"
  /\ targets' = {} /\ sig' = "SIGTERM" /\ found' = {} /\ listing' = {} /\ jobs' = {}
  /\ names' = {} /\ failures' = {} /\ due' = {}
  /\ UNCHANGED <<world, busy>>

-----------------------------------------------------------------------------
KillerInit ==
  /\ proc \in [Pids -> Processes \cup {Dead}]
  /\ cancelled = FALSE
  /\ kpc = "idle"
  /\ targets = {} /\ sig = "SIGTERM" /\ found = {} /\ listing = {} /\ jobs = {}
  /\ busy = {} /\ names = {} /\ failures = {} /\ due = {}

World ==
  \/ \E p \in Pids : \/ Exit(p)
                     \/ \E new \in Processes : Spawn(p, new)
                     \/ \E comm \in Comms : Rename(p, comm)
  \/ Cancel

KillRound ==
  \/ \E ts \in TargetLists : Begin(ts)
  \/ ReadDir \/ ReadDirFails \/ (\E p \in Pids : ReadComm(p)) \/ Scanned
  \/ \E f \in found : TakeJob(f) \/ Signal(f)
  \/ Joined \/ GraceEnds \/ GraceCancelled \/ Finish

KillerNext == World \/ KillRound

KillerSpec == KillerInit /\ [][KillerNext]_kvars

(* In an outage the watchdog starts round after round; a round's steps are *)
(* its own goroutines' steps and the grace timer's; and neither scan of    *)
(* /proc fails for ever.                                                   *)
Fairness ==
  /\ WF_kvars(KillRound)
  /\ \A s \in {"SIGTERM", "SIGKILL"} : SF_kvars(ReadDir /\ sig = s)

FairSpec == KillerSpec /\ Fairness

-----------------------------------------------------------------------------
(* No silent survivor: a round that ran to its end and reports no failure  *)
(* has removed every process that was a target all along since its last    *)
(* scan began - whatever exited, started or was renamed meanwhile.         *)
NoSilentSurvivor ==
  kpc = "done" /\ ~cancelled /\ failures = {} => due = {}

(* "processes started mid-outage die too" (README): while rounds go on, a  *)
(* process with a target's name that may be signalled is not left alone,   *)
(* whenever it was started.                                                *)
OutageReapsTargets ==
  [](~cancelled) =>
    \A p \in Pids : \A comm \in Comms :
      (\A ts \in TargetLists : comm \in ts) =>
        ((Alive(p) /\ proc[p].comm = comm /\ proc[p].kind # "denied")
           ~> ~(Alive(p) /\ proc[p].comm = comm))
=============================================================================
