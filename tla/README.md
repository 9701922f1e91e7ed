# reptile: formal models, model checking and proofs

reptile is a kill switch for WireGuard hosts. A daemon polls the tunnel, proves
where it exits, and kills a list of processes when either fails; an agent socket
serves the status, forces probes and reloads the configuration; a CLI edits the
configuration file; an nftables ruleset blocks traffic outside the tunnel.
This directory holds TLA+ models of its concurrent and stateful parts, TLC
configurations that check them, and TLAPS proofs of their safety properties.
All source paths below are relative to `internal/app/`.

## Inventory

| Component | State | Operations | Correct when |
|---|---|---|---|
| Watchdog (`watchdog.go`) | streak, last announcement, configuration snapshot, heartbeat ticker | poll, heartbeat, stop | kill() is reached exactly after `down_cycles_to_kill` unsafe polls in a row, keeps being reached while the outage lasts, and recovery ends it |
| Live (`live.go`) | the running configuration | Get, Set | a poll is judged under the one configuration it ran under |
| Status store (`agent.go`) | state, streak, reason, exit | Set, SetProbe, Snapshot | a forced probe never disturbs the streak; replies are what was found |
| Tunnel checker (`tunnel.go`) | interface, maximum age, ping target, mutex | Check, Apply | alive iff some handshake is recent, to within a second |
| Egress checker (`egress.go`) | expectations, cached verdict with TTL, last exit, mutex | evaluate, Invalidate, Apply, Proof | no OK without a matching observation of the current session, under the current expectations, less than TTL old |
| Killer (`killer.go`) | scan, job channel, workers, failures | killTargets | no target survives a round silently; none survives an outage |
| Daemon (`main.go`) | the above, shared by the poll loop and up to 16 agent handlers | poll closures, probeNow, reload | the interleavings preserve what each part promises |
| Configuration file (`config.go`, `config_ops.go`, `runConfig`) | file, temporary file | `config set`, load, reload | the file always loads; what needs a restart is said |
| Agent server and client (`agent.go`) | listener, 16 slots, socket path, one connection per request | Listen, Serve, handle, Close, Query | every query returns, no slot is leaked or held for ever, replies are fresh, a daemon started alone owns the socket |
| Firewall (`firewall.go`, `runFirewall`) | nft table | up, down | "engaged" means that the table is there with the rules of the files read |
| History (`history.go`, `runHistory`) | ring buffer | ReadRecentEvents | the last n matching entries in order |
| Log handlers (`handler.go`, `fanout.go`) | two sinks | Handle | a record handled without an error is in every sink, whole |
| Installer (`install.go`) | files, units | install | "installed" means complete; the unit it activates tells the truth about the table |
| Dialer, version, flags | none | | |

Goroutines meet in four places, each with its own lock: Live (RWMutex), the
store, the tunnel checker and the egress checker. The egress checker holds its
mutex across HTTP and DNS calls, the tunnel checker across `wg show`. Nothing
spans two locks, so every sequence that touches two of them (a reload, a probe,
a failed tunnel check followed by an invalidation, a verdict followed by a read
of its exit) can be interleaved. These sequences are the hard part of the
program, with wall-clock time, a process table that changes between scan and
signal, processes that share a socket path, an nft table or a file without any
lock, and crashes in the middle of saving a file. `PROJECT.json` lists the
hazards one by one, at their lines.

## Modules

| Module | Models | Notes |
|---|---|---|
| `Watchdog` | `cycle`, `runWatchdog`, `Live`, `Store.Set/SetProbe` | The closures' answers are free. Abstract specification of the poll loop |
| `EgressChecker` | all of `egress.go` | Any goroutines in `Procs`. Abstract specification of the checker |
| `Daemon` | `runDaemon`, `probeNow`, `makeReloader` | Instantiates both and supplies the real closures; implements both specifications |
| `TunnelChecker` | `tunnel.go` | `Daemon` uses its outcome as one step |
| `Killer` | `killer.go`, the killer closure | Rounds against a changing process table |
| `ConfigFile` | `config set`, load, validate, reload report | Inodes, so that sharing one temporary name matters |
| `AgentServer` | the server and client of `agent.go` | Daemons that overlap and crash, clients and strangers on one socket path; both ends of each connection |
| `EventLog` | `fanout.go`, `handler.go`, `history.go`, `runHistory` | Concurrent loggers, writes that fail or are cut short, a reader of the growing file |
| `Firewall` | `firewall.go`, `runFirewall` | Actions of any number of `reptile firewall` processes; no specification of its own |
| `Install` | `install.go` | Extends `Firewall`: the installer, systemd's jobs for the firewall unit, the operator's commands and edits, reboots |
| `WatchdogProofs`, `EgressCheckerProofs`, `ConfigFileProofs`, `AgentServerProofs`, `EventLogProofs`, `InstallProofs` | | TLAPS proofs about the module of that name; `InstallProofs` also about `Firewall` |
| `HostProofs` | | proofs about `TunnelChecker` and about `Killer`, the two components that deal with the host |
| `DaemonProofs` | | the refinements, what is proved of the parts carried over to the daemon, and what no part keeps alone |
| `MC*` | | Values of the constants for TLC |

State and actions follow the code: a variable per field or group of locals, a
program counter per goroutine, one action per stretch of code between two points
at which another goroutine (or the kernel, or a crash) can get in. A stretch
under a mutex is one action; `evaluate`, which calls the network under its
mutex, is several actions during which the mutex is held. History variables
(`recent`, `due`, `outdated`, `overtaken`, ...) are written and never read by the
actions; properties refer to them.

What is abstracted: durations (the tickers may fire at any time), texts (a
failure's reason is the check it came from), patterns (what they extract is
free), configuration values (only the distinctions the code branches on),
logging. `"none"` stands for Go's empty string. A configuration in Live has passed
`Validate`, so the branches that handle unparsable durations are unreachable and
left out, as are the error returns of both `Apply`.

In `Daemon`, one restart-only key (the interface) stands for the three, and a
reload that fails to load leaves everything as it was. `wg show` always answers;
a cancelled context may turn its answer into a failure. The process ends when
the poll loop returns, and the handlers with it.

In `AgentServer` the status, the network and the configuration file are one
version number, and a reply is known by the version it was made from: how the
requests work is `Daemon`'s matter. A daemon is a process that runs Listen,
Serve and Close; Go's `ln.Close()` unlinks the path and `Close` removes it once
more, and both are actions because another daemon may bind in between. A busy
reply that meets a client still writing is lost and becomes a write error
(`SendFails`), as on a Unix socket. In `EventLog` a line is the level `parseEvent`
finds in it and the record it holds in full. In `Firewall` a ruleset is the set of
its accept rules, since its policy never changes, and one nft run is one
transaction. In `Install`, systemd is modelled from the unit file's `Type=oneshot`,
`RemainAfterExit=yes`, `ExecStart`, `ExecReload` and `ExecStop`; files are absent,
torn or whole; opening the binary for writing fails while it runs (`ETXTBSY`).

A definition preceded by a comment `Mutant: ...` is a wrong variant of the
definition that follows. It is used by no specification; replacing the
definition by it must make TLC report the property it is paired with in
`PROJECT.json`, which shows that the property can fail.

## Runs

Run one with `tlc -config X.cfg MCModule`.

| Run | Checks | Bounds |
|---|---|---|
| `MCWatchdog` | types; the streak counts the current run of unsafe polls; a verdict agrees with its reason; the published streak; the debounce is exact; a lasting outage is enforced, a recovery announced, SIGTERM ends the loop | thresholds 1 and 3, verification and heartbeat on and off, reloads at any step; `StreakCap` 3 is the largest threshold |
| `MCEgressChecker` | cached and returned verdicts are backed by the exit beside them, under the configuration in force; an invalidation overtakes probes in flight; TTL | two goroutines, three configurations (pinned exit, DNSBL, other country), TTL 0, 1, 2, four clock values, DNSBL answers at both ends of the listed range |
| `MCDaemon_proof` | a dead tunnel is never covered by an older observation; the daemon implements `EgressChecker` | watchdog and one handler, one configuration with DNSBL, TTL 1, two clock values |
| `MCDaemon_reload` | a finished reload has reached every part; interfaces are never mixed; the daemon implements `Watchdog` | watchdog and one handler, two files with different interfaces, thresholds of age and verification, and an invalid file |
| `MCTunnelChecker` | alive and dead verdicts are right to within a second | two peers, junk lines, maximum ages 1, 1.5 and 2 s at two ticks per second, two goroutines, clock steps |
| `MCKiller` | no silent survivor; every signallable target dies in a lasting outage | two pids, two names, two target lists, one worker (so that jobs wait) |
| `MCConfigFile` | the file always loads unless two writers overlap; pending restarts are reported; the daemon stays valid and restart-only keys stay put | two writers with crashes and full disks, a live key and a restart-only one |
| `MCAgentServer` | slots are never exceeded or leaked, "agent busy" is the truth, replies are no older than requests, every query returns and every slot comes back, a daemon started alone owns the path | two daemons, one client with a slow and a failing command, one stranger, one slot (so that two connections compete), one change of the world |
| `MCEventLog` | a handled record is on both sinks, whole, once and in its goroutine's order; history is the filtered tail | two loggers of two records (DEBUG, INFO, WARN), `-n` from -1 to one above the maximum, here 3: rings that stay short of full, just full and wrapped |
| `MCInstall` | an active unit means a table; "engaged" means these rules; "installed" means complete | one installer run any number of times, a job and a command by hand at once, `wg_conf` with one peer, two, none, a host name and port 65536, reboots |

The bounds are the smallest at which each mechanism shows: two goroutines for
the mutexes, a threshold above one for the debounce, a TTL below, at and above
one tick, two pids for reuse and replacement, fewer workers than jobs. The
mutants confirm that the cases in question happen within them.

Two statements of comments do not hold of the code; each has a run that ends in
a counterexample and a finding in `PROJECT.json`:

| Run | What happens |
|---|---|
| `MCWatchdog_raised` | `down_cycles_to_kill` raised in a confirmed outage: the status says DOWN and nothing is killed until the streak catches up |
| `MCConfigFile_torn` | two `config set` share `config.json.tmp` and rename a torn file into place |

Others were met while modelling and have no run; the models contain the
behaviours:

- Two overlapping reloads (the agent serves up to 16 requests at once, and the
  reloader holds no lock over its three applications) can leave the checkers and
  Live on different configurations. `CheckersAgree` is checked with one handler.
- A forced probe or a reload that invalidates the exit between a poll's verdict
  and `proof()` has UP published with an empty exit (`watchdog.go:122`).
- `status -probe` answers with `store.Snapshot()`, so a poll's verdict set in
  between, perhaps from the cache, is returned as the probe's (`main.go:316`).
- Overlapping daemons remove each other's sockets (`agent.go:124`, `:154`); the
  survivor then serves a socket nobody can reach. `OneDaemonOwnsThePath` covers
  daemons started alone.
- Two `firewall up` that both list no table load one ruleset on top of the other;
  `EngagedIsInForce` promises exact rules when nobody else changed the table.
- A log line cut short by a full disk swallows the next event (`handler.go:67`): the
  file holds it, `history` parses the glued line as one event or none.
- An install killed while writing the example configuration leaves a part of it
  that later installs keep (`inst.torn`); one killed while copying the binary,
  which is truncated in place, leaves the enabled firewall unit unable to start
  at boot until an install succeeds.
- `install` asks `Stat` and then writes: a configuration saved in between is
  overwritten, although the README says never (`install.go:45`).
- A failed probe request returns before `LastCountry` and `LastIP` are assigned, so
  the previous exit is logged and published as the observed one (`egress.go:27`
  says every Check assigns them).
- `killTargets` takes the names it returns from the first scan, so one that
  appears in the grace period is killed and not named (`killer.go:95`).
- The handshake's age is a difference of wall-clock readings, so a clock set
  back keeps a stale handshake alive; `MCTunnelChecker` lets the clock be set and
  claims nothing for handshakes stamped before (`ClockKept`).

### Fairness

`Watchdog!Fairness`: outside its select the loop takes its next step (weak
fairness: a goroutine that is not blocked runs, and the closures return). Go's
select chooses uniformly among the ready cases, hence strong fairness for the
poll ticker and for `ctx.Done()`. The heartbeat gets none. `Killer!Fairness`: the
rounds go on, which is the watchdog's behaviour in an outage, and neither scan
of `/proc` fails for ever. `AgentServer!Fairness`: a handler's goroutine is
scheduled, its deadline expires and what it calls returns (the probe has its own
timeout), and a client's deadline expires: weak fairness for each handler and
for each client's deadline, which is why a query returns even when Serve has
ended with the socket still bound. Accepting, daemons and strangers get none. Processes, clock, operator and reloads get no
fairness anywhere.

## Proofs

Every safety property the runs check, invariant or action property, is also a
theorem, for every value of the constants, except `HistoryIsTheTail`. Check a
module with `tlapm X.tla`. A theorem about a component rests on the ASSUMEs of its
module and on nothing else; TLC evaluates each of them in some run. They say
what kind of values the constants are and what the code establishes about them:

| Assumption | Says |
|---|---|
| `WatchdogAssumption`, `EgressAssumption`, `DaemonAssumption`, `TunnelAssumption` | a configuration is a record that `Validate` accepts (thresholds and ages of at least one; `StreakCap` is the largest threshold, which restricts nothing since a streak is only compared with thresholds); goroutines differ from the mutexes' "nobody"; combining a configuration with another's restart-only key gives a configuration |
| `TunnelAssumption` | also: the wall clock never shows a time within the first second of the epoch, which the kernel would print as 0, "no handshake" |
| `JunkAssumption` | the malformed lines that may precede a dump are ones `parseLatestHandshake` takes no stamp from |
| `PartsAssumption` | the assumptions of the daemon's parts hold of its constants |
| `AgentAssumption` | there are finitely many clients and strangers at a time (so that the handled requests can be counted) |
| `InstallAssumption` | the firewall processes are systemd's job and a command by hand; the example configuration loads |
| `EventLogAssumption` | no level is above ERROR |
| `ConfigFileAssumption` | the file system has a free inode for every writer |
| these and the others | model values (`Absent`, `NoRecord`, `Torn`, ...) differ from what they stand beside; bounds are numbers |

Each invariant is proved by an inductive one, with a case for every action. Why
each strengthening is needed:

- `WatchdogProofs`. `StreakCountsUnsafePolls` ties the counter to the recorded
  verdicts; its conjunct about the state while kill() runs makes it inductive,
  because `cycle` returns the new streak only after kill() has returned.
  `DebounceCorrect` (`KillIffConfirmed`) follows from it: `n` unsafe verdicts in
  front are a streak of at least `n`. `VerdictCorrect` needs `EgressIsNeeded` (egress
  is consulted only on a live tunnel under a verifying configuration).
  `KillingContinues` assumes `SteadyThreshold`, one threshold in all
  configurations; without it the property is false (`MCWatchdog_raised`).
- `EgressCheckerProofs`. `EInv` adds `FlightInv`: a probe in flight holds the mutex,
  has not been overtaken by an invalidation, and if it is at the DNSBL its exit
  already satisfies the configuration in force. That is what makes a verdict
  reached after two network calls still right when it is stored. `DatedBack` (a
  cached verdict is dated at the start of its probe) gives the TTL theorem.
- `DaemonProofs`. `DInv` (types, one interface, handlers' locals) gives
  `InterfaceCorrect` and both refinements, step by step. The theorems of
  `WatchdogProofs` and `EgressCheckerProofs` are then cited through instances of
  those modules: `DaemonDebounces` and `DaemonIsCoherent` are about the whole
  daemon. `ProofInv` says why a proof cannot come back from before an outage:
  the watchdog's Invalidate waits for the probe in flight, so past it neither the
  cache nor a probe is older than the outage. `AgreeInv` follows one reload through
  its three applications; its theorem assumes `OneHandler`, since overlapping
  reloads do break `CheckersAgree`.
- `HostProofs`, tunnel. `TInv` says that peers' handshakes carry the clock of their
  time and that the dump in hand lists exactly the handshakes seen in it, though
  the kernel's own may have moved on. `ParseIsLatest` is what the recursive scan
  of the dump computes: the greatest stamp, attained by some line. It is
  proved by taking the least index at which the claim fails (`LeastNat`),
  since induction theorems with an operator parameter cannot be used. `Apart` is
  the arithmetic of whole seconds.
- `HostProofs`, killer. `DueInv` follows a process that is due: still to be read, or
  found; then with the pool until a worker kills it or reports a failure.
- `AgentServerProofs`. `SlotsCount` (the tokens in the slots channel are the
  requests being handled, by cardinality) is inductive with `ConnInv`, which
  relates the two ends of a connection, and gives `BusyMeansFull` and the capacity.
  `PathInv` follows the socket path through Listen, Serve and Close of a daemon
  that is alone.
- `InstallProofs`. Every step is first shown to be a step of one firewall process,
  an edit, a reboot or an installer step (`FwView`). `AloneInv`: a process nobody has
  interfered with knows whether the table is there, and after its load the table
  is its ruleset. `UnitInv` adds which job runs in which unit state and that a
  verified table is still there when the job ends. `InstInv`: what comes before the
  installer's position is whole.
- `ConfigFileProofs`. `FileInv`: without overlap there is one writer, the temporary
  name leads to its inode, empty before the write and complete before the rename.
- `EventLogProofs`. `LogInv`: a goroutine in Handle holds its latest record, and only
  the last line of the file may lack its end, without a whole record in it.
  `ReaderInv`: the ring's used slots are the first `min(seen, n)`.

Model-checked only:

- all liveness (`OutageIsEnforced`, `RecoveryIsAnnounced`, `CancelStops`,
  `OutageReapsTargets`, `EveryoneIsLetGo`): fairness and ENABLED are out of the
  prover's reach;
- `HistoryIsTheTail`, whose reference definition filters with `SelectSeq`, of which
  the provers know nothing; `EventLogProofs` proves what keeps the ring buffer within
  bounds;
- the two violations, which are counterexamples.

## Not modelled

The interface-bound dialer (one `setsockopt`), `version`, flag handling and
`reptile check` (one sequential pass over the two checkers) keep no state worth a
model. The layout of a log line and the colours of `history` are left out.
`config set` on list-valued keys (its comma form loses the difference between
`["a,b"]` and `["a","b"]`) and the syntax of single keys are abstracted to
"accepted or rejected", and its warning about the firewall after a failed reload
is left out. A `wg show` that hangs, with the tunnel checker's mutex held, is not
modelled: it answers or fails.

## Plan

Done: models and runs of all components but those listed above, and the proofs
listed above. Left for the proofs:

1. `HistoryIsTheTail`: state the filtered tail by the positions of the matching
   lines, show with `LeastNat`'s argument that slot `k % n` of the ring holds the
   k-th of them, and relate the two references on the bounded run.
2. The remaining theorems of the parts at the level of the daemon
   (`CachedVerdictWithinTTL`, `PublishedStreakIsCurrent`, `VerdictHasReason`), through
   the refinements already proved.
3. `TunnelChecker`'s Check and Apply as the single steps `Daemon` takes them for.
