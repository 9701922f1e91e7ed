----------------------------- MODULE AgentServer -----------------------------
(***************************************************************************)
(* The agent socket (agent.go): Server.Listen, Serve, handle and Close in  *)
(* daemon processes that start, stop and die around one socket path, and   *)
(* QueryResponse in client processes.                                      *)
(*                                                                         *)
(* A connection has two ends with state of their own: what the client is   *)
(* doing, what the server's goroutine is doing, and the bytes under way in *)
(* both directions.  The status, the network and the configuration file a  *)
(* request looks at are one version number: what matters of a reply is how *)
(* recent the thing it reports is.                                         *)
(***************************************************************************)
EXTENDS Naturals, FiniteSets

CONSTANTS
  Daemons, NoSocket,
  Clients,      \* reptile CLI processes, one query each at a time
  Strangers,    \* other local programs that connect to the socket
  Cmds,         \* the commands a client may send
  MaxConns,     \* maxAgentConnections
  MaxVersion    \* bound on the number of changes

ASSUME AgentAssumption ==
  /\ NoSocket \notin Daemons
  /\ Clients \cap Strangers = {}
  /\ IsFiniteSet(Clients) /\ IsFiniteSet(Strangers)
  /\ Cmds \subseteq {"status", "probe", "reload"}
  /\ MaxConns \in Nat \ {0}
  /\ MaxVersion \in Nat

VARIABLES
  path,       \* whose socket is at the path: a daemon's, alive or dead, or none
  dpc,        \* where each daemon is in Listen, Serve or Close
  serving,    \* whether its Serve loop is running
  slots,      \* len(s.slots)
  version,
  cpc,        \* where each peer is in QueryResponse
  peer,       \* the daemon its connection goes to, or NoSocket
  asked,      \* history: the version when it sent its request
  req,        \* its request
  out,        \* reply bytes, and then what the peer has read
  hpc,        \* where the server's goroutine for it is
  stamp,      \* the version that goroutine has looked at
  overlapped, \* history: the last daemon was started while another was running
  inUse       \* history: the last Listen failed with "address already in use"

dvars == <<path, dpc, serving, overlapped, inUse>>
cvars == <<cpc, asked>>
svars == <<peer, req, out, hpc, stamp>>
avars == <<dvars, cvars, svars, slots, version>>

Peers == Clients \cup Strangers
Listening == {"chmod", "up"}
Handling == {"reading", "working", "overdue", "release"}
Replies == {"nothing", "busy", "error", "ok"}

TypeOK ==
  /\ path \in Daemons \cup {NoSocket}
  /\ dpc \in [Daemons -> {"off", "bind", "chmod", "up", "unlink"}]
  /\ serving \in [Daemons -> BOOLEAN]
  /\ slots \in [Daemons -> 0..MaxConns]
  /\ version \in 0..MaxVersion
  /\ cpc \in [Peers -> {"idle", "dialled", "sent", "done"}]
  /\ peer \in [Peers -> Daemons \cup {NoSocket}]
  /\ asked \in [Peers -> 0..MaxVersion]
  /\ req \in [Peers -> Cmds \cup {"none", "junk"}]
  /\ out \in [Peers -> Replies]
  /\ hpc \in [Peers -> {"none", "backlog"} \cup Handling]
  /\ stamp \in [Peers -> 0..MaxVersion]
  /\ overlapped \in BOOLEAN /\ inUse \in BOOLEAN

-----------------------------------------------------------------------------
(* A daemon: runDaemon's use of Listen, Serve and Close.                   *)

DGoto(d, from, to) == dpc[d] = from /\ dpc' = [dpc EXCEPT ![d] = to]

Alive(d) == dpc[d] # "off"
PeersOf(d) == {c \in Peers : peer[c] = d}

(* The server's end of these connections is closed.                        *)
Hangup(cs) ==
  /\ hpc' = [c \in Peers |-> IF c \in cs THEN "none" ELSE hpc[c]]
  /\ req' = [c \in Peers |-> IF c \in cs THEN "none" ELSE req[c]]
  /\ stamp' = [c \in Peers |-> IF c \in cs THEN 0 ELSE stamp[c]]

(* The process ends, and its connections and goroutines with it.           *)
Exit(d) ==
  /\ dpc' = [dpc EXCEPT ![d] = "off"]
  /\ serving' = [serving EXCEPT ![d] = FALSE]
  /\ slots' = [slots EXCEPT ![d] = 0]
  /\ Hangup(PeersOf(d))
  /\ UNCHANGED <<version, cvars, peer, out>>

(* Mutant: a socket left over not removed. *)
StartKeepsPath(d) ==
  /\ DGoto(d, "off", "bind")
  /\ overlapped' = \E e \in Daemons \ {d} : Alive(e)
  /\ inUse' = FALSE
  /\ UNCHANGED <<path, serving, slots, version, cvars, svars>>
(* Up to os.Remove(s.path), which removes whoever's socket is there. *)
Start(d) ==
  /\ DGoto(d, "off", "bind")
  /\ path' = NoSocket
  /\ overlapped' = \E e \in Daemons \ {d} : Alive(e)
  /\ inUse' = FALSE
  /\ UNCHANGED <<serving, slots, version, cvars, svars>>

(* net.Listen: clients can connect from here on. *)
Bind(d) ==
  /\ path = NoSocket
  /\ DGoto(d, "bind", "chmod")
  /\ path' = d
  /\ UNCHANGED <<serving, overlapped, inUse, slots, version, cvars, svars>>

(* EADDRINUSE: fatal. *)
BindFails(d) ==
  /\ path # NoSocket
  /\ dpc[d] = "bind"
  /\ Exit(d)
  /\ inUse' = TRUE
  /\ UNCHANGED <<path, overlapped>>

(* os.Chmod of whatever is at the path; then go srv.Serve(ln). *)
Chmod(d) ==
  /\ path # NoSocket
  /\ DGoto(d, "chmod", "up")
  /\ serving' = [serving EXCEPT ![d] = TRUE]
  /\ UNCHANGED <<path, overlapped, inUse, slots, version, cvars, svars>>

(* Somebody has removed it: ln.Close(), os.Remove(s.path), fatal. *)
ChmodFails(d) ==
  /\ path = NoSocket
  /\ dpc[d] = "chmod"
  /\ path' = NoSocket
  /\ Exit(d)
  /\ UNCHANGED <<overlapped, inUse>>

(* Accept fails though the listener is open (no file descriptor left):     *)
(* Serve returns, the listener stays.                                      *)
AcceptFails(d) ==
  /\ dpc[d] = "up"
  /\ serving[d]
  /\ serving' = [serving EXCEPT ![d] = FALSE]
  /\ UNCHANGED <<path, dpc, overlapped, inUse, slots, version, cvars, svars>>

(* The poll loop has returned: srv.Close() calls ln.Close(), which unlinks *)
(* the path, ends Serve and drops what has not been accepted ...           *)
CloseListener(d) ==
  /\ DGoto(d, "up", "unlink")
  /\ path' = NoSocket
  /\ serving' = [serving EXCEPT ![d] = FALSE]
  /\ Hangup({c \in PeersOf(d) : hpc[c] = "backlog"})
  /\ UNCHANGED <<overlapped, inUse, slots, version, cvars, peer, out>>

(* ... and os.Remove(s.path) removes whatever is there by now.             *)
RemoveAndExit(d) ==
  /\ dpc[d] = "unlink"
  /\ path' = NoSocket
  /\ Exit(d)
  /\ UNCHANGED <<overlapped, inUse>>

(* fatal, SIGKILL, a panic: no Close. *)
Crash(d) ==
  /\ Alive(d)
  /\ Exit(d)
  /\ UNCHANGED <<path, overlapped, inUse>>

-----------------------------------------------------------------------------
(* Server.Serve and Server.handle for one connection.                      *)

HGoto(c, from, to) == hpc[c] = from /\ hpc' = [hpc EXCEPT ![c] = to]

(* The peer still has its end open. *)
Open(c) == cpc[c] \in {"dialled", "sent"}

(* Mutant: one slot too many. *)
AcceptSlotOver(c) ==
  /\ hpc[c] = "backlog" /\ serving[peer[c]]
  /\ slots[peer[c]] <= MaxConns
  /\ slots' = [slots EXCEPT ![peer[c]] = @ + 1]
  /\ HGoto(c, "backlog", "reading")
  /\ UNCHANGED <<dvars, cvars, version, peer, req, out, stamp>>
AcceptSlot(c) ==
  /\ hpc[c] = "backlog" /\ serving[peer[c]]
  /\ slots[peer[c]] < MaxConns
  /\ slots' = [slots EXCEPT ![peer[c]] = @ + 1]
  /\ HGoto(c, "backlog", "reading")
  /\ UNCHANGED <<dvars, cvars, version, peer, req, out, stamp>>

(* "agent busy", and the connection is closed. *)
AcceptBusy(c) ==
  /\ hpc[c] = "backlog" /\ serving[peer[c]]
  /\ slots[peer[c]] >= MaxConns
  /\ Hangup({c})
  /\ out' = [out EXCEPT ![c] = IF Open(c) THEN "busy" ELSE @]
  /\ UNCHANGED <<dvars, cvars, version, slots, peer>>

(* Mutant: the snapshot taken before the request is read. *)
DecodeEarly(c) ==
  /\ req[c] # "junk"
  /\ HGoto(c, "reading", "working")
  /\ stamp' = [stamp EXCEPT ![c] = version]
  /\ UNCHANGED <<dvars, cvars, version, slots, peer, out, req>>
(* Decode returns a request: store.Snapshot(), the prober or the Reloader  *)
(* looks at the world from here on.                                        *)
Decode(c) ==
  /\ req[c] \in Cmds
  /\ HGoto(c, "reading", "working")
  /\ stamp' = [stamp EXCEPT ![c] = version]
  /\ UNCHANGED <<dvars, cvars, version, slots, peer, out, req>>

(* handle's deferred conn.Close(); the slot is still held.                 *)
CloseConn(c, reply) ==
  /\ out' = [out EXCEPT ![c] = IF Open(c) THEN reply ELSE @]
  /\ hpc' = [hpc EXCEPT ![c] = "release"]
  /\ req' = [req EXCEPT ![c] = "none"]
  /\ stamp' = stamp
  /\ UNCHANGED <<dvars, cvars, version, slots, peer>>

(* Mutant: the error branch returns without the deferred release. *)
BadRequestLeaks(c) ==
  /\ hpc[c] = "reading"
  /\ req[c] = "junk"
  /\ Hangup({c})
  /\ out' = [out EXCEPT ![c] = IF Open(c) THEN "error" ELSE @]
  /\ UNCHANGED <<dvars, cvars, version, slots, peer>>
(* Decode fails, or the command is unknown. *)
BadRequest(c) ==
  /\ hpc[c] = "reading"
  /\ req[c] = "junk" \/ (req[c] = "none" /\ ~Open(c))
  /\ CloseConn(c, "error")

(* The reply; a reload may fail. *)
Answer(c) ==
  /\ hpc[c] = "working"
  /\ \E reply \in {"ok"} \cup (IF req[c] = "reload" THEN {"error"} ELSE {}) :
       CloseConn(c, reply)

(* Mutant: no deadline on the read. *)
DeadlineAtWork(c) ==
  /\ HGoto(c, "working", "overdue")
  /\ UNCHANGED <<dvars, cvars, version, slots, peer, req, out, stamp>>
(* The connection's 30 s are over: a read fails; the prober and the        *)
(* Reloader go on, but what they return can no longer be written.          *)
ServerDeadline(c) ==
  \/ /\ hpc[c] = "reading"
     /\ CloseConn(c, out[c])
  \/ /\ HGoto(c, "working", "overdue")
     /\ UNCHANGED <<dvars, cvars, version, slots, peer, req, out, stamp>>

OverdueReturns(c) ==
  /\ hpc[c] = "overdue"
  /\ CloseConn(c, out[c])

(* defer func() { <-s.slots }() *)
Release(c) ==
  /\ hpc[c] = "release"
  /\ Hangup({c})
  /\ slots' = [slots EXCEPT ![peer[c]] = @ - 1]
  /\ UNCHANGED <<dvars, cvars, version, peer, out>>

-----------------------------------------------------------------------------
(* QueryResponse, and what other programs do with the socket.              *)

CGoto(c, from, to) == cpc[c] = from /\ cpc' = [cpc EXCEPT ![c] = to]

(* The server's end is open. *)
Served(c) == hpc[c] \in {"backlog", "reading", "working", "overdue"}

Dial(c) ==
  /\ path # NoSocket
  /\ dpc[path] \in Listening
  /\ CGoto(c, "idle", "dialled")
  /\ peer' = [peer EXCEPT ![c] = path]
  /\ hpc' = [hpc EXCEPT ![c] = "backlog"]
  /\ UNCHANGED <<dvars, slots, version, asked, req, out, stamp>>

(* ENOENT, or ECONNREFUSED from a socket nobody listens on any more.       *)
DialFails(c) ==
  /\ path # NoSocket => dpc[path] \notin Listening
  /\ CGoto(c, "idle", "done")
  /\ out' = [out EXCEPT ![c] = "error"]
  /\ UNCHANGED <<dvars, slots, version, asked, peer, req, hpc, stamp>>

Send(c, cmd) ==
  /\ Served(c)
  /\ CGoto(c, "dialled", "sent")
  /\ req' = [req EXCEPT ![c] = cmd]
  /\ asked' = [asked EXCEPT ![c] = version]
  /\ UNCHANGED <<dvars, slots, version, peer, out, hpc, stamp>>

(* The result of a query: the reply, or an error.                          *)
Returns(c, from, reply) ==
  /\ CGoto(c, from, "done")
  /\ out' = [out EXCEPT ![c] = reply]
  /\ asked' = [asked EXCEPT ![c] = 0]
  /\ UNCHANGED <<dvars, slots, version, peer, req, hpc, stamp>>

(* EPIPE: the server has closed, perhaps after "agent busy". *)
SendFails(c) == ~Served(c) /\ Returns(c, "dialled", "error")

Receive(c) == out[c] # "nothing" /\ Returns(c, "sent", out[c])

(* EOF without a reply. *)
ReceiveFails(c) == out[c] = "nothing" /\ ~Served(c) /\ Returns(c, "sent", "error")

(* The client's own 30 s. *)
ClientDeadline(c) == Returns(c, "dialled", "error") \/ Returns(c, "sent", "error")

(* The process has printed its result and exits; another one is run.       *)
Again(c) ==
  /\ hpc[c] = "none"
  /\ CGoto(c, "done", "idle")
  /\ out' = [out EXCEPT ![c] = "nothing"]
  /\ peer' = [peer EXCEPT ![c] = NoSocket]
  /\ UNCHANGED <<dvars, slots, version, asked, req, hpc, stamp>>

-----------------------------------------------------------------------------
(* The status, the network or the configuration file changes. *)
Change ==
  /\ version < MaxVersion
  /\ version' = version + 1
  /\ UNCHANGED <<dvars, cvars, svars, slots>>

Init ==
  /\ path = NoSocket
  /\ dpc = [d \in Daemons |-> "off"]
  /\ serving = [d \in Daemons |-> FALSE]
  /\ slots = [d \in Daemons |-> 0]
  /\ version = 0
  /\ cpc = [c \in Peers |-> "idle"]
  /\ peer = [c \in Peers |-> NoSocket]
  /\ asked = [c \in Peers |-> 0]
  /\ req = [c \in Peers |-> "none"]
  /\ out = [c \in Peers |-> "nothing"]
  /\ hpc = [c \in Peers |-> "none"]
  /\ stamp = [c \in Peers |-> 0]
  /\ overlapped = FALSE /\ inUse = FALSE

Daemon(d) ==
  \/ Start(d) \/ Bind(d) \/ BindFails(d) \/ Chmod(d) \/ ChmodFails(d)
  \/ AcceptFails(d) \/ CloseListener(d) \/ RemoveAndExit(d) \/ Crash(d)

Serve(c) == AcceptSlot(c) \/ AcceptBusy(c)
handle(c) ==
  \/ Decode(c) \/ BadRequest(c) \/ Answer(c)
  \/ ServerDeadline(c) \/ OverdueReturns(c) \/ Release(c)

Query(c) ==
  \/ Dial(c) \/ DialFails(c) \/ (\E cmd \in Cmds : Send(c, cmd)) \/ SendFails(c)
  \/ Receive(c) \/ ReceiveFails(c) \/ ClientDeadline(c) \/ Again(c)

(* A stranger sends nothing or junk, and hangs up when it likes.           *)
Stranger(c) ==
  \/ Dial(c) \/ Send(c, "junk") \/ Returns(c, "dialled", "error")
  \/ Receive(c) \/ Returns(c, "sent", "error") \/ Again(c)

Next ==
  \/ \E d \in Daemons : Daemon(d)
  \/ \E c \in Peers : Serve(c) \/ handle(c)
  \/ \E c \in Clients : Query(c)
  \/ \E c \in Strangers : Stranger(c)
  \/ Change

(* A handler's goroutine is scheduled, its deadline expires, and what it   *)
(* calls returns; a client's deadline expires.                             *)
Fairness ==
  /\ \A c \in Peers : WF_avars(handle(c))
  /\ \A c \in Clients : WF_avars(ClientDeadline(c))

Spec == Init /\ [][Next]_avars /\ Fairness

-----------------------------------------------------------------------------
(* A status, a forced probe and a reload are about the world as it was     *)
(* when the client asked, or later: no reply is made of something looked   *)
(* at before its request was sent (handle reads the request first).        *)
ReplyIsFresh ==
  [][\A c \in Clients : out[c] = "nothing" /\ out'[c] = "ok" => stamp[c] >= asked[c]]_avars

(* "agent busy" is the truth: it is sent only while MaxConns requests are  *)
(* being handled, however earlier ones ended (Serve's slots channel).      *)
BusyMeansFull ==
  [][\A c \in Peers : out[c] # "busy" /\ out'[c] = "busy" =>
       Cardinality({e \in PeersOf(peer[c]) : hpc[e] \in Handling}) = MaxConns]_avars

(* Listen "replaces any stale socket file from a previous run": a daemon   *)
(* started while no other is running gets the path, whatever a crash left  *)
(* there, and while it serves the path leads to it, even if the daemons    *)
(* before it had overlapped and removed each other's sockets.              *)
OneDaemonOwnsThePath ==
  ~overlapped => ~inUse /\ \A d \in Daemons : dpc[d] = "up" => path = d

(* Every query returns, also from a daemon whose Serve has ended with the  *)
(* socket still bound; and no peer keeps a slot for ever, not even one     *)
(* that connects and says nothing (both ends set a 30 s deadline).         *)
EveryoneIsLetGo ==
  /\ \A c \in Clients : Open(c) ~> cpc[c] = "done"
  /\ \A c \in Peers : (hpc[c] \in Handling) ~> (hpc[c] = "none")
=============================================================================
