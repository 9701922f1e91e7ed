-------------------------- MODULE AgentServerProofs --------------------------
(***************************************************************************)
(* Proofs about AgentServer, for any number of daemons, clients and other  *)
(* programs, and any limit on the connections handled at once.             *)
(***************************************************************************)
EXTENDS AgentServer, FiniteSetTheorems, TLAPS

(* The requests being handled by d. *)
HandledBy(d) == {e \in PeersOf(d) : hpc[e] \in Handling}

(* The two ends of a connection: a goroutine belongs to a daemon; a peer   *)
(* that has not dialled has none, and one that has not sent its request    *)
(* has none at work on it; a request is there only while it may be read    *)
(* or is being worked on; and what is worked on was looked at after the    *)
(* request was sent.                                                       *)
ConnInv ==
  \A c \in Peers :
    /\ hpc[c] # "none" => peer[c] \in Daemons
    /\ cpc[c] = "idle" => hpc[c] = "none"
    /\ cpc[c] \in {"idle", "dialled"} =>
         req[c] = "none" /\ hpc[c] \notin {"working", "overdue"}
    /\ cpc[c] # "sent" => asked[c] = 0
    /\ hpc[c] \in {"none", "release"} => req[c] = "none"
    /\ asked[c] <= version
    /\ hpc[c] = "working" => stamp[c] >= asked[c]

(* The slots channel holds one token per request being handled. *)
SlotsCount == \A d \in Daemons : slots[d] = Cardinality(HandledBy(d))

(* A daemon started alone is the only one, has removed what was at the     *)
(* path, and its own socket is there from net.Listen to ln.Close.          *)
PathInv ==
  ~overlapped =>
    /\ ~inUse
    /\ \A d, e \in Daemons : Alive(d) /\ Alive(e) => d = e
    /\ \A d \in Daemons : dpc[d] = "bind" => path = NoSocket
    /\ \A d \in Daemons : dpc[d] \in Listening => path = d

AInv == TypeOK /\ ConnInv /\ SlotsCount

-----------------------------------------------------------------------------
(* There are finitely many connections to count. *)
LEMMA PeersFinite == IsFiniteSet(Peers)
BY AgentAssumption, FS_Union DEF Peers

(* What a step may be, with the ways a query can end taken together. *)
LEMMA NextCases ==
  ASSUME Next
  PROVE  \/ \E d \in Daemons : Daemon(d)
         \/ \E c \in Peers :
              \/ AcceptSlot(c) \/ AcceptBusy(c)
              \/ Decode(c) \/ BadRequest(c) \/ Answer(c)
              \/ ServerDeadline(c) \/ OverdueReturns(c) \/ Release(c)
              \/ Dial(c) \/ DialFails(c) \/ Again(c)
              \/ \E cmd \in Cmds \cup {"junk"} : Served(c) /\ Send(c, cmd)
              \/ \E from \in {"dialled", "sent"}, reply \in {"error", out[c]} :
                   Returns(c, from, reply)
         \/ Change
<1>1. ASSUME NEW d \in Daemons, Daemon(d)
      PROVE  \E e \in Daemons : Daemon(e)
  BY <1>1
<1>2. ASSUME NEW c \in Peers, Serve(c) \/ handle(c) \/ Query(c) \/ Stranger(c)
      PROVE  \/ AcceptSlot(c) \/ AcceptBusy(c)
             \/ Decode(c) \/ BadRequest(c) \/ Answer(c)
             \/ ServerDeadline(c) \/ OverdueReturns(c) \/ Release(c)
             \/ Dial(c) \/ DialFails(c) \/ Again(c)
             \/ \E cmd \in Cmds \cup {"junk"} : Served(c) /\ Send(c, cmd)
             \/ \E from \in {"dialled", "sent"}, reply \in {"error", out[c]} :
                  Returns(c, from, reply)
  <2>1. ASSUME NEW cmd, Send(c, cmd) PROVE Served(c)
    BY <2>1 DEF Send
  <2>2. QED
    BY <1>2, <2>1, Zenon DEF Serve, handle, Query, Stranger, SendFails, Receive, ReceiveFails,
                      ClientDeadline
<1>3. QED
  BY <1>1, <1>2, Zenon DEF Next, Peers

-----------------------------------------------------------------------------
(* Counting the requests being handled.                                    *)

(* So are those a daemon is handling. *)
LEMMA HandledFinite ==
  ASSUME NEW d
  PROVE  IsFiniteSet(HandledBy(d)) /\ Cardinality(HandledBy(d)) \in Nat
<1>1. HandledBy(d) \subseteq Peers
  BY DEF HandledBy, PeersOf
<1>2. QED
  BY <1>1, PeersFinite, FS_Subset, FS_CardinalityType

(* A step that starts and ends no handling, and moves no connection that   *)
(* is being handled, changes no count.                                     *)
LEMMA CountKept ==
  ASSUME SlotsCount, slots' = slots,
         \A e \in Peers : /\ hpc'[e] \in Handling <=> hpc[e] \in Handling
                          /\ hpc[e] \in Handling => peer'[e] = peer[e]
  PROVE  SlotsCount'
<1>1. \A d \in Daemons : HandledBy(d)' = HandledBy(d)
  BY DEF HandledBy, PeersOf
<1>2. QED
  BY <1>1 DEF SlotsCount

(* The slots of a process go with it. *)
LEMMA CountExit ==
  ASSUME AInv, NEW d \in Daemons, Exit(d)
  PROVE  SlotsCount'
<1> SUFFICES ASSUME NEW e \in Daemons PROVE slots'[e] = Cardinality(HandledBy(e)')
  BY DEF SlotsCount
<1>1. CASE e = d
  <2>1. HandledBy(d)' = {}
    BY DEF Exit, Hangup, HandledBy, PeersOf, Handling
  <2>2. slots'[d] = 0
    BY DEF Exit, AInv, TypeOK
  <2>3. QED
    BY <1>1, <2>1, <2>2, FS_EmptySet
<1>2. CASE e # d
  <2>1. HandledBy(e)' = HandledBy(e)
    BY <1>2 DEF Exit, Hangup, HandledBy, PeersOf
  <2>2. slots'[e] = slots[e]
    BY <1>2 DEF Exit, AInv, TypeOK
  <2>3. QED
    BY <2>1, <2>2 DEF AInv, SlotsCount
<1>3. QED
  BY <1>1, <1>2

(* Serve takes a slot before it starts the handler. *)
LEMMA CountAccept ==
  ASSUME AInv, NEW c \in Peers, AcceptSlot(c)
  PROVE  SlotsCount'
<1> SUFFICES ASSUME NEW e \in Daemons PROVE slots'[e] = Cardinality(HandledBy(e)')
  BY DEF SlotsCount
<1>0. peer[c] \in Daemons
  BY DEF AInv, ConnInv, AcceptSlot
<1>1. CASE e = peer[c]
  <2>1. HandledBy(e)' = HandledBy(e) \cup {c} /\ c \notin HandledBy(e)
    BY <1>1 DEF AcceptSlot, HGoto, HandledBy, PeersOf, Handling, AInv, TypeOK
  <2>2. slots'[e] = slots[e] + 1
    BY <1>1 DEF AcceptSlot, AInv, TypeOK
  <2>3. QED
    BY <2>1, <2>2, HandledFinite, FS_AddElement DEF AInv, SlotsCount
<1>2. CASE e # peer[c]
  <2>1. HandledBy(e)' = HandledBy(e)
    BY <1>2 DEF AcceptSlot, HGoto, HandledBy, PeersOf, AInv, TypeOK
  <2>2. slots'[e] = slots[e]
    BY <1>2 DEF AcceptSlot, AInv, TypeOK
  <2>3. QED
    BY <2>1, <2>2 DEF AInv, SlotsCount
<1>3. QED
  BY <1>1, <1>2

(* The deferred release gives back the slot of this very handler, so there *)
(* is one to give back.                                                    *)
LEMMA CountRelease ==
  ASSUME AInv, NEW c \in Peers, Release(c)
  PROVE  SlotsCount' /\ peer[c] \in Daemons /\ slots[peer[c]] > 0
<1>0. peer[c] \in Daemons /\ c \in HandledBy(peer[c])
  BY DEF AInv, ConnInv, Release, HandledBy, PeersOf, Handling
<1>1. slots[peer[c]] > 0
  BY <1>0, HandledFinite, FS_EmptySet DEF AInv, SlotsCount
<1>2. ASSUME NEW e \in Daemons PROVE slots'[e] = Cardinality(HandledBy(e)')
  <2>1. CASE e = peer[c]
    <3>1. HandledBy(e)' = HandledBy(e) \ {c}
      BY <2>1 DEF Release, Hangup, HandledBy, PeersOf, Handling
    <3>2. slots'[e] = slots[e] - 1
      BY <2>1 DEF Release, AInv, TypeOK
    <3>3. QED
      BY <1>0, <2>1, <3>1, <3>2, HandledFinite, FS_RemoveElement DEF AInv, SlotsCount
  <2>2. CASE e # peer[c]
    <3>1. HandledBy(e)' = HandledBy(e)
      BY <2>2 DEF Release, Hangup, HandledBy, PeersOf
    <3>2. slots'[e] = slots[e]
      BY <2>2 DEF Release, AInv, TypeOK
    <3>3. QED
      BY <3>1, <3>2 DEF AInv, SlotsCount
  <2>3. QED
    BY <2>1, <2>2
<1>3. QED
  BY <1>0, <1>1, <1>2 DEF SlotsCount

(* No step, of a daemon, a connection or a client, upsets the count. *)
LEMMA SlotsStep == AInv /\ [Next]_avars => SlotsCount'
<1> SUFFICES ASSUME AInv, [Next]_avars PROVE SlotsCount'
  OBVIOUS
<1> USE DEF Handling
<1>1. ASSUME NEW d \in Daemons, Daemon(d) PROVE SlotsCount'
  <2>1. CASE BindFails(d) \/ ChmodFails(d) \/ RemoveAndExit(d) \/ Crash(d)
    BY <2>1, CountExit DEF BindFails, ChmodFails, RemoveAndExit, Crash
  <2>2. CASE Start(d) \/ Bind(d) \/ Chmod(d) \/ AcceptFails(d)
    BY <2>2, CountKept DEF Start, Bind, Chmod, AcceptFails, svars, AInv
  <2>3. CASE CloseListener(d)
    BY <2>3, CountKept DEF CloseListener, Hangup, AInv, TypeOK
  <2>4. QED
    BY <1>1, <2>1, <2>2, <2>3 DEF Daemon
<1>2. ASSUME NEW c \in Peers, AcceptSlot(c) PROVE SlotsCount'
  BY <1>2, CountAccept
<1>3. ASSUME NEW c \in Peers, Release(c) PROVE SlotsCount'
  BY <1>3, CountRelease
<1>4. ASSUME NEW c \in Peers, NEW reply, hpc[c] \in Handling, CloseConn(c, reply)
      PROVE  SlotsCount'
  BY <1>4, CountKept DEF CloseConn, AInv, TypeOK
<1>5. ASSUME NEW c \in Peers, BadRequest(c) \/ Answer(c) \/ OverdueReturns(c)
      PROVE  SlotsCount'
  BY <1>4, <1>5 DEF BadRequest, Answer, OverdueReturns
<1>6. ASSUME NEW c \in Peers, ServerDeadline(c) PROVE SlotsCount'
  <2>1. CASE hpc[c] = "reading" /\ CloseConn(c, out[c])
    BY <1>4, <2>1
  <2>2. CASE HGoto(c, "working", "overdue") /\ UNCHANGED <<slots, peer>>
    BY <2>2, CountKept DEF HGoto, AInv, TypeOK
  <2>3. QED
    BY <1>6, <2>1, <2>2 DEF ServerDeadline
<1>7. ASSUME NEW c \in Peers, AcceptBusy(c) \/ Decode(c) PROVE SlotsCount'
  BY <1>7, CountKept DEF AcceptBusy, Decode, HGoto, Hangup, AInv, TypeOK
<1>8. ASSUME NEW c \in Peers, Dial(c) PROVE SlotsCount'
  BY <1>8, CountKept DEF Dial, CGoto, AInv, ConnInv, TypeOK
<1>9. ASSUME NEW c \in Peers, Again(c) PROVE SlotsCount'
  BY <1>9, CountKept DEF Again, AInv, TypeOK
<1>10. ASSUME UNCHANGED <<slots, peer, hpc>> PROVE SlotsCount'
  BY <1>10, CountKept DEF AInv
<1>11. ASSUME NEW c \in Peers, NEW cmd, NEW from, NEW reply,
              DialFails(c) \/ Send(c, cmd) \/ Returns(c, from, reply)
       PROVE  SlotsCount'
  BY <1>10, <1>11 DEF DialFails, Send, Returns
<1>12. CASE Change \/ UNCHANGED avars
  BY <1>10, <1>12 DEF Change, avars, svars
<1>13. QED
  BY <1>1, <1>2, <1>3, <1>5, <1>6, <1>7, <1>8, <1>9, <1>11, <1>12, NextCases

-----------------------------------------------------------------------------
(* Closing connections leaves the handlers well typed. *)
LEMMA HangupType ==
  ASSUME TypeOK, NEW cs, Hangup(cs)
  PROVE  /\ hpc' \in [Peers -> {"none", "backlog"} \cup Handling]
         /\ req' \in [Peers -> Cmds \cup {"none", "junk"}]
         /\ stamp' \in [Peers -> 0..MaxVersion]
<1>1. 0 \in 0..MaxVersion
  BY AgentAssumption
<1>2. QED
  BY <1>1 DEF Hangup, TypeOK

(* Every step keeps the types. *)
LEMMA TypeStep == AInv /\ [Next]_avars => TypeOK'
<1> SUFFICES ASSUME AInv, [Next]_avars PROVE TypeOK'
  OBVIOUS
<1>0. TypeOK
  BY DEF AInv
<1> USE <1>0, AgentAssumption
<1>1. ASSUME NEW d \in Daemons, Daemon(d) PROVE TypeOK'
  <2>1. CASE Start(d)
    BY <2>1 DEF Start, DGoto, TypeOK, cvars, svars
  <2>2. CASE Bind(d)
    BY <2>2 DEF Bind, DGoto, TypeOK, cvars, svars
  <2>3. CASE Chmod(d) \/ AcceptFails(d)
    BY <2>3 DEF Chmod, AcceptFails, DGoto, TypeOK, cvars, svars
  <2>4. ASSUME Exit(d), path' \in {path, NoSocket}, overlapped' = overlapped, inUse' \in BOOLEAN
        PROVE  TypeOK'
    BY <2>4, HangupType DEF Exit, TypeOK, cvars
  <2>5. CASE BindFails(d) \/ ChmodFails(d) \/ RemoveAndExit(d) \/ Crash(d)
    BY <2>4, <2>5 DEF BindFails, ChmodFails, RemoveAndExit, Crash, TypeOK
  <2>6. CASE CloseListener(d)
    BY <2>6, HangupType DEF CloseListener, DGoto, TypeOK, cvars
  <2>7. QED
    BY <1>1, <2>1, <2>2, <2>3, <2>5, <2>6 DEF Daemon
<1>2. ASSUME NEW c \in Peers, AcceptSlot(c) PROVE TypeOK'
  <2>1. peer[c] \in Daemons
    BY <1>2 DEF AInv, ConnInv, AcceptSlot
  <2>2. slots' \in [Daemons -> 0..MaxConns]
    BY <1>2, <2>1 DEF AcceptSlot, TypeOK
  <2>3. QED
    BY <1>2, <2>2 DEF AcceptSlot, HGoto, TypeOK, dvars, cvars, Handling
<1>3. ASSUME NEW c \in Peers, AcceptBusy(c) PROVE TypeOK'
  BY <1>3, HangupType DEF AcceptBusy, TypeOK, dvars, cvars, Replies
<1>4. ASSUME NEW c \in Peers, Decode(c) PROVE TypeOK'
  BY <1>4 DEF Decode, HGoto, TypeOK, dvars, cvars, Handling
<1>5. ASSUME NEW c \in Peers, NEW reply \in Replies, CloseConn(c, reply) PROVE TypeOK'
  BY <1>5 DEF CloseConn, TypeOK, dvars, cvars, Handling
<1>6. ASSUME NEW c \in Peers, BadRequest(c) \/ Answer(c) \/ OverdueReturns(c) PROVE TypeOK'
  <2>1. "error" \in Replies /\ "ok" \in Replies /\ out[c] \in Replies
    BY DEF Replies, TypeOK
  <2>2. QED
    BY <1>5, <1>6, <2>1 DEF BadRequest, Answer, OverdueReturns
<1>7. ASSUME NEW c \in Peers, ServerDeadline(c) PROVE TypeOK'
  <2>1. CASE CloseConn(c, out[c])
    BY <1>5, <2>1 DEF TypeOK
  <2>2. CASE /\ HGoto(c, "working", "overdue")
             /\ UNCHANGED <<dvars, cvars, version, slots, peer, req, out, stamp>>
    BY <2>2 DEF HGoto, TypeOK, dvars, cvars, Handling
  <2>3. QED
    BY <1>7, <2>1, <2>2 DEF ServerDeadline
<1>8. ASSUME NEW c \in Peers, Release(c) PROVE TypeOK'
  <2>0. peer[c] \in Daemons /\ slots[peer[c]] > 0 /\ slots[peer[c]] \in 0..MaxConns
    BY <1>8, CountRelease DEF TypeOK
  <2>1. slots' \in [Daemons -> 0..MaxConns]
    BY <1>8, <2>0 DEF Release, TypeOK
  <2>2. QED
    BY <1>8, <2>1, HangupType DEF Release, TypeOK, dvars, cvars
<1>9. ASSUME NEW c \in Peers, Dial(c) \/ DialFails(c) \/ Again(c) PROVE TypeOK'
  BY <1>9 DEF Dial, DialFails, Again, CGoto, TypeOK, dvars, Replies
<1>10. ASSUME NEW c \in Peers, NEW cmd \in Cmds \cup {"junk"}, Send(c, cmd) PROVE TypeOK'
  BY <1>10 DEF Send, CGoto, TypeOK, dvars
<1>11. ASSUME NEW c \in Peers, NEW from, NEW reply \in {"error", out[c]},
              Returns(c, from, reply)
       PROVE  TypeOK'
  BY <1>11 DEF Returns, CGoto, TypeOK, dvars, Replies
<1>12. CASE Change \/ UNCHANGED avars
  BY <1>12 DEF Change, TypeOK, avars, dvars, cvars, svars
<1>13. QED
  BY <1>1, <1>2, <1>3, <1>4, <1>6, <1>7, <1>8, <1>9, <1>10, <1>11, <1>12, NextCases

(* Every step keeps what relates a handler to its connection. *)
LEMMA ConnStep == AInv /\ [Next]_avars => ConnInv'
<1> SUFFICES ASSUME AInv, [Next]_avars PROVE ConnInv'
  OBVIOUS
<1>0. TypeOK /\ ConnInv
  BY DEF AInv
<1> USE <1>0, AgentAssumption
<1>1. ASSUME NEW cs, Hangup(cs), UNCHANGED <<peer, cpc, asked, version>> PROVE ConnInv'
  BY <1>1 DEF Hangup, ConnInv, TypeOK
<1>2. ASSUME NEW d \in Daemons, Daemon(d) PROVE ConnInv'
  <2>1. CASE Start(d) \/ Bind(d) \/ Chmod(d) \/ AcceptFails(d)
    BY <2>1 DEF Start, Bind, Chmod, AcceptFails, ConnInv, cvars, svars
  <2>2. CASE BindFails(d) \/ ChmodFails(d) \/ RemoveAndExit(d) \/ Crash(d) \/ CloseListener(d)
    BY <1>1, <2>2 DEF BindFails, ChmodFails, RemoveAndExit, Crash, CloseListener, Exit, cvars
  <2>3. QED
    BY <1>2, <2>1, <2>2 DEF Daemon
<1>3. ASSUME NEW c \in Peers, AcceptSlot(c) \/ Decode(c) PROVE ConnInv'
  BY <1>3 DEF AcceptSlot, Decode, HGoto, ConnInv, TypeOK, dvars, cvars
<1>4. ASSUME NEW c \in Peers, AcceptBusy(c) \/ Release(c) PROVE ConnInv'
  BY <1>1, <1>4 DEF AcceptBusy, Release, cvars
<1>5. ASSUME NEW c \in Peers, NEW reply, hpc[c] \in Handling, CloseConn(c, reply)
      PROVE  ConnInv'
  BY <1>5 DEF CloseConn, ConnInv, TypeOK, cvars, Handling
<1>6. ASSUME NEW c \in Peers, BadRequest(c) \/ Answer(c) \/ OverdueReturns(c) PROVE ConnInv'
  BY <1>5, <1>6 DEF BadRequest, Answer, OverdueReturns, Handling
<1>7. ASSUME NEW c \in Peers, ServerDeadline(c) PROVE ConnInv'
  <2>1. CASE hpc[c] = "reading" /\ CloseConn(c, out[c])
    BY <1>5, <2>1 DEF Handling
  <2>2. CASE /\ HGoto(c, "working", "overdue")
             /\ UNCHANGED <<cvars, version, peer, req, stamp>>
    BY <2>2 DEF HGoto, ConnInv, TypeOK, cvars
  <2>3. QED
    BY <1>7, <2>1, <2>2 DEF ServerDeadline
<1>8. ASSUME NEW c \in Peers, Dial(c) PROVE ConnInv'
  BY <1>8 DEF Dial, CGoto, ConnInv, TypeOK
<1>9. ASSUME NEW c \in Peers, DialFails(c) PROVE ConnInv'
  BY <1>9 DEF DialFails, CGoto, ConnInv, TypeOK
<1>10. ASSUME NEW c \in Peers, Again(c) PROVE ConnInv'
  BY <1>10 DEF Again, CGoto, ConnInv, TypeOK
<1>11. ASSUME NEW c \in Peers, NEW cmd, Served(c), Send(c, cmd) PROVE ConnInv'
  BY <1>11 DEF Served, Send, CGoto, ConnInv, TypeOK
<1>12. ASSUME NEW c \in Peers, NEW from \in {"dialled", "sent"}, NEW reply,
              Returns(c, from, reply)
       PROVE  ConnInv'
  BY <1>12 DEF Returns, CGoto, ConnInv, TypeOK
<1>13. CASE Change \/ UNCHANGED avars
  BY <1>13 DEF Change, ConnInv, TypeOK, avars, cvars, svars
<1>14. QED
  BY <1>2, <1>3, <1>4, <1>6, <1>7, <1>8, <1>9, <1>10, <1>11, <1>12, <1>13, NextCases

-----------------------------------------------------------------------------
(* The invariant holds at the start, *)
LEMMA AInvInit == Init => AInv
<1> SUFFICES ASSUME Init PROVE AInv
  OBVIOUS
<1>1. 0 \in 0..MaxVersion /\ 0 \in 0..MaxConns
  BY AgentAssumption
<1>2. TypeOK
  BY <1>1 DEF Init, TypeOK, Replies
<1>3. ConnInv
  BY DEF Init, ConnInv
<1>4. \A d \in Daemons : HandledBy(d) = {}
  BY DEF Init, HandledBy, PeersOf, Handling
<1>5. SlotsCount
  BY <1>4, FS_EmptySet DEF Init, SlotsCount
<1>6. QED
  BY <1>2, <1>3, <1>5 DEF AInv

(* and so throughout. *)
LEMMA AInvCorrect == Spec => []AInv
<1>1. AInv /\ [Next]_avars => AInv'
  BY TypeStep, ConnStep, SlotsStep DEF AInv
<1>2. QED
  BY <1>1, AInvInit, PTL DEF Spec

(* The types; among them, that the slots channel never holds more than     *)
(* maxAgentConnections tokens and that no release blocks on an empty one.  *)
THEOREM TypeCorrect == Spec => []TypeOK
BY AInvCorrect, PTL DEF AInv

(* The slots channel counts the requests being handled, exactly, however   *)
(* they end and whoever else connects: no handler leaks its slot.          *)
THEOREM SlotsCorrect == Spec => []SlotsCount
BY AInvCorrect, PTL DEF AInv

(* "agent busy" is sent only while MaxConns requests are being handled. *)
THEOREM BusyCorrect == Spec => BusyMeansFull
<1>1. AInv /\ [Next]_avars =>
        [\A c \in Peers : out[c] # "busy" /\ out'[c] = "busy" =>
           Cardinality({e \in PeersOf(peer[c]) : hpc[e] \in Handling}) = MaxConns]_avars
  <2> SUFFICES ASSUME AInv, Next, NEW c \in Peers, out[c] # "busy", out'[c] = "busy"
               PROVE  Cardinality(HandledBy(peer[c])) = MaxConns
    BY DEF avars, HandledBy
  <2>0. TypeOK
    BY DEF AInv
  <2>1. ASSUME NEW e \in Peers, AcceptBusy(e)
        PROVE  Cardinality(HandledBy(peer[c])) = MaxConns
    <3>1. e = c
      BY <2>0, <2>1 DEF AcceptBusy, TypeOK
    <3>2. peer[c] \in Daemons /\ slots[peer[c]] >= MaxConns
      BY <2>1, <3>1 DEF AInv, ConnInv, AcceptBusy
    <3>3. slots[peer[c]] = MaxConns
      BY <2>0, <3>2, AgentAssumption DEF TypeOK
    <3>4. QED
      BY <3>2, <3>3 DEF AInv, SlotsCount
  <2>2. ASSUME NEW d \in Daemons, Daemon(d) PROVE FALSE
    BY <2>2 DEF Daemon, Start, Bind, BindFails, Chmod, ChmodFails, AcceptFails, CloseListener,
                RemoveAndExit, Crash, Exit, svars
  <2>3. ASSUME NEW e \in Peers, NEW reply, CloseConn(e, reply), reply \in {"error", "ok", out[e]}
        PROVE  FALSE
    BY <2>0, <2>3 DEF CloseConn, TypeOK
  <2>4. ASSUME NEW e \in Peers,
               BadRequest(e) \/ Answer(e) \/ ServerDeadline(e) \/ OverdueReturns(e)
        PROVE  FALSE
    BY <2>3, <2>4 DEF BadRequest, Answer, ServerDeadline, OverdueReturns
  <2>5. ASSUME NEW e \in Peers, AcceptSlot(e) \/ Decode(e) \/ Release(e) \/ Dial(e)
        PROVE  FALSE
    BY <2>5 DEF AcceptSlot, Decode, Release, Dial
  <2>6. ASSUME NEW e \in Peers, DialFails(e) \/ Again(e) PROVE FALSE
    BY <2>0, <2>6 DEF DialFails, Again, TypeOK
  <2>7. ASSUME NEW e \in Peers, NEW cmd, Send(e, cmd) PROVE FALSE
    BY <2>7 DEF Send
  <2>8. ASSUME NEW e \in Peers, NEW from, NEW reply \in {"error", out[e]},
               Returns(e, from, reply)
        PROVE  FALSE
    BY <2>0, <2>8 DEF Returns, TypeOK
  <2>9. CASE Change
    BY <2>9 DEF Change, svars
  <2>10. QED
    BY <2>1, <2>2, <2>4, <2>5, <2>6, <2>7, <2>8, <2>9, NextCases
<1>2. QED
  BY <1>1, AInvCorrect, PTL DEF Spec, BusyMeansFull

(* No reply is made of something looked at before its request was sent. *)
THEOREM FreshnessCorrect == Spec => ReplyIsFresh
<1>1. AInv /\ [Next]_avars =>
        [\A c \in Clients : out[c] = "nothing" /\ out'[c] = "ok" => stamp[c] >= asked[c]]_avars
  <2> SUFFICES ASSUME AInv, Next, NEW c \in Peers, out[c] = "nothing", out'[c] = "ok"
               PROVE  stamp[c] >= asked[c]
    BY DEF avars, svars, Peers
  <2>0. TypeOK
    BY DEF AInv
  <2>1. ASSUME NEW e \in Peers, Answer(e) PROVE stamp[c] >= asked[c]
    <3>1. e = c
      BY <2>0, <2>1 DEF Answer, CloseConn, TypeOK
    <3>2. QED
      BY <2>1, <3>1 DEF Answer, AInv, ConnInv
  <2>2. ASSUME NEW d \in Daemons, Daemon(d) PROVE FALSE
    BY <2>2 DEF Daemon, Start, Bind, BindFails, Chmod, ChmodFails, AcceptFails, CloseListener,
                RemoveAndExit, Crash, Exit, svars
  <2>3. ASSUME NEW e \in Peers, NEW reply, CloseConn(e, reply), reply \in {"error", out[e]}
        PROVE  FALSE
    BY <2>0, <2>3 DEF CloseConn, TypeOK
  <2>4. ASSUME NEW e \in Peers, BadRequest(e) \/ ServerDeadline(e) \/ OverdueReturns(e)
        PROVE  FALSE
    BY <2>3, <2>4 DEF BadRequest, ServerDeadline, OverdueReturns
  <2>5. ASSUME NEW e \in Peers, AcceptSlot(e) \/ Decode(e) \/ Release(e) \/ Dial(e)
        PROVE  FALSE
    BY <2>5 DEF AcceptSlot, Decode, Release, Dial
  <2>6. ASSUME NEW e \in Peers, AcceptBusy(e) \/ DialFails(e) \/ Again(e) PROVE FALSE
    BY <2>0, <2>6 DEF AcceptBusy, DialFails, Again, TypeOK
  <2>7. ASSUME NEW e \in Peers, NEW cmd, Send(e, cmd) PROVE FALSE
    BY <2>7 DEF Send
  <2>8. ASSUME NEW e \in Peers, NEW from, NEW reply \in {"error", out[e]},
               Returns(e, from, reply)
        PROVE  FALSE
    BY <2>0, <2>8 DEF Returns, TypeOK
  <2>9. CASE Change
    BY <2>9 DEF Change, svars
  <2>10. QED
    BY <2>1, <2>2, <2>4, <2>5, <2>6, <2>7, <2>8, <2>9, NextCases
<1>2. QED
  BY <1>1, AInvCorrect, PTL DEF Spec, ReplyIsFresh

-----------------------------------------------------------------------------
(* Which daemon the path leads to. *)
LEMMA PathStep == TypeOK /\ PathInv /\ [Next]_avars => PathInv'
<1> SUFFICES ASSUME TypeOK, PathInv, [Next]_avars PROVE PathInv'
  OBVIOUS
<1> USE DEF Alive, Listening
<1>1. ASSUME UNCHANGED dvars PROVE PathInv'
  BY <1>1 DEF dvars, PathInv
<1>2. ASSUME NEW d \in Daemons, Start(d) PROVE PathInv'
  <2>1. \A e \in Daemons : dpc'[e] = IF e = d THEN "bind" ELSE dpc[e]
    BY <1>2 DEF Start, DGoto, TypeOK
  <2>2. ~overlapped' => \A e \in Daemons : e # d => dpc'[e] = "off"
    BY <1>2, <2>1 DEF Start
  <2>3. QED
    BY <1>2, <2>1, <2>2 DEF Start, PathInv
<1>3. ASSUME NEW d \in Daemons, Bind(d) PROVE PathInv'
  BY <1>3 DEF Bind, DGoto, PathInv, TypeOK
<1>4. ASSUME NEW d \in Daemons, Chmod(d) PROVE PathInv'
  BY <1>4 DEF Chmod, DGoto, PathInv, TypeOK
<1>5. ASSUME NEW d \in Daemons, AcceptFails(d) PROVE PathInv'
  BY <1>5 DEF AcceptFails, PathInv
<1>6. ASSUME NEW d \in Daemons, CloseListener(d) PROVE PathInv'
  BY <1>6 DEF CloseListener, DGoto, PathInv, TypeOK
<1>7. ASSUME NEW d \in Daemons, Exit(d), Alive(d), overlapped' = overlapped,
             path' \in {path, NoSocket}, inUse' => inUse \/ (dpc[d] = "bind" /\ path # NoSocket)
      PROVE  PathInv'
  <2>1. \A e \in Daemons : dpc'[e] = IF e = d THEN "off" ELSE dpc[e]
    BY <1>7 DEF Exit, TypeOK
  <2>2. QED
    BY <1>7, <2>1 DEF PathInv
<1>8. ASSUME NEW d \in Daemons, BindFails(d) \/ ChmodFails(d) \/ RemoveAndExit(d) \/ Crash(d)
      PROVE  PathInv'
  BY <1>7, <1>8 DEF BindFails, ChmodFails, RemoveAndExit, Crash
<1>9. ASSUME NEW c \in Peers, NEW reply, CloseConn(c, reply) PROVE PathInv'
  BY <1>1, <1>9 DEF CloseConn
<1>10. ASSUME NEW c \in Peers,
              BadRequest(c) \/ Answer(c) \/ ServerDeadline(c) \/ OverdueReturns(c)
       PROVE  PathInv'
  BY <1>1, <1>9, <1>10 DEF BadRequest, Answer, ServerDeadline, OverdueReturns
<1>11. ASSUME NEW c \in Peers, NEW cmd, NEW from, NEW reply,
              \/ AcceptSlot(c) \/ AcceptBusy(c) \/ Decode(c) \/ Release(c) \/ Dial(c)
              \/ DialFails(c) \/ Again(c) \/ Send(c, cmd) \/ Returns(c, from, reply)
       PROVE  PathInv'
  BY <1>1, <1>11 DEF AcceptSlot, AcceptBusy, Decode, Release, Dial, DialFails, Again, Send, Returns
<1>12. CASE Change \/ UNCHANGED avars
  BY <1>1, <1>12 DEF Change, avars
<1>13. QED
  BY <1>2, <1>3, <1>4, <1>5, <1>6, <1>8, <1>10, <1>11, <1>12, NextCases DEF Daemon

(* A daemon started while no other is running gets the path and keeps it,  *)
(* whatever crashes and overlaps went before.                              *)
THEOREM PathCorrect == Spec => []OneDaemonOwnsThePath
<1>1. Init => PathInv
  BY DEF Init, PathInv, Alive, Listening
<1>2. PathInv => OneDaemonOwnsThePath
  BY DEF PathInv, OneDaemonOwnsThePath, Listening
<1>3. QED
  BY <1>1, <1>2, PathStep, TypeCorrect, PTL DEF Spec
=============================================================================
