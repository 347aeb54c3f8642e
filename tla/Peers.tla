--------------------------------- MODULE Peers ---------------------------------
(***************************************************************************)
(* The endpoints and sessions of the devices (platform/registry.go,        *)
(* endpoint.go, outbound.go, runtime.go) and the goroutines that share     *)
(* them:                                                                   *)
(*                                                                         *)
(*   handlers   the application's, for REGISTER and Keepalive: they Ensure *)
(*              an endpoint, Bind it to the address the request came from, *)
(*              Ensure a session and set it online; for REGISTER with      *)
(*              Expires 0 they set it offline                              *)
(*   rebinders  RebindUDPDevice, which replaces an endpoint                *)
(*   senders    PTZControl, and requests to a channel of a device          *)
(*                                                                         *)
(* A sync.Map is linearizable: each Load, Store and LoadOrStore is a step, *)
(* and so is each method of Endpoint, which holds its lock.  The triple    *)
(* that Bind stores is a number, in the order of the Binds; 0 stands for   *)
(* the nil fields of a new endpoint.                                       *)
(***************************************************************************)
EXTENDS Naturals, FiniteSets

CONSTANTS
    Devices,
    Endpoints,     \* the Endpoint objects that may be allocated
    Sessions,      \* the DeviceSession objects that may be allocated
    Handlers,
    Rebinders,
    Senders,
    MaxBinds,      \* bound: the calls of Bind
    None

ASSUME PeersAssumption ==
    /\ MaxBinds \in Nat
    /\ None \notin Devices \cup Endpoints \cup Sessions

VARIABLES
    peers,      \* DeviceRegistry.peers: device -> endpoint, or None
    binding,    \* what an endpoint was bound to last
    sessions,   \* Runtime.sessions: device -> session, or None
    online,     \* DeviceSession.IsOnline
    begun,      \* the number of handlers and rebinders that were started
    binds,      \* the number of Binds: the last one's number
    hpc,        \* where a handler is
    hdev,       \* the device whose request it handles
    hep,        \* the endpoint that Ensure returned
    hses,       \* the session that EnsureSession returned
    stale,      \* the handlers whose endpoint was replaced by a rebinder
    rpc,        \* where a rebinder is
    rdev,       \* the device it rebinds
    rep,        \* its new endpoint
    spc,        \* where a sender is
    sdev,       \* the device it sends to
    sep,        \* the endpoint it loaded
    toChannel,  \* it sends to a channel
    read,       \* the bindings that To, Conn and Source were read from
    crashed

regVars == <<peers, binding, sessions, online, begun, binds>>
handlerVars == <<hpc, hdev, hep, hses, stale>>
rebinderVars == <<rpc, rdev, rep>>
senderVars == <<spc, sdev, sep, toChannel, read>>
vars == <<peers, binding, sessions, online, begun, binds, hpc, hdev, hep,
          hses, stale, rpc, rdev, rep, spc, sdev, sep, toChannel, read,
          crashed>>

HandlerStages == {"idle", "load", "store", "bind", "sessionLoad",
                  "sessionStore", "online"}
SenderStages == {"idle", "load", "to", "conn", "source", "send"}
NothingRead == [to |-> 0, conn |-> 0, source |-> 0]

TypeOK ==
    /\ peers \in [Devices -> Endpoints \cup {None}]
    /\ binding \in [Endpoints -> Nat]
    /\ sessions \in [Devices -> Sessions \cup {None}]
    /\ online \in [Sessions -> BOOLEAN]
    /\ begun \in 0..MaxBinds /\ binds \in Nat
    /\ hpc \in [Handlers -> HandlerStages]
    /\ hdev \in [Handlers -> Devices \cup {None}]
    /\ hep \in [Handlers -> Endpoints \cup {None}]
    /\ hses \in [Handlers -> Sessions \cup {None}]
    /\ stale \subseteq Handlers
    /\ rpc \in [Rebinders -> {"idle", "bind", "store"}]
    /\ rdev \in [Rebinders -> Devices \cup {None}]
    /\ rep \in [Rebinders -> Endpoints \cup {None}]
    /\ spc \in [Senders -> SenderStages]
    /\ sdev \in [Senders -> Devices \cup {None}]
    /\ sep \in [Senders -> Endpoints \cup {None}]
    /\ toChannel \in [Senders -> BOOLEAN]
    /\ read \in [Senders -> [to : Nat, conn : Nat, source : Nat]]
    /\ crashed \in BOOLEAN
    \* what a sender reads is an endpoint
    /\ \A s \in Senders : spc[s] \notin {"idle", "load"} => sep[s] \in Endpoints

Init ==
    /\ peers = [d \in Devices |-> None]
    /\ binding = [e \in Endpoints |-> 0]
    /\ sessions = [d \in Devices |-> None]
    /\ online = [st \in Sessions |-> FALSE]
    /\ begun = 0 /\ binds = 0
    /\ hpc = [h \in Handlers |-> "idle"]
    /\ hdev = [h \in Handlers |-> None]
    /\ hep = [h \in Handlers |-> None]
    /\ hses = [h \in Handlers |-> None]
    /\ stale = {}
    /\ rpc = [r \in Rebinders |-> "idle"]
    /\ rdev = [r \in Rebinders |-> None]
    /\ rep = [r \in Rebinders |-> None]
    /\ spc = [s \in Senders |-> "idle"]
    /\ sdev = [s \in Senders |-> None]
    /\ sep = [s \in Senders |-> None]
    /\ toChannel = [s \in Senders |-> FALSE]
    /\ read = [s \in Senders |-> NothingRead]
    /\ crashed = FALSE

\* Objects nobody refers to: an endpoint that lost in LoadOrStore is garbage.
FreshEndpoints ==
    Endpoints \ ({peers[d] : d \in Devices} \cup {hep[h] : h \in Handlers}
                 \cup {rep[r] : r \in Rebinders} \cup {sep[s] : s \in Senders})
FreshSessions ==
    Sessions \ ({sessions[d] : d \in Devices} \cup {hses[h] : h \in Handlers})

\* Endpoint.Bind
Binds(e) ==
    /\ binds' = binds + 1
    /\ binding' = [binding EXCEPT ![e] = binds + 1]

-----------------------------------------------------------------------------
(* Handlers: the application's REGISTER hooks, which use Ensure, Bind and     *)
(* EnsureSession as endpoint.go:23 says and set a session online when its    *)
(* endpoint is bound.                                                        *)

HandlerGoesTo(h, stage) == hpc' = [hpc EXCEPT ![h] = stage]

\* A REGISTER or Keepalive arrives.
\* bound: each start may end in one Bind.
HandlerStarts(h, d) ==
    /\ hpc[h] = "idle"
    /\ begun < MaxBinds
    /\ begun' = begun + 1
    /\ hdev' = [hdev EXCEPT ![h] = d]
    /\ HandlerGoesTo(h, "load")
    /\ UNCHANGED <<peers, binding, sessions, online, binds, hep, hses, stale>>

\* Ensure: r.peers.Load
EnsureLoads(h) ==
    /\ hpc[h] = "load"
    /\ hep' = [hep EXCEPT ![h] = peers[hdev[h]]]
    /\ HandlerGoesTo(h, IF peers[hdev[h]] = None THEN "store" ELSE "bind")
    /\ UNCHANGED <<regVars, hdev, hses, stale>>

\* Wrong versions, each of which a property must tell from the code's: a name
\* that ends in "Wrong" says what of the definition below it is changed.
\* Here the endpoint is stored, whatever the map holds by now.
EnsureOverwritesWrong(h, e) ==
    /\ hpc[h] = "store"
    /\ e \in FreshEndpoints
    /\ peers' = [peers EXCEPT ![hdev[h]] = e]
    /\ hep' = [hep EXCEPT ![h] = e]
    /\ binding' = [binding EXCEPT ![e] = 0]
    /\ HandlerGoesTo(h, "bind")
    /\ UNCHANGED <<sessions, online, begun, binds, hdev, hses, stale>>

\* Ensure: r.peers.LoadOrStore with a new endpoint
EnsureStores(h, e) ==
    LET d == hdev[h] IN
    /\ hpc[h] = "store"
    /\ e \in FreshEndpoints
    /\ IF peers[d] = None
       THEN /\ peers' = [peers EXCEPT ![d] = e]
            /\ binding' = [binding EXCEPT ![e] = 0]
            /\ hep' = [hep EXCEPT ![h] = e]
       ELSE /\ hep' = [hep EXCEPT ![h] = peers[d]]
            /\ UNCHANGED <<peers, binding>>
    /\ HandlerGoesTo(h, "bind")
    /\ UNCHANGED <<sessions, online, begun, binds, hdev, hses, stale>>

HandlerBinds(h) ==
    /\ hpc[h] = "bind"
    /\ Binds(hep[h])
    /\ HandlerGoesTo(h, "sessionLoad")
    /\ UNCHANGED <<peers, sessions, online, begun, hdev, hep, hses, stale>>

\* EnsureSession: r.sessions.Load
SessionLoads(h) ==
    /\ hpc[h] = "sessionLoad"
    /\ hses' = [hses EXCEPT ![h] = sessions[hdev[h]]]
    /\ HandlerGoesTo(h, IF sessions[hdev[h]] = None THEN "sessionStore"
                                                    ELSE "online")
    /\ UNCHANGED <<regVars, hdev, hep, stale>>

\* EnsureSession: r.sessions.LoadOrStore with a new session
SessionStores(h, st) ==
    LET d == hdev[h] IN
    /\ hpc[h] = "sessionStore"
    /\ st \in FreshSessions
    /\ IF sessions[d] = None
       THEN /\ sessions' = [sessions EXCEPT ![d] = st]
            /\ hses' = [hses EXCEPT ![h] = st]
       ELSE /\ hses' = [hses EXCEPT ![h] = sessions[d]]
            /\ UNCHANGED sessions
    /\ HandlerGoesTo(h, "online")
    /\ UNCHANGED <<peers, binding, online, begun, binds, hdev, hep, stale>>

HandlerLeaves(h) ==
    /\ HandlerGoesTo(h, "idle")
    /\ hdev' = [hdev EXCEPT ![h] = None]
    /\ hep' = [hep EXCEPT ![h] = None]
    /\ hses' = [hses EXCEPT ![h] = None]
    /\ stale' = stale \ {h}

\* st.IsOnline = true
GoesOnline(h) ==
    /\ hpc[h] = "online"
    /\ online' = [online EXCEPT ![hses[h]] = TRUE]
    /\ HandlerLeaves(h)
    /\ UNCHANGED <<peers, binding, sessions, begun, binds>>

\* The handler of a REGISTER with Expires 0, after LoadSession.
GoesOffline(d) ==
    /\ sessions[d] # None
    /\ online' = [online EXCEPT ![sessions[d]] = FALSE]
    /\ UNCHANGED <<peers, binding, sessions, begun, binds, handlerVars>>

HandlerStep ==
    /\ ~crashed
    /\ \/ \E h \in Handlers :
             \/ \E d \in Devices : HandlerStarts(h, d)
             \/ EnsureLoads(h)
             \/ \E e \in Endpoints : EnsureStores(h, e)
             \/ HandlerBinds(h)
             \/ SessionLoads(h)
             \/ \E st \in Sessions : SessionStores(h, st)
             \/ GoesOnline(h)
       \/ \E d \in Devices : GoesOffline(d)
    /\ UNCHANGED <<rebinderVars, senderVars, crashed>>

-----------------------------------------------------------------------------
(* RebindUDPDevice *)

RebindStarts(r, d, e) ==
    /\ rpc[r] = "idle"
    /\ begun < MaxBinds
    /\ begun' = begun + 1
    /\ e \in FreshEndpoints
    /\ binding' = [binding EXCEPT ![e] = 0]
    /\ rdev' = [rdev EXCEPT ![r] = d]
    /\ rep' = [rep EXCEPT ![r] = e]
    /\ rpc' = [rpc EXCEPT ![r] = "bind"]
    /\ UNCHANGED <<peers, sessions, online, binds, handlerVars>>

\* NewUDPEndpoint binds the endpoint that nobody else knows yet.
RebindBinds(r) ==
    /\ rpc[r] = "bind"
    /\ Binds(rep[r])
    /\ rpc' = [rpc EXCEPT ![r] = "store"]
    /\ UNCHANGED <<peers, sessions, online, begun, handlerVars, rdev, rep>>

RebinderLeaves(r) ==
    /\ rpc' = [rpc EXCEPT ![r] = "idle"]
    /\ rdev' = [rdev EXCEPT ![r] = None]
    /\ rep' = [rep EXCEPT ![r] = None]

\* The endpoint is stored first and bound when the address answers.
RebindStoresUnboundWrong(r) ==
    /\ rpc[r] = "store"
    /\ peers' = [peers EXCEPT ![rdev[r]] = rep[r]]
    /\ binding' = [binding EXCEPT ![rep[r]] = 0]
    /\ stale' = stale \cup {h \in Handlers : hdev[h] = rdev[r] /\ hep[h] # None}
    /\ RebinderLeaves(r)
    /\ UNCHANGED <<sessions, online, begun, binds, hpc, hdev, hep, hses>>

\* The address was reachable: r.peers.Store
RebindStores(r) ==
    /\ rpc[r] = "store"
    /\ peers' = [peers EXCEPT ![rdev[r]] = rep[r]]
    /\ stale' = stale \cup {h \in Handlers : hdev[h] = rdev[r] /\ hep[h] # None}
    /\ RebinderLeaves(r)
    /\ UNCHANGED <<binding, sessions, online, begun, binds, hpc, hdev, hep,
                   hses>>

\* CheckUDPAddrReachable failed.
RebindFails(r) ==
    /\ rpc[r] = "store"
    /\ RebinderLeaves(r)
    /\ UNCHANGED <<regVars, handlerVars>>

RebinderStep ==
    /\ ~crashed
    /\ \E r \in Rebinders :
          \/ \E d \in Devices, e \in Endpoints : RebindStarts(r, d, e)
          \/ RebindBinds(r)
          \/ RebindStores(r)
          \/ RebindFails(r)
    /\ UNCHANGED <<senderVars, crashed>>

-----------------------------------------------------------------------------
(* Senders *)

SenderGoesTo(s, stage) == spc' = [spc EXCEPT ![s] = stage]

\* The session is not looked at.
PTZStartsOfflineWrong(s, d) ==
    /\ spc[s] = "idle"
    /\ SenderGoesTo(s, "load")
    /\ sdev' = [sdev EXCEPT ![s] = d]
    /\ UNCHANGED <<sep, toChannel, read>>

\* PTZControl: the session is there and online.
PTZStarts(s, d) ==
    /\ spc[s] = "idle"
    /\ sessions[d] # None
    /\ online[sessions[d]]
    /\ SenderGoesTo(s, "load")
    /\ sdev' = [sdev EXCEPT ![s] = d]
    /\ UNCHANGED <<sep, toChannel, read>>

SenderLeaves(s) ==
    /\ SenderGoesTo(s, "idle")
    /\ sdev' = [sdev EXCEPT ![s] = None]
    /\ sep' = [sep EXCEPT ![s] = None]
    /\ toChannel' = [toChannel EXCEPT ![s] = FALSE]
    /\ read' = [read EXCEPT ![s] = NothingRead]

\* PTZControl: LoadPeer
PTZLoads(s) ==
    /\ spc[s] = "load"
    /\ IF peers[sdev[s]] = None
       THEN SenderLeaves(s)
       ELSE /\ sep' = [sep EXCEPT ![s] = peers[sdev[s]]]
            /\ SenderGoesTo(s, "to")
            /\ UNCHANGED <<sdev, toChannel, read>>

\* The result of Load is not looked at.
ChannelStartsAnywayWrong(s, d) ==
    /\ spc[s] = "idle"
    /\ sep' = [sep EXCEPT ![s] = peers[d]]
    /\ sdev' = [sdev EXCEPT ![s] = d]
    /\ toChannel' = [toChannel EXCEPT ![s] = TRUE]
    /\ SenderGoesTo(s, "conn")
    /\ UNCHANGED read

\* NewChannelTarget, and WrapRequest with it: the channel has a To of its own
\* and reads Conn and Source from the device's endpoint.
ChannelStarts(s, d) ==
    /\ spc[s] = "idle"
    /\ peers[d] # None
    /\ sep' = [sep EXCEPT ![s] = peers[d]]
    /\ sdev' = [sdev EXCEPT ![s] = d]
    /\ toChannel' = [toChannel EXCEPT ![s] = TRUE]
    /\ SenderGoesTo(s, "conn")
    /\ UNCHANGED read

\* OutboundRequest: t.To(), t.Conn(), t.Source()
ReadTo(s) ==
    /\ spc[s] = "to"
    /\ read' = [read EXCEPT ![s].to = binding[sep[s]]]
    /\ SenderGoesTo(s, "conn")
    /\ UNCHANGED <<sdev, sep, toChannel>>

ReadConn(s) ==
    /\ spc[s] = "conn"
    /\ read' = [read EXCEPT ![s].conn = binding[sep[s]]]
    /\ SenderGoesTo(s, "source")
    /\ UNCHANGED <<sdev, sep, toChannel>>

\* The destination is the one of the To.
ReadSourceOfToWrong(s) ==
    /\ spc[s] = "source"
    /\ read' = [read EXCEPT ![s].source = IF toChannel[s] THEN binding[sep[s]]
                                          ELSE read[s].to]
    /\ SenderGoesTo(s, "send")
    /\ UNCHANGED <<sdev, sep, toChannel>>

ReadSource(s) ==
    /\ spc[s] = "source"
    /\ read' = [read EXCEPT ![s].source = binding[sep[s]]]
    /\ SenderGoesTo(s, "send")
    /\ UNCHANGED <<sdev, sep, toChannel>>

\* to.URI, and msg.conn.Network() of mustTX: neither may be nil.
Sendable(s) == read[s].conn # 0 /\ (toChannel[s] \/ read[s].to # 0)

\* svr.Request (Transaction.tla)
Sends(s) ==
    /\ spc[s] = "send"
    /\ Sendable(s)
    /\ SenderLeaves(s)

SendPanics(s) ==
    /\ spc[s] = "send"
    /\ ~Sendable(s)
    /\ crashed' = TRUE
    /\ UNCHANGED senderVars

SenderStep ==
    /\ ~crashed
    /\ \E s \in Senders :
          \/ /\ \/ \E d \in Devices : PTZStarts(s, d) \/ ChannelStarts(s, d)
                \/ PTZLoads(s)
                \/ ReadTo(s)
                \/ ReadConn(s)
                \/ ReadSource(s)
                \/ Sends(s)
             /\ UNCHANGED crashed
          \/ SendPanics(s)
    /\ UNCHANGED <<regVars, handlerVars, rebinderVars>>

-----------------------------------------------------------------------------

\* Nothing is under way, or the process has ended.
Quiet ==
    \/ crashed
    \/ /\ \A h \in Handlers : hpc[h] = "idle"
       /\ \A r \in Rebinders : rpc[r] = "idle"
       /\ \A s \in Senders : spc[s] = "idle"

Rest == Quiet /\ UNCHANGED vars

Next == HandlerStep \/ RebinderStep \/ SenderStep \/ Rest

Spec == Init /\ [][Next]_vars

-----------------------------------------------------------------------------
(* Properties *)

\* Ensure and EnsureSession give all handlers of a device the same object,
\* and the one the senders find: no Bind goes to an endpoint, and no IsOnline
\* to a session, that is not in the map, unless RebindUDPDevice replaced the
\* endpoint after Ensure had returned it.
EnsuredIsRegistered ==
    \A h \in Handlers :
        /\ hep[h] # None /\ h \notin stale => peers[hdev[h]] = hep[h]
        /\ hses[h] # None => sessions[hdev[h]] = hses[h]

Bound(d) == peers[d] # None /\ binding[peers[d]] # 0
BoundStay == \A d \in Devices : Bound(d) => Bound(d)'

\* A device that can be reached stays so: no Ensure and no RebindUDPDevice
\* puts an endpoint without an address in the place of one that has one.
BoundStays == [][BoundStay]_vars

\* PTZControl, which asks for a session that is online, gets an endpoint with
\* a To and a connection, in spite of the separate maps and locks.
PTZIsSendable == \A s \in Senders : spc[s] = "send" /\ ~toChannel[s] => Sendable(s)

\* Of the three values that OutboundRequest reads one by one, the destination
\* is the newest: no request goes to an older address than its To or its
\* connection belongs to.
SourceIsNewest ==
    \A s \in Senders : spc[s] = "send" =>
        read[s].to <= read[s].conn /\ read[s].conn <= read[s].source

\* OutboundRequest "hands the request to sip.Server, which creates the
\* transaction and sends" (outbound.go:10).
OutboundSends == ~crashed
================================================================================
