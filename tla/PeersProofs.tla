------------------------------ MODULE PeersProofs ------------------------------
(***************************************************************************)
(* Theorems about Peers, for any number of devices, objects, handlers,     *)
(* rebinders, senders and Binds.                                           *)
(***************************************************************************)
EXTENDS Peers, TLAPS

-----------------------------------------------------------------------------
(* The inductive invariant *)

\* What a handler holds, by where it is; once it has bound its endpoint its
\* device can be reached, through that endpoint or through a rebinder's.
HandlerInv ==
    \A h \in Handlers :
        /\ hpc[h] # "idle" => hdev[h] \in Devices
        /\ hpc[h] \in {"idle", "load",
           "store"} => hep[h] = None /\ h \notin stale
        /\ hpc[h] = "bind" => peers[hdev[h]] # None
        /\ h \in stale => Bound(hdev[h])
        /\ hpc[h] \notin {"idle", "load", "store"} => hep[h] \in Endpoints
        /\ hpc[h] \in {"sessionLoad", "sessionStore",
           "online"} => Bound(hdev[h])
        /\ hpc[h] = "online" => hses[h] \in Sessions
        /\ hpc[h] # "online" => hses[h] = None

RebinderInv ==
    \A r \in Rebinders :
        /\ rpc[r] # "idle" => rdev[r] \in Devices /\ rep[r] \in Endpoints
        /\ rpc[r] = "store" => binding[rep[r]] # 0

\* Sessions are not shared, and one that is online belongs to a device that
\* can be reached.
SessionInv ==
    /\ \A c,
       d \in Devices : sessions[c] = sessions[d] /\ sessions[c] # None => c = d
    /\ \A st \in Sessions : online[st] => \E d \in Devices : sessions[d] = st
    /\ \A d \in Devices : sessions[d] # None /\ online[sessions[d]] => Bound(d)

\* The Binds are numbered in their order.
BindingInv == \A e \in Endpoints : binding[e] <= binds

\* A sender has read bindings of its endpoint, one after the other.
SenderInv ==
    \A s \in Senders :
        /\ spc[s] = "load" => sdev[s] \in Devices /\ Bound(sdev[s])
        /\ spc[s] \in {"idle", "load", "to"} =>
              ~toChannel[s] /\ read[s] = NothingRead
        /\ spc[s] \in {"to", "conn", "source", "send"} /\ ~toChannel[s] =>
              binding[sep[s]] # 0
        /\ spc[s] = "conn" => read[s].to <= binding[sep[s]]
        /\ spc[s] = "source" => read[s].conn <= binding[sep[s]]
        /\ spc[s] \in {"conn", "source", "send"} /\ ~toChannel[s] =>
              read[s].to # 0
        /\ spc[s] \in {"source", "send"} => read[s].to <= read[s].conn
        /\ spc[s] \in {"source", "send"} /\ ~toChannel[s] => read[s].conn # 0
        /\ spc[s] = "send" => read[s].conn <= read[s].source

IInv == /\ TypeOK /\ HandlerInv /\ EnsuredIsRegistered /\ RebinderInv
        /\ SessionInv /\ BindingInv /\ SenderInv

LEMMA InitIInv == Init => IInv
<1> SUFFICES ASSUME Init PROVE IInv
  OBVIOUS
<1>1. TypeOK
  <2>1. begun \in 0..MaxBinds
    BY PeersAssumption DEF PeersAssumption, Init
  <2>2. read \in [Senders -> [to : Nat, conn : Nat, source : Nat]]
    BY DEF Init, NothingRead
  <2>3. crashed \in BOOLEAN
    BY DEF Init
  <2>4. /\ online \in [Sessions -> BOOLEAN]
        /\ toChannel \in [Senders -> BOOLEAN]
    BY DEF Init
  <2> QED
    BY <2>1, <2>2, <2>3, <2>4 DEF Init, TypeOK, HandlerStages, SenderStages
<1>2. HandlerInv /\ EnsuredIsRegistered /\ RebinderInv
  BY DEF Init, HandlerInv, EnsuredIsRegistered, RebinderInv
<1>3. SessionInv /\ BindingInv /\ SenderInv
  BY DEF Init, SessionInv, BindingInv, SenderInv
<1> QED
  BY <1>1, <1>2, <1>3 DEF IInv

LEMMA HandlerStepIInv ==
    ASSUME IInv, HandlerStep
    PROVE  IInv'
<1> USE PeersAssumption DEF IInv, regVars, handlerVars, rebinderVars, senderVars
<1>1. ASSUME NEW h \in Handlers, NEW d \in Devices, HandlerStarts(h, d),
             UNCHANGED <<rebinderVars, senderVars, crashed>>
      PROVE  IInv'
  <2> USE <1>1 DEF HandlerStarts, HandlerGoesTo, TypeOK
  <2>1. TypeOK'
    <3>1. /\ begun' \in 0..MaxBinds
          /\ hdev' \in [Handlers -> Devices \cup {None}]
          /\ hpc' \in [Handlers -> HandlerStages]
      BY DEF HandlerInv, HandlerStages
    <3>2. UNCHANGED <<peers, binding, sessions, online, binds, hep, hses,
                    stale, rebinderVars, senderVars, crashed>>
      OBVIOUS
    <3> QED
      BY <3>1, <3>2
  <2>2. HandlerInv'
    BY DEF HandlerInv, Bound
  <2>3. EnsuredIsRegistered'
    BY DEF EnsuredIsRegistered, HandlerInv
  <2>4. RebinderInv'
    BY DEF RebinderInv
  <2>5. SessionInv'
    BY DEF SessionInv, Bound
  <2>6. BindingInv'
    BY DEF BindingInv
  <2>7. SenderInv'
    BY DEF SenderInv, Bound
  <2> QED
    BY <2>1, <2>2, <2>3, <2>4, <2>5, <2>6, <2>7
<1>2. ASSUME NEW h \in Handlers, EnsureLoads(h),
             UNCHANGED <<rebinderVars, senderVars, crashed>>
      PROVE  IInv'
  <2> USE <1>2 DEF EnsureLoads, HandlerGoesTo, TypeOK
  <2>1. TypeOK'
    <3>1. /\ hep' \in [Handlers -> Endpoints \cup {None}]
          /\ hpc' \in [Handlers -> HandlerStages]
      BY DEF HandlerInv, HandlerStages
    <3>2. UNCHANGED <<regVars, hdev, hses, stale, rebinderVars, senderVars,
                    crashed>>
      OBVIOUS
    <3> QED
      BY <3>1, <3>2
  <2>2. HandlerInv'
    BY DEF HandlerInv, Bound
  <2>3. EnsuredIsRegistered'
    BY DEF EnsuredIsRegistered
  <2>4. RebinderInv'
    BY DEF RebinderInv
  <2>5. SessionInv'
    BY DEF SessionInv, Bound
  <2>6. BindingInv'
    BY DEF BindingInv
  <2>7. SenderInv'
    BY DEF SenderInv, Bound
  <2> QED
    BY <2>1, <2>2, <2>3, <2>4, <2>5, <2>6, <2>7
<1>3. ASSUME NEW h \in Handlers, NEW e \in Endpoints, EnsureStores(h, e),
             UNCHANGED <<rebinderVars, senderVars, crashed>>
      PROVE  IInv'
  <2> USE <1>3 DEF EnsureStores, HandlerGoesTo, FreshEndpoints, TypeOK
  <2>1. TypeOK'
    <3>1. peers' \in [Devices -> Endpoints \cup {None}]
      OBVIOUS
    <3>2. binding' \in [Endpoints -> Nat]
      OBVIOUS
    <3>3. hep' \in [Handlers -> Endpoints \cup {None}]
      BY DEF HandlerInv
    <3>4. hpc' \in [Handlers -> HandlerStages]
      BY DEF HandlerStages
    <3>5. UNCHANGED <<sessions, online, begun, binds, hdev, hses, stale,
                    rebinderVars, senderVars, crashed>>
      OBVIOUS
    <3> QED
      BY <3>1, <3>2, <3>3, <3>4, <3>5
  <2>2. HandlerInv'
    BY DEF HandlerInv, Bound
  <2>3. EnsuredIsRegistered'
    BY DEF EnsuredIsRegistered, HandlerInv
  <2>4. RebinderInv'
    BY DEF RebinderInv
  <2>5. SessionInv'
    BY DEF SessionInv, Bound
  <2>6. BindingInv'
    BY DEF BindingInv
  <2>7. SenderInv'
    BY DEF SenderInv, Bound
  <2> QED
    BY <2>1, <2>2, <2>3, <2>4, <2>5, <2>6, <2>7
<1>4. ASSUME NEW h \in Handlers, HandlerBinds(h),
             UNCHANGED <<rebinderVars, senderVars, crashed>>
      PROVE  IInv'
  <2> USE <1>4 DEF HandlerBinds, Binds, HandlerGoesTo, TypeOK
  <2>1. TypeOK'
    <3>1. /\ binding' \in [Endpoints -> Nat]
          /\ binds' \in Nat
          /\ hpc' \in [Handlers -> HandlerStages]
      BY DEF HandlerInv, HandlerStages
    <3>2. UNCHANGED <<peers, sessions, online, begun, hdev, hep, hses, stale,
                    rebinderVars, senderVars, crashed>>
      OBVIOUS
    <3> QED
      BY <3>1, <3>2
  <2>2. HandlerInv'
    BY DEF HandlerInv, Bound, EnsuredIsRegistered
  <2>3. EnsuredIsRegistered'
    BY DEF EnsuredIsRegistered
  <2>4. RebinderInv'
    BY DEF RebinderInv
  <2>5. SessionInv'
    BY DEF SessionInv, Bound
  <2>6. BindingInv'
    BY DEF BindingInv
  <2>7. SenderInv'
    BY DEF SenderInv, Bound, BindingInv
  <2> QED
    BY <2>1, <2>2, <2>3, <2>4, <2>5, <2>6, <2>7
<1>5. ASSUME NEW h \in Handlers, SessionLoads(h),
             UNCHANGED <<rebinderVars, senderVars, crashed>>
      PROVE  IInv'
  <2> USE <1>5 DEF SessionLoads, HandlerGoesTo, TypeOK
  <2>1. TypeOK'
    <3>1. /\ hses' \in [Handlers -> Sessions \cup {None}]
          /\ hpc' \in [Handlers -> HandlerStages]
      BY DEF HandlerInv, HandlerStages
    <3>2. UNCHANGED <<regVars, hdev, hep, stale, rebinderVars, senderVars,
                    crashed>>
      OBVIOUS
    <3> QED
      BY <3>1, <3>2
  <2>2. HandlerInv'
    BY DEF HandlerInv, Bound
  <2>3. EnsuredIsRegistered'
    BY DEF EnsuredIsRegistered
  <2>4. RebinderInv'
    BY DEF RebinderInv
  <2>5. SessionInv'
    BY DEF SessionInv, Bound
  <2>6. BindingInv'
    BY DEF BindingInv
  <2>7. SenderInv'
    BY DEF SenderInv, Bound
  <2> QED
    BY <2>1, <2>2, <2>3, <2>4, <2>5, <2>6, <2>7
<1>6. ASSUME NEW h \in Handlers, NEW st \in Sessions, SessionStores(h, st),
             UNCHANGED <<rebinderVars, senderVars, crashed>>
      PROVE  IInv'
  <2> USE <1>6 DEF SessionStores, HandlerGoesTo, FreshSessions, TypeOK
  <2>1. TypeOK'
    <3>1. sessions' \in [Devices -> Sessions \cup {None}]
      BY DEF HandlerInv
    <3>2. hses' \in [Handlers -> Sessions \cup {None}]
      BY DEF HandlerInv
    <3>3. hpc' \in [Handlers -> HandlerStages]
      BY DEF HandlerStages
    <3>4. UNCHANGED <<peers, binding, online, begun, binds, hdev, hep, stale,
                    rebinderVars, senderVars, crashed>>
      OBVIOUS
    <3> QED
      BY <3>1, <3>2, <3>3, <3>4
  <2>2. HandlerInv'
    BY DEF HandlerInv, Bound
  <2>3. EnsuredIsRegistered'
    BY DEF EnsuredIsRegistered, HandlerInv
  <2>4. RebinderInv'
    BY DEF RebinderInv
  <2>5. SessionInv'
    <3>1. \A d \in Devices : Bound(d) => Bound(d)'
      BY DEF Bound
    <3>2. ~online[st]
      BY DEF SessionInv
    <3>3. hdev[h] \in Devices /\ Bound(hdev[h])
      BY DEF HandlerInv
    <3>4. CASE sessions[hdev[h]] = None
      <4>1. /\ sessions' = [sessions EXCEPT ![hdev[h]] = st]
            /\ online' = online
        BY <3>4
      <4>2. \A c \in Devices : sessions[c] # st
        OBVIOUS
      <4>3. \A c, d \in Devices :
               sessions'[c] = sessions'[d] /\ sessions'[c] # None => c = d
        BY <3>3, <4>1, <4>2 DEF SessionInv
      <4>4. \A o \in Sessions :
               online'[o] => \E d \in Devices : sessions'[d] = o
        BY <3>3, <3>4, <4>1, PeersAssumption DEF SessionInv, PeersAssumption
      <4>5. \A d \in Devices :
               sessions'[d] # None /\ online'[sessions'[d]] => Bound(d)'
        BY <3>1, <3>2, <3>3, <4>1 DEF SessionInv
      <4> QED
        BY <4>3, <4>4, <4>5 DEF SessionInv
    <3>5. CASE sessions[hdev[h]] # None
      BY <3>1, <3>5 DEF SessionInv
    <3> QED
      BY <3>4, <3>5
  <2>6. BindingInv'
    BY DEF BindingInv
  <2>7. SenderInv'
    BY DEF SenderInv, Bound
  <2> QED
    BY <2>1, <2>2, <2>3, <2>4, <2>5, <2>6, <2>7
<1>7. ASSUME NEW h \in Handlers, GoesOnline(h),
             UNCHANGED <<rebinderVars, senderVars, crashed>>
      PROVE  IInv'
  <2> USE <1>7 DEF GoesOnline, HandlerLeaves, HandlerGoesTo, TypeOK
  <2>1. TypeOK'
    <3>1. /\ hpc' \in [Handlers -> HandlerStages]
          /\ hdev' \in [Handlers -> Devices \cup {None}]
          /\ hep' \in [Handlers -> Endpoints \cup {None}]
          /\ hses' \in [Handlers -> Sessions \cup {None}]
          /\ stale' \subseteq Handlers
      BY DEF HandlerInv, HandlerStages
    <3>2. online' \in [Sessions -> BOOLEAN]
      BY DEF HandlerInv, HandlerStages
    <3>3. UNCHANGED <<peers, binding, sessions, begun, binds, rebinderVars,
                    senderVars, crashed>>
      OBVIOUS
    <3> QED
      BY <3>1, <3>2, <3>3
  <2>2. HandlerInv'
    BY DEF HandlerInv, Bound
  <2>3. EnsuredIsRegistered'
    BY DEF EnsuredIsRegistered
  <2>4. RebinderInv'
    BY DEF RebinderInv
  <2>5. SessionInv'
    BY DEF SessionInv, Bound, HandlerInv, EnsuredIsRegistered
  <2>6. BindingInv'
    BY DEF BindingInv
  <2>7. SenderInv'
    BY DEF SenderInv, Bound
  <2> QED
    BY <2>1, <2>2, <2>3, <2>4, <2>5, <2>6, <2>7
<1>8. ASSUME NEW d \in Devices, GoesOffline(d),
             UNCHANGED <<rebinderVars, senderVars, crashed>>
      PROVE  IInv'
  <2> USE <1>8 DEF GoesOffline, TypeOK
  <2>1. TypeOK'
    OBVIOUS
  <2>2. HandlerInv'
    BY DEF HandlerInv, Bound
  <2>3. EnsuredIsRegistered'
    BY DEF EnsuredIsRegistered
  <2>4. RebinderInv'
    BY DEF RebinderInv
  <2>5. SessionInv'
    BY DEF SessionInv, Bound
  <2>6. BindingInv'
    BY DEF BindingInv
  <2>7. SenderInv'
    BY DEF SenderInv, Bound
  <2> QED
    BY <2>1, <2>2, <2>3, <2>4, <2>5, <2>6, <2>7
<1> QED
  BY <1>1, <1>2, <1>3, <1>4, <1>5, <1>6, <1>7, <1>8 DEF HandlerStep

LEMMA RebinderStepIInv ==
    ASSUME IInv, RebinderStep
    PROVE  IInv'
<1> USE PeersAssumption DEF IInv, regVars, handlerVars, rebinderVars, senderVars
<1>1. ASSUME NEW r \in Rebinders, NEW d \in Devices, NEW e \in Endpoints,
   RebindStarts(r, d, e),
             UNCHANGED <<senderVars, crashed>>
      PROVE  IInv'
  <2> USE <1>1 DEF RebindStarts, FreshEndpoints, TypeOK
  <2>1. TypeOK'
    OBVIOUS
  <2>2. HandlerInv'
    BY DEF HandlerInv, Bound
  <2>3. EnsuredIsRegistered'
    BY DEF EnsuredIsRegistered
  <2>4. RebinderInv'
    BY DEF RebinderInv
  <2>5. SessionInv'
    BY DEF SessionInv, Bound
  <2>6. BindingInv'
    BY DEF BindingInv
  <2>7. SenderInv'
    BY DEF SenderInv, Bound
  <2> QED
    BY <2>1, <2>2, <2>3, <2>4, <2>5, <2>6, <2>7
<1>2. ASSUME NEW r \in Rebinders, RebindBinds(r),
             UNCHANGED <<senderVars, crashed>>
      PROVE  IInv'
  <2> USE <1>2 DEF RebindBinds, Binds, TypeOK
  <2>1. TypeOK'
    <3>1. /\ binding' \in [Endpoints -> Nat]
          /\ binds' \in Nat
          /\ rpc' \in [Rebinders -> {"idle", "bind", "store"}]
      BY DEF RebinderInv
    <3>2. UNCHANGED <<peers, sessions, online, begun, handlerVars, rdev, rep,
                    senderVars, crashed>>
      OBVIOUS
    <3> QED
      BY <3>1, <3>2
  <2>2. HandlerInv'
    BY DEF HandlerInv, Bound
  <2>3. EnsuredIsRegistered'
    BY DEF EnsuredIsRegistered
  <2>4. RebinderInv'
    BY DEF RebinderInv
  <2>5. SessionInv'
    BY DEF SessionInv, Bound
  <2>6. BindingInv'
    BY DEF BindingInv
  <2>7. SenderInv'
    BY DEF SenderInv, Bound, BindingInv
  <2> QED
    BY <2>1, <2>2, <2>3, <2>4, <2>5, <2>6, <2>7
<1>3. ASSUME NEW r \in Rebinders, RebindStores(r),
             UNCHANGED <<senderVars, crashed>>
      PROVE  IInv'
  <2> USE <1>3 DEF RebindStores, RebinderLeaves, TypeOK
  <2>1. TypeOK'
    OBVIOUS
  <2>2. HandlerInv'
    BY DEF HandlerInv, Bound, RebinderInv
  <2>3. EnsuredIsRegistered'
    BY DEF EnsuredIsRegistered
  <2>4. RebinderInv'
    BY DEF RebinderInv
  <2>5. SessionInv'
    BY DEF SessionInv, Bound, RebinderInv
  <2>6. BindingInv'
    BY DEF BindingInv
  <2>7. SenderInv'
    BY DEF SenderInv, Bound, RebinderInv
  <2> QED
    BY <2>1, <2>2, <2>3, <2>4, <2>5, <2>6, <2>7
<1>4. ASSUME NEW r \in Rebinders, RebindFails(r),
             UNCHANGED <<senderVars, crashed>>
      PROVE  IInv'
  <2> USE <1>4 DEF RebindFails, RebinderLeaves, TypeOK
  <2>1. TypeOK'
    OBVIOUS
  <2>2. HandlerInv'
    BY DEF HandlerInv, Bound
  <2>3. EnsuredIsRegistered'
    BY DEF EnsuredIsRegistered
  <2>4. RebinderInv'
    BY DEF RebinderInv
  <2>5. SessionInv'
    BY DEF SessionInv, Bound
  <2>6. BindingInv'
    BY DEF BindingInv
  <2>7. SenderInv'
    BY DEF SenderInv, Bound
  <2> QED
    BY <2>1, <2>2, <2>3, <2>4, <2>5, <2>6, <2>7
<1> QED
  BY <1>1, <1>2, <1>3, <1>4 DEF RebinderStep

LEMMA SenderStepIInv ==
    ASSUME IInv, SenderStep
    PROVE  IInv'
<1> USE PeersAssumption DEF IInv, regVars, handlerVars, rebinderVars, senderVars
<1>1. ASSUME NEW s \in Senders, NEW d \in Devices, PTZStarts(s, d),
             UNCHANGED <<regVars, handlerVars, rebinderVars, crashed>>
      PROVE  IInv'
  <2> USE <1>1 DEF PTZStarts, SenderGoesTo, TypeOK
  <2>1. TypeOK'
    <3>1. sdev' \in [Senders -> Devices \cup {None}]
      BY DEF SenderInv, SenderStages
    <3>2. spc' \in [Senders -> SenderStages]
      BY DEF SenderInv, SenderStages
    <3>3. \A c \in Senders :
             spc'[c] \notin {"idle", "load"} => sep'[c] \in Endpoints
      BY DEF SenderInv, SenderStages
    <3>4. UNCHANGED <<regVars, handlerVars, rebinderVars, sep, toChannel,
                    read, crashed>>
      OBVIOUS
    <3> QED
      BY <3>1, <3>2, <3>3, <3>4
  <2>2. HandlerInv'
    BY DEF HandlerInv, Bound
  <2>3. EnsuredIsRegistered'
    BY DEF EnsuredIsRegistered
  <2>4. RebinderInv'
    BY DEF RebinderInv
  <2>5. SessionInv'
    BY DEF SessionInv, Bound
  <2>6. BindingInv'
    BY DEF BindingInv
  <2>7. SenderInv'
    BY DEF SenderInv, Bound, SessionInv
  <2> QED
    BY <2>1, <2>2, <2>3, <2>4, <2>5, <2>6, <2>7
<1>2. ASSUME NEW s \in Senders, NEW d \in Devices, ChannelStarts(s, d),
             UNCHANGED <<regVars, handlerVars, rebinderVars, crashed>>
      PROVE  IInv'
  <2> USE <1>2 DEF ChannelStarts, SenderGoesTo, NothingRead, TypeOK
  <2>1. TypeOK'
    <3>1. /\ sdev' \in [Senders -> Devices \cup {None}]
          /\ sep' \in [Senders -> Endpoints \cup {None}]
      BY DEF SenderInv, SenderStages
    <3>2. spc' \in [Senders -> SenderStages]
      BY DEF SenderInv, SenderStages
    <3>3. toChannel' \in [Senders -> BOOLEAN]
      BY DEF SenderInv, SenderStages
    <3>4. \A c \in Senders :
             spc'[c] \notin {"idle", "load"} => sep'[c] \in Endpoints
      BY DEF SenderInv, SenderStages
    <3>5. UNCHANGED <<regVars, handlerVars, rebinderVars, read, crashed>>
      OBVIOUS
    <3> QED
      BY <3>1, <3>2, <3>3, <3>4, <3>5
  <2>2. HandlerInv'
    BY DEF HandlerInv, Bound
  <2>3. EnsuredIsRegistered'
    BY DEF EnsuredIsRegistered
  <2>4. RebinderInv'
    BY DEF RebinderInv
  <2>5. SessionInv'
    BY DEF SessionInv, Bound
  <2>6. BindingInv'
    BY DEF BindingInv
  <2>7. SenderInv'
    BY DEF SenderInv, Bound
  <2> QED
    BY <2>1, <2>2, <2>3, <2>4, <2>5, <2>6, <2>7
<1>3. ASSUME NEW s \in Senders, PTZLoads(s),
             UNCHANGED <<regVars, handlerVars, rebinderVars, crashed>>
      PROVE  IInv'
  <2> USE <1>3 DEF PTZLoads, SenderGoesTo, SenderLeaves, NothingRead, TypeOK
  <2>1. TypeOK'
    <3>1. /\ sdev' \in [Senders -> Devices \cup {None}]
          /\ sep' \in [Senders -> Endpoints \cup {None}]
          /\ read' \in [Senders -> [to : Nat, conn : Nat, source : Nat]]
      BY DEF SenderInv, SenderStages, Bound
    <3>2. spc' \in [Senders -> SenderStages]
      BY DEF SenderInv, SenderStages, Bound
    <3>3. toChannel' \in [Senders -> BOOLEAN]
      BY DEF SenderInv, SenderStages, Bound
    <3>4. \A c \in Senders :
             spc'[c] \notin {"idle", "load"} => sep'[c] \in Endpoints
      BY DEF SenderInv, SenderStages, Bound
    <3>5. UNCHANGED <<regVars, handlerVars, rebinderVars, crashed>>
      OBVIOUS
    <3> QED
      BY <3>1, <3>2, <3>3, <3>4, <3>5
  <2>2. HandlerInv'
    BY DEF HandlerInv, Bound
  <2>3. EnsuredIsRegistered'
    BY DEF EnsuredIsRegistered
  <2>4. RebinderInv'
    BY DEF RebinderInv
  <2>5. SessionInv'
    BY DEF SessionInv, Bound
  <2>6. BindingInv'
    BY DEF BindingInv
  <2>7. SenderInv'
    BY DEF SenderInv, Bound
  <2> QED
    BY <2>1, <2>2, <2>3, <2>4, <2>5, <2>6, <2>7
<1>4. ASSUME NEW s \in Senders, ReadTo(s),
             UNCHANGED <<regVars, handlerVars, rebinderVars, crashed>>
      PROVE  IInv'
  <2> USE <1>4 DEF ReadTo, SenderGoesTo, TypeOK
  <2>1. TypeOK'
    <3>1. read' \in [Senders -> [to : Nat, conn : Nat, source : Nat]]
      BY DEF SenderInv, SenderStages
    <3>2. spc' \in [Senders -> SenderStages]
      BY DEF SenderInv, SenderStages
    <3>3. \A c \in Senders :
             spc'[c] \notin {"idle", "load"} => sep'[c] \in Endpoints
      BY DEF SenderInv, SenderStages
    <3>4. UNCHANGED <<regVars, handlerVars, rebinderVars, sdev, sep,
                    toChannel, crashed>>
      OBVIOUS
    <3> QED
      BY <3>1, <3>2, <3>3, <3>4
  <2>2. HandlerInv'
    BY DEF HandlerInv, Bound
  <2>3. EnsuredIsRegistered'
    BY DEF EnsuredIsRegistered
  <2>4. RebinderInv'
    BY DEF RebinderInv
  <2>5. SessionInv'
    BY DEF SessionInv, Bound
  <2>6. BindingInv'
    BY DEF BindingInv
  <2>7. SenderInv'
    BY DEF SenderInv, Bound
  <2> QED
    BY <2>1, <2>2, <2>3, <2>4, <2>5, <2>6, <2>7
<1>5. ASSUME NEW s \in Senders, ReadConn(s),
             UNCHANGED <<regVars, handlerVars, rebinderVars, crashed>>
      PROVE  IInv'
  <2> USE <1>5 DEF ReadConn, SenderGoesTo, TypeOK
  <2>1. TypeOK'
    <3>1. read' \in [Senders -> [to : Nat, conn : Nat, source : Nat]]
      BY DEF SenderInv, SenderStages
    <3>2. spc' \in [Senders -> SenderStages]
      BY DEF SenderInv, SenderStages
    <3>3. \A c \in Senders :
             spc'[c] \notin {"idle", "load"} => sep'[c] \in Endpoints
      BY DEF SenderInv, SenderStages
    <3>4. UNCHANGED <<regVars, handlerVars, rebinderVars, sdev, sep,
                    toChannel, crashed>>
      OBVIOUS
    <3> QED
      BY <3>1, <3>2, <3>3, <3>4
  <2>2. HandlerInv'
    BY DEF HandlerInv, Bound
  <2>3. EnsuredIsRegistered'
    BY DEF EnsuredIsRegistered
  <2>4. RebinderInv'
    BY DEF RebinderInv
  <2>5. SessionInv'
    BY DEF SessionInv, Bound
  <2>6. BindingInv'
    BY DEF BindingInv
  <2>7. SenderInv'
    BY DEF SenderInv, Bound
  <2> QED
    BY <2>1, <2>2, <2>3, <2>4, <2>5, <2>6, <2>7
<1>6. ASSUME NEW s \in Senders, ReadSource(s),
             UNCHANGED <<regVars, handlerVars, rebinderVars, crashed>>
      PROVE  IInv'
  <2> USE <1>6 DEF ReadSource, SenderGoesTo, TypeOK
  <2>1. TypeOK'
    <3>1. read' \in [Senders -> [to : Nat, conn : Nat, source : Nat]]
      BY DEF SenderInv, SenderStages
    <3>2. spc' \in [Senders -> SenderStages]
      BY DEF SenderInv, SenderStages
    <3>3. \A c \in Senders :
             spc'[c] \notin {"idle", "load"} => sep'[c] \in Endpoints
      BY DEF SenderInv, SenderStages
    <3>4. UNCHANGED <<regVars, handlerVars, rebinderVars, sdev, sep,
                    toChannel, crashed>>
      OBVIOUS
    <3> QED
      BY <3>1, <3>2, <3>3, <3>4
  <2>2. HandlerInv'
    BY DEF HandlerInv, Bound
  <2>3. EnsuredIsRegistered'
    BY DEF EnsuredIsRegistered
  <2>4. RebinderInv'
    BY DEF RebinderInv
  <2>5. SessionInv'
    BY DEF SessionInv, Bound
  <2>6. BindingInv'
    BY DEF BindingInv
  <2>7. SenderInv'
    BY DEF SenderInv, Bound
  <2> QED
    BY <2>1, <2>2, <2>3, <2>4, <2>5, <2>6, <2>7
<1>7. ASSUME NEW s \in Senders, Sends(s),
             UNCHANGED <<regVars, handlerVars, rebinderVars, crashed>>
      PROVE  IInv'
  <2> USE <1>7 DEF Sends, SenderGoesTo, SenderLeaves, NothingRead, TypeOK
  <2>1. TypeOK'
    <3>1. /\ sdev' \in [Senders -> Devices \cup {None}]
          /\ sep' \in [Senders -> Endpoints \cup {None}]
          /\ read' \in [Senders -> [to : Nat, conn : Nat, source : Nat]]
      BY DEF SenderInv, SenderStages
    <3>2. spc' \in [Senders -> SenderStages]
      BY DEF SenderInv, SenderStages
    <3>3. toChannel' \in [Senders -> BOOLEAN]
      BY DEF SenderInv, SenderStages
    <3>4. \A c \in Senders :
             spc'[c] \notin {"idle", "load"} => sep'[c] \in Endpoints
      BY DEF SenderInv, SenderStages
    <3>5. UNCHANGED <<regVars, handlerVars, rebinderVars, crashed>>
      OBVIOUS
    <3> QED
      BY <3>1, <3>2, <3>3, <3>4, <3>5
  <2>2. HandlerInv'
    BY DEF HandlerInv, Bound
  <2>3. EnsuredIsRegistered'
    BY DEF EnsuredIsRegistered
  <2>4. RebinderInv'
    BY DEF RebinderInv
  <2>5. SessionInv'
    BY DEF SessionInv, Bound
  <2>6. BindingInv'
    BY DEF BindingInv
  <2>7. SenderInv'
    BY DEF SenderInv, Bound
  <2> QED
    BY <2>1, <2>2, <2>3, <2>4, <2>5, <2>6, <2>7
<1>8. ASSUME NEW s \in Senders, SendPanics(s),
             UNCHANGED <<regVars, handlerVars, rebinderVars>>
      PROVE  IInv'
  <2> USE <1>8 DEF SendPanics, TypeOK
  <2>1. TypeOK'
    OBVIOUS
  <2>2. HandlerInv'
    BY DEF HandlerInv, Bound
  <2>3. EnsuredIsRegistered'
    BY DEF EnsuredIsRegistered
  <2>4. RebinderInv'
    BY DEF RebinderInv
  <2>5. SessionInv'
    BY DEF SessionInv, Bound
  <2>6. BindingInv'
    BY DEF BindingInv
  <2>7. SenderInv'
    BY DEF SenderInv, Bound
  <2> QED
    BY <2>1, <2>2, <2>3, <2>4, <2>5, <2>6, <2>7
<1> QED
  BY <1>1, <1>2, <1>3, <1>4, <1>5, <1>6, <1>7, <1>8 DEF SenderStep

LEMMA NextIInv == IInv /\ [Next]_vars => IInv'
<1> SUFFICES ASSUME IInv, [Next]_vars PROVE IInv'
  OBVIOUS
<1>1. CASE Rest \/ UNCHANGED vars
  <2>1. UNCHANGED vars
    BY <1>1 DEF Rest
  <2>2. TypeOK' /\ EnsuredIsRegistered'
    BY <2>1 DEF vars, IInv, TypeOK, EnsuredIsRegistered
  <2>3. HandlerInv' /\ RebinderInv'
    BY <2>1 DEF vars, IInv, HandlerInv, RebinderInv, Bound
  <2>4. SessionInv' /\ BindingInv' /\ SenderInv'
    BY <2>1 DEF vars, IInv, SessionInv, BindingInv, SenderInv, Bound
  <2> QED
    BY <2>2, <2>3, <2>4 DEF IInv
<1> QED
  BY <1>1, HandlerStepIInv, RebinderStepIInv, SenderStepIInv DEF Next

LEMMA Inductive == Spec => []IInv
BY InitIInv, NextIInv, PTL DEF Spec

-----------------------------------------------------------------------------
(* Theorems *)

\* Type correctness, and what a sender reads is an endpoint: neither
\* PTZControl nor NewChannelTarget goes on with a device they did not find.
THEOREM TypeCorrect == Spec => []TypeOK
BY Inductive, PTL DEF IInv

\* However the handlers of a device race, Ensure and EnsureSession give all of
\* them the endpoint and the session in the maps, as long as RebindUDPDevice
\* has not replaced the endpoint since.
THEOREM EnsuredObjects == Spec => []EnsuredIsRegistered
BY Inductive, PTL DEF IInv

\* PTZControl, which reads sessions and endpoints one after the other, sends
\* on an endpoint that was bound.
THEOREM PTZSends == Spec => []PTZIsSendable
<1>1. IInv => PTZIsSendable
  BY DEF IInv, TypeOK, SenderInv, PTZIsSendable, Sendable
<1> QED
  BY <1>1, Inductive, PTL

\* OutboundRequest never combines a destination with the To or the connection
\* of a later Bind.
THEOREM NewestSource == Spec => []SourceIsNewest
<1>1. IInv => SourceIsNewest
  BY DEF IInv, SenderInv, SourceIsNewest
<1> QED
  BY <1>1, Inductive, PTL

\* A device that can be reached stays so under every Ensure, Bind and
\* RebindUDPDevice.
THEOREM ReachableStays == Spec => BoundStays
<1>1. IInv /\ [Next]_vars => [BoundStay]_vars
  <2> SUFFICES ASSUME IInv, [Next]_vars, NEW d \in Devices, Bound(d)
               PROVE  Bound(d)'
    BY Zenon DEF BoundStay
  <2> USE DEF regVars, IInv, TypeOK, HandlerInv, RebinderInv, Bound
  <2>1. ASSUME NEW h \in Handlers, NEW e \in Endpoints, EnsureStores(h, e)
        PROVE  Bound(d)'
    BY <2>1 DEF EnsureStores, FreshEndpoints
  <2>2. ASSUME NEW h \in Handlers, HandlerBinds(h)
        PROVE  Bound(d)'
    BY <2>2 DEF HandlerBinds, Binds
  <2>3. CASE HandlerStep
    BY <2>1, <2>2, <2>3 DEF HandlerStep, HandlerStarts, EnsureLoads,
       SessionLoads, SessionStores, GoesOnline, GoesOffline
  <2>4. ASSUME NEW r \in Rebinders, NEW c \in Devices, NEW e \in Endpoints,
               RebindStarts(r, c, e)
        PROVE  Bound(d)'
    BY <2>4 DEF RebindStarts, FreshEndpoints
  <2>5. ASSUME NEW r \in Rebinders, RebindBinds(r)
        PROVE  Bound(d)'
    BY <2>5 DEF RebindBinds, Binds
  <2>6. ASSUME NEW r \in Rebinders, RebindStores(r)
        PROVE  Bound(d)'
    BY <2>6, PeersAssumption DEF PeersAssumption, RebindStores
  <2>7. CASE RebinderStep
    BY <2>4, <2>5, <2>6, <2>7 DEF RebinderStep, RebindFails
  <2>8. CASE SenderStep \/ Rest \/ UNCHANGED vars
    BY <2>8 DEF SenderStep, Rest, vars
  <2> QED
    BY <2>3, <2>7, <2>8 DEF Next
<1> QED
  BY <1>1, Inductive, PTL DEF Spec, BoundStays
==============================================================================
