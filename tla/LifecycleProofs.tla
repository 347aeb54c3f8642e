---------------------------- MODULE LifecycleProofs ----------------------------
(***************************************************************************)
(* Theorems about Lifecycle, for any number of packets and connections.    *)
(***************************************************************************)
EXTENDS Lifecycle, TLAPS

\* How far Close has come with the sockets of a server that was up.
ClosedSoFar ==
    wasUp => /\ closer \in {"udpNil", "tcp", "returned"} => udpSock = "closed"
             /\ closer = "returned" => tcpSock = "closed"
             /\ closer = "udp" => udpConn
             /\ closer \in {"udp", "udpNil", "tcp"} => tcpListener
             /\ rpc \notin {"start", "opened"}
             /\ apc \notin {"start", "opened"}

\* A field that was set stays set until Close, and its socket with it.
FieldsInv ==
    /\ closer = "idle" => ~wasUp
    /\ closer \in {"idle", "udp", "udpNil"} =>
          (udpConn <=> rpc \notin {"start", "opened"})
    /\ closer \in {"idle", "udp", "udpNil", "tcp"} =>
          (tcpListener <=> apc \notin {"start", "opened"})
    /\ rpc = "start" => udpSock = "none"
    /\ apc = "start" => tcpSock = "none"
    /\ rpc = "opened" => udpSock # "none"
    /\ apc = "opened" => tcpSock # "none"
    /\ rpc = "push" <=> rpkt # NoPacket
    /\ ppc \in {"parse", "send"} <=> ppkt # NoPacket
    /\ rpc = "wrap" => packets # 0

IInv == TypeOK /\ FieldsInv /\ ClosedSoFar

LEMMA InitIInv == Init => IInv
<1> SUFFICES ASSUME Init PROVE IInv
    OBVIOUS
<1>1. TypeOK
  <2>1. /\ done \in BOOLEAN /\ udpConn \in BOOLEAN /\ tcpListener \in BOOLEAN
        /\ wasUp \in BOOLEAN /\ isStop \in BOOLEAN /\ crashed \in BOOLEAN
    BY DEF Init
  <2>2. packets \in 0..MaxPackets
    BY LifecycleAssumption DEF LifecycleAssumption, Init
  <2>3. /\ handler \in [1..MaxPackets -> {"none", "running", "nilConn", "answered"}]
        /\ conns \in [Conns -> {"none", "open", "closed"}]
    BY DEF Init
  <2>4. ~udpConn /\ ~tcpListener
    BY DEF Init
  <2> QED
    BY <2>1, <2>2, <2>3, <2>4 DEF Init, TypeOK
<1>2. FieldsInv /\ ClosedSoFar
  BY DEF Init, FieldsInv, ClosedSoFar
<1> QED
  BY <1>1, <1>2 DEF IInv

LEMMA CloserIInv ==
    ASSUME IInv, CloseCalled \/ CloserStep
    PROVE  IInv'
<1> USE LifecycleAssumption
    DEF IInv, CloserStep, udpVars, tcpVars, pipeVars, closeVars
<1>1. CASE CloseCalled
  <2>1. TypeOK'
    BY <1>1 DEF CloseCalled, Cancel, TypeOK
  <2>2. FieldsInv'
    BY <1>1 DEF CloseCalled, Cancel, TypeOK, FieldsInv
  <2>3. ClosedSoFar'
    BY <1>1 DEF CloseCalled, Cancel, TypeOK, FieldsInv, ClosedSoFar
  <2> QED
    BY <2>1, <2>2, <2>3
<1>2. CASE CloseUDP /\ UNCHANGED crashed
  <2>1. TypeOK'
    BY <1>2 DEF CloseUDP, TypeOK
  <2>2. FieldsInv'
    BY <1>2 DEF CloseUDP, TypeOK, FieldsInv
  <2>3. ClosedSoFar'
    BY <1>2 DEF CloseUDP, TypeOK, FieldsInv, ClosedSoFar
  <2> QED
    BY <2>1, <2>2, <2>3
<1>3. CASE NilUDP /\ UNCHANGED crashed
  <2>1. TypeOK'
    <3>1. /\ udpConn' \in BOOLEAN /\ ~udpConn'
          /\ closer' \in {"idle", "udp", "udpNil", "tcp", "returned"}
      BY <1>3 DEF NilUDP
    <3>2. UNCHANGED <<done, wasUp, udpSock, rpc, tcpVars, pipeVars, crashed>>
      BY <1>3 DEF NilUDP
    <3> QED
      BY <3>1, <3>2 DEF TypeOK
  <2>2. FieldsInv'
    BY <1>3 DEF NilUDP, TypeOK, FieldsInv
  <2>3. ClosedSoFar'
    BY <1>3 DEF NilUDP, TypeOK, FieldsInv, ClosedSoFar
  <2> QED
    BY <2>1, <2>2, <2>3
<1>4. CASE CloseTCP /\ UNCHANGED crashed
  <2>1. TypeOK'
    <3>1. /\ tcpListener' \in BOOLEAN /\ ~tcpListener'
          /\ closer' \in {"idle", "udp", "udpNil", "tcp", "returned"}
      BY <1>4 DEF CloseTCP
    <3>2. tcpSock' \in {"none", "open", "closed"}
      BY <1>4 DEF CloseTCP, TypeOK
    <3>3. UNCHANGED <<done, wasUp, udpVars, apc, conns, pipeVars, crashed>>
      BY <1>4 DEF CloseTCP
    <3> QED
      BY <3>1, <3>2, <3>3 DEF TypeOK
  <2>2. FieldsInv'
    BY <1>4 DEF CloseTCP, TypeOK, FieldsInv
  <2>3. ClosedSoFar'
    BY <1>4 DEF CloseTCP, TypeOK, FieldsInv, ClosedSoFar
  <2> QED
    BY <2>1, <2>2, <2>3
<1> QED
  BY <1>1, <1>2, <1>3, <1>4

LEMMA ReaderIInv ==
    ASSUME IInv, ReaderStep
    PROVE  IInv'
<1> USE LifecycleAssumption
    DEF IInv, ReaderStep, udpVars, tcpVars, pipeVars, closeVars, ReaderReturns
<1>1. CASE OpenUDP
  <2>1. TypeOK'
    BY <1>1 DEF OpenUDP, TypeOK
  <2>2. FieldsInv'
    BY <1>1 DEF OpenUDP, TypeOK, FieldsInv
  <2>3. ClosedSoFar'
    BY <1>1 DEF OpenUDP, TypeOK, FieldsInv, ClosedSoFar
  <2> QED
    BY <2>1, <2>2, <2>3
<1>2. CASE SetUDP
  <2>1. TypeOK'
    <3>1. /\ udpConn' \in BOOLEAN /\ udpSock' # "none"
          /\ rpc' \in {"start", "opened", "select", "read", "reading", "wrap",
                       "push", "returned"}
      BY <1>2 DEF SetUDP, FieldsInv
    <3>2. UNCHANGED <<udpSock, closeVars, tcpVars, pipeVars, crashed>>
      BY <1>2 DEF SetUDP, OpenUDP, ReaderSelects, ReadBegins, ReadFails, Wrap,
         Push, ReadPanics
    <3> QED
      BY <3>1, <3>2 DEF TypeOK
  <2>2. FieldsInv'
    BY <1>2 DEF SetUDP, TypeOK, FieldsInv
  <2>3. ClosedSoFar'
    BY <1>2 DEF SetUDP, TypeOK, FieldsInv, ClosedSoFar
  <2> QED
    BY <2>1, <2>2, <2>3
<1>3. CASE ReaderSelects
  <2>1. TypeOK'
    <3>1. /\ isStop' \in BOOLEAN
          /\ rpc' \in {"start", "opened", "select", "read", "reading", "wrap",
                       "push", "returned"}
      BY <1>3 DEF ReaderSelects, TypeOK
    <3>2. UNCHANGED <<udpConn, udpSock, closeVars, tcpVars, rpkt, packets, ppc,
                      ppkt, lpkt, handler, crashed>>
      BY <1>3 DEF ReaderSelects, SetUDP, OpenUDP, ReadBegins, ReadFails, Wrap,
         Push, ReadPanics
    <3> QED
      BY <3>1, <3>2 DEF TypeOK
  <2>2. FieldsInv'
    BY <1>3 DEF ReaderSelects, TypeOK, FieldsInv
  <2>3. ClosedSoFar'
    BY <1>3 DEF ReaderSelects, TypeOK, FieldsInv, ClosedSoFar
  <2> QED
    BY <2>1, <2>2, <2>3
<1>4. CASE ReadBegins \/ ReadPanics
  <2>1. /\ UNCHANGED <<done, udpConn, udpSock, closer, wasUp, packets, rpkt,
                      isStop, ppc, ppkt, lpkt, handler, tcpListener, tcpSock,
                      apc, conns>>
        /\ rpc' \in {"read", "reading"}
        /\ crashed' \in BOOLEAN
    BY <1>4 DEF ReadBegins, ReadPanics, OpenUDP, SetUDP, ReaderSelects,
       ReadFails, Wrap, Push, TypeOK
  <2>2. rpc = "read"
    BY <1>4 DEF ReadBegins, ReadPanics
  <2> QED
    BY <2>1, <2>2 DEF TypeOK, FieldsInv, ClosedSoFar
<1>5. CASE ReadFails
  <2>1. TypeOK'
    BY <1>5 DEF ReadFails, TypeOK
  <2>2. FieldsInv'
    BY <1>5 DEF ReadFails, TypeOK, FieldsInv
  <2>3. ClosedSoFar'
    BY <1>5 DEF ReadFails, TypeOK, FieldsInv, ClosedSoFar
  <2> QED
    BY <2>1, <2>2, <2>3
<1>6. CASE Wrap
  <2>1. [id |-> packets, conn |-> udpConn] \in Packet
    BY <1>6 DEF Wrap, TypeOK, FieldsInv, Packet, LifecycleAssumption
  <2>2. [id |-> packets, conn |-> udpConn] # NoPacket
    BY <2>1 DEF LifecycleAssumption
  <2>3. TypeOK'
    BY <1>6, <2>1 DEF Wrap, TypeOK
  <2> QED
    BY <1>6, <2>2, <2>3 DEF Wrap, FieldsInv, ClosedSoFar
<1>7. CASE Push
  <2>1. TypeOK'
    BY <1>7 DEF Push, TypeOK
  <2>2. FieldsInv'
    BY <1>7 DEF Push, TypeOK, FieldsInv
  <2>3. ClosedSoFar'
    BY <1>7 DEF Push, TypeOK, FieldsInv, ClosedSoFar
  <2> QED
    BY <2>1, <2>2, <2>3
<1> QED
  BY <1>1, <1>2, <1>3, <1>4, <1>5, <1>6, <1>7

LEMMA PipelineIInv ==
    ASSUME IInv, PipelineStep
    PROVE  IInv'
<1> USE LifecycleAssumption
    DEF IInv, PipelineStep, udpVars, tcpVars, pipeVars, closeVars
<1>1. CASE ParserTests
  <2>1. TypeOK'
    BY <1>1 DEF ParserTests, TypeOK
  <2>2. FieldsInv'
    BY <1>1 DEF ParserTests, TypeOK, FieldsInv
  <2>3. ClosedSoFar'
    BY <1>1 DEF ParserTests, TypeOK, FieldsInv, ClosedSoFar
  <2> QED
    BY <2>1, <2>2, <2>3
<1>2. CASE Drop \/ Parse \/ HandOver
  BY <1>2 DEF Drop, Parse, HandOver, TypeOK, FieldsInv, ClosedSoFar
<1>3. CASE Dispatch \/ NotDispatched \/ \E i \in 1..MaxPackets : DispatchAgain(i)
  <2>1. lpkt.id \in 1..MaxPackets
    BY <1>3 DEF Dispatch, NotDispatched, DispatchAgain, Listened, TypeOK, Packet
  <2>2. handler' \in [1..MaxPackets ->
                        {"none", "running", "nilConn", "answered"}]
    BY <1>3, <2>1 DEF Dispatch, NotDispatched, DispatchAgain, TypeOK
  <2>3. /\ lpkt' = NoPacket
        /\ UNCHANGED <<done, udpConn, udpSock, tcpListener, tcpSock, closer,
                       wasUp, rpc, rpkt, packets, isStop, ppc, ppkt, apc, conns>>
    BY <1>3 DEF Dispatch, NotDispatched, DispatchAgain, Listened
  <2>4. crashed' \in BOOLEAN
    BY DEF TypeOK
  <2> QED
    BY <2>2, <2>3, <2>4 DEF TypeOK, FieldsInv, ClosedSoFar
<1>4. CASE \E i \in 1..MaxPackets : Answer(i)
  BY <1>4 DEF Answer, TypeOK, FieldsInv, ClosedSoFar
<1>5. CASE UNCHANGED pipeVars /\ crashed' = TRUE
  BY <1>5 DEF TypeOK, FieldsInv, ClosedSoFar
<1> QED
  BY <1>1, <1>2, <1>3, <1>4, <1>5

LEMMA TCPAndNetworkIInv ==
    ASSUME IInv, AcceptorStep \/ NetworkStep
    PROVE  IInv'
<1> USE LifecycleAssumption
    DEF IInv, udpVars, tcpVars, pipeVars, closeVars, ReaderReturns
<1>1. CASE AcceptorStep
  <2>1. TypeOK'
    <3>1. /\ tcpListener' \in BOOLEAN
          /\ tcpListener' => tcpSock' # "none"
      <4>1. CASE SetTCP
        BY <4>1 DEF SetTCP, FieldsInv
      <4>2. CASE OpenTCP \/ AcceptorSelects \/ AcceptFails
        BY <4>2 DEF OpenTCP, AcceptorSelects, AcceptFails, TypeOK
      <4> QED
        BY <1>1, <4>1, <4>2 DEF AcceptorStep
    <3>2. /\ tcpSock' \in {"none", "open", "closed"}
          /\ apc' \in {"start", "opened", "select", "accept", "returned"}
          /\ UNCHANGED conns
      BY <1>1 DEF AcceptorStep, OpenTCP, SetTCP, AcceptorSelects, AcceptFails,
         TypeOK
    <3>3. UNCHANGED <<udpVars, closeVars, pipeVars, crashed>>
      BY <1>1 DEF AcceptorStep
    <3> QED
      BY <3>1, <3>2, <3>3 DEF TypeOK
  <2>2. FieldsInv'
    BY <1>1 DEF AcceptorStep, OpenTCP, SetTCP, AcceptorSelects,
       AcceptFails, TypeOK, FieldsInv
  <2>3. ClosedSoFar'
    BY <1>1 DEF AcceptorStep, OpenTCP, SetTCP, AcceptorSelects,
       AcceptFails, TypeOK, FieldsInv, ClosedSoFar
  <2> QED
    BY <2>1, <2>2, <2>3
<1>2. CASE PacketArrives /\ UNCHANGED crashed
  <2>1. TypeOK'
    BY <1>2 DEF LifecycleAssumption, PacketArrives, TypeOK
  <2>2. FieldsInv'
    BY <1>2 DEF LifecycleAssumption, PacketArrives, TypeOK, FieldsInv
  <2>3. ClosedSoFar'
    BY <1>2 DEF LifecycleAssumption, PacketArrives, TypeOK, FieldsInv, ClosedSoFar
  <2> QED
    BY <2>1, <2>2, <2>3
<1>3. CASE ReadErrs /\ UNCHANGED crashed
  <2>1. TypeOK'
    <3>1. /\ isStop' \in BOOLEAN
          /\ rpc' \in {"start", "opened", "select", "read", "reading", "wrap",
                       "push", "returned"}
      BY <1>3 DEF ReadErrs, TypeOK
    <3>2. UNCHANGED <<udpConn, udpSock, closeVars, tcpVars, rpkt, packets, ppc,
                      ppkt, lpkt, handler, crashed>>
      BY <1>3 DEF ReadErrs
    <3> QED
      BY <3>1, <3>2 DEF TypeOK
  <2>2. FieldsInv'
    BY <1>3 DEF ReadErrs, TypeOK, FieldsInv
  <2>3. ClosedSoFar'
    BY <1>3 DEF ReadErrs, TypeOK, FieldsInv, ClosedSoFar
  <2> QED
    BY <2>1, <2>2, <2>3
<1>4. ASSUME NEW c \in Conns, Accept(c) \/ Hangup(c),
             UNCHANGED <<udpVars, closeVars, pipeVars, crashed>>
      PROVE  IInv'
  BY <1>4 DEF Accept, Hangup, TypeOK, FieldsInv, ClosedSoFar
<1> QED
  BY <1>1, <1>2, <1>3, <1>4 DEF NetworkStep

LEMMA NextIInv == IInv /\ [Next]_vars => IInv'
<1> SUFFICES ASSUME IInv, [Next]_vars PROVE IInv'
    OBVIOUS
<1>1. CASE Rest \/ UNCHANGED vars
  BY <1>1 DEF Rest, vars, IInv, TypeOK, FieldsInv, ClosedSoFar
<1> QED
  BY <1>1, CloserIInv, ReaderIInv, PipelineIInv, TCPAndNetworkIInv DEF Next

LEMMA Inductive == Spec => []IInv
BY InitIInv, NextIInv, PTL DEF Spec

\* Type correctness, and no field is set before its socket was opened.
THEOREM TypeCorrect == Spec => []TypeOK
BY Inductive, PTL DEF IInv

\* A server that was up when Close was called takes nothing from the network
\* after Close has returned, however its goroutines interleave with Close.
THEOREM TakesNothing == Spec => ClosedTakesNothing
<1>1. IInv /\ [Next]_vars => [NothingTaken]_vars
  <2> SUFFICES ASSUME IInv, [Next]_vars, closer = "returned", wasUp
               PROVE  /\ packets' = packets
                      /\ \A c \in Conns : conns[c] = "none" => conns'[c] = "none"
    BY Zenon DEF NothingTaken
  <2> USE DEF udpVars, tcpVars, pipeVars, closeVars
  <2>1. udpSock = "closed" /\ tcpSock = "closed"
    BY DEF IInv, ClosedSoFar
  <2>2. CASE CloseCalled \/ CloserStep
    BY <2>2 DEF CloseCalled, CloserStep, Cancel, CloseUDP, NilUDP, CloseTCP
  <2>3. CASE ReaderStep
    BY <2>3 DEF ReaderStep, OpenUDP, SetUDP, ReaderSelects, ReadBegins,
       ReadFails, Wrap, Push
  <2>4. CASE PipelineStep
    BY <2>4 DEF PipelineStep, ParserTests, Drop, Parse, HandOver, Dispatch,
       DispatchAgain, NotDispatched, Listened, Answer
  <2>5. CASE AcceptorStep
    BY <2>5 DEF AcceptorStep, OpenTCP, SetTCP, AcceptorSelects, AcceptFails
  <2>6. CASE NetworkStep
    <3>1. CASE ReadErrs
      BY <3>1 DEF ReadErrs
    <3>2. CASE \E d \in Conns : Accept(d) \/ Hangup(d)
      BY <2>1, <2>6, <3>2 DEF NetworkStep, Accept, Hangup, IInv, TypeOK,
         PacketArrives, ReadErrs
    <3> QED
      BY <2>1, <2>6, <3>1, <3>2 DEF NetworkStep, PacketArrives
  <2>7. CASE Rest \/ UNCHANGED vars
    BY <2>7 DEF Rest, vars
  <2> QED
    BY <2>2, <2>3, <2>4, <2>5, <2>6, <2>7 DEF Next
<1> QED
  BY <1>1, Inductive, PTL DEF Spec, ClosedTakesNothing
==============================================================================
