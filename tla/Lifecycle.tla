------------------------------- MODULE Lifecycle -------------------------------
(***************************************************************************)
(* The goroutines of a Server from Start to Close (sip/server.go, and the  *)
(* parser of sip/parser.go between them):                                  *)
(*                                                                         *)
(*   reader    ListenUDPServer: opens the socket, sets s.udpConn, reads    *)
(*   parser    parser.start: takes packets from the reader, parses them    *)
(*   listener  handlerListen: creates the transaction, starts the handlers *)
(*   handlers  one goroutine for each request: answers it                  *)
(*   acceptor  ListenTCPServer: opens the socket, accepts connections      *)
(*   closer    Close                                                       *)
(*                                                                         *)
(* The channels between reader, parser and listener have no buffer: a      *)
(* hand-over is one action of both.  s.udpConn and s.tcpListener are plain *)
(* fields that nothing guards; each read and write of them is a step (a    *)
(* read that sees half of the write of nil counts as nil).  A call on a    *)
(* nil connection panics and ends the process (crashed).                   *)
(***************************************************************************)
EXTENDS Naturals

CONSTANTS
    Conns,        \* the TCP connections that devices may open
    MaxPackets,   \* bound: the UDP packets that arrive
    NoPacket

\* Whether the connection that is stored in a packet is nil, and the same for
\* the connection of a transaction.
Packet == [id : 1..MaxPackets, conn : BOOLEAN]

ASSUME LifecycleAssumption ==
    /\ MaxPackets \in Nat
    /\ NoPacket \notin Packet

VARIABLES
    done,         \* s.ctx is cancelled
    udpConn,      \* s.udpConn is not nil
    udpSock,      \* the UDP socket
    tcpListener,  \* s.tcpListener is not nil
    tcpSock,      \* the listening TCP socket
    closer,       \* where Close is
    wasUp,        \* both fields were set when Close was called
    rpc,          \* where the reader is
    rpkt,         \* the packet it hands to the parser
    packets,      \* the number of packets read: the last one's id
    isStop,       \* parser.isStop
    ppc,          \* where the parser is
    ppkt,         \* the packet it parses
    lpkt,         \* the message the listener handles
    handler,      \* the goroutine that handles the request of a packet
    apc,          \* where the acceptor is
    conns,        \* the TCP connections
    crashed

pipeVars == <<rpkt, packets, isStop, ppc, ppkt, lpkt, handler>>
udpVars == <<udpConn, udpSock, rpc>>
tcpVars == <<tcpListener, tcpSock, apc, conns>>
closeVars == <<done, closer, wasUp>>
vars == <<done, udpConn, udpSock, tcpListener, tcpSock, closer, wasUp, rpc,
          rpkt, packets, isStop, ppc, ppkt, lpkt, handler, apc, conns, crashed>>

TypeOK ==
    /\ done \in BOOLEAN
    /\ udpConn \in BOOLEAN
    /\ udpSock \in {"none", "open", "closed"}
    /\ tcpListener \in BOOLEAN
    /\ tcpSock \in {"none", "open", "closed"}
    /\ closer \in {"idle", "udp", "udpNil", "tcp", "returned"}
    /\ wasUp \in BOOLEAN
    /\ rpc \in {"start", "opened", "select", "read", "reading", "wrap",
                "push", "returned"}
    /\ rpkt \in Packet \cup {NoPacket}
    /\ packets \in 0..MaxPackets
    /\ isStop \in BOOLEAN
    /\ ppc \in {"test", "recv", "parse", "send", "ended"}
    /\ ppkt \in Packet \cup {NoPacket}
    /\ lpkt \in Packet \cup {NoPacket}
    /\ handler \in [1..MaxPackets -> {"none", "running", "nilConn", "answered"}]
    /\ apc \in {"start", "opened", "select", "accept", "returned"}
    /\ conns \in [Conns -> {"none", "open", "closed"}]
    /\ crashed \in BOOLEAN
    \* a field is set when its socket has been opened
    /\ udpConn => udpSock # "none"
    /\ tcpListener => tcpSock # "none"

\* After NewServer, with both goroutines of Runtime.Start about to run.
Init ==
    /\ done = FALSE
    /\ udpConn = FALSE
    /\ udpSock = "none"
    /\ tcpListener = FALSE
    /\ tcpSock = "none"
    /\ closer = "idle"
    /\ wasUp = FALSE
    /\ rpc = "start"
    /\ rpkt = NoPacket
    /\ packets = 0
    /\ isStop = FALSE
    /\ ppc = "test"
    /\ ppkt = NoPacket
    /\ lpkt = NoPacket
    /\ handler = [i \in 1..MaxPackets |-> "none"]
    /\ apc = "start"
    /\ conns = [c \in Conns |-> "none"]
    /\ crashed = FALSE

-----------------------------------------------------------------------------
(* Close *)

\* Wrong versions, each of which a property must tell from the code's: a name
\* that ends in "Wrong" says what of the definition below it is changed.
\* Here the context is not cancelled.
CancelForgottenWrong ==
    /\ closer = "idle"
    /\ closer' = "udp"
    /\ wasUp' = (udpConn /\ tcpListener)
    /\ UNCHANGED <<done, udpVars, tcpVars, pipeVars>>

\* s.cancel()
Cancel ==
    /\ closer = "idle"
    /\ done' = TRUE
    /\ closer' = "udp"
    /\ wasUp' = (udpConn /\ tcpListener)
    /\ UNCHANGED <<udpVars, tcpVars, pipeVars>>

\* The field is set to nil, the socket is not closed.
CloseUDPForgottenWrong ==
    /\ closer = "udp"
    /\ closer' = IF udpConn THEN "udpNil" ELSE "tcp"
    /\ UNCHANGED <<done, wasUp, udpVars, tcpVars, pipeVars>>

\* if s.udpConn != nil { s.udpConn.Close()
CloseUDP ==
    /\ closer = "udp"
    /\ IF udpConn THEN udpSock' = "closed" /\ closer' = "udpNil"
                  ELSE closer' = "tcp" /\ UNCHANGED udpSock
    /\ UNCHANGED <<done, wasUp, udpConn, rpc, tcpVars, pipeVars>>

\* s.udpConn = nil }
NilUDP ==
    /\ closer = "udpNil"
    /\ udpConn' = FALSE
    /\ closer' = "tcp"
    /\ UNCHANGED <<done, wasUp, udpSock, rpc, tcpVars, pipeVars>>

\* if s.tcpListener != nil { s.tcpListener.Close(); s.tcpListener = nil }.
\* The connections it accepted stay open.
CloseTCP ==
    /\ closer = "tcp"
    /\ tcpSock' = IF tcpListener THEN "closed" ELSE tcpSock
    /\ tcpListener' = FALSE
    /\ closer' = "returned"
    /\ UNCHANGED <<done, wasUp, udpVars, apc, conns, pipeVars>>

CloserStep ==
    /\ ~crashed
    /\ CloseUDP \/ NilUDP \/ CloseTCP
    /\ UNCHANGED crashed

-----------------------------------------------------------------------------
(* The reader *)

\* The field is set before the socket is there.
OpenUDPLateWrong ==
    /\ rpc = "start"
    /\ udpConn' = TRUE
    /\ rpc' = "opened"
    /\ UNCHANGED <<udpSock, closeVars, tcpVars, pipeVars>>

\* net.ListenUDP
OpenUDP ==
    /\ rpc = "start"
    /\ udpSock' = "open"
    /\ rpc' = "opened"
    /\ UNCHANGED <<udpConn, closeVars, tcpVars, pipeVars>>

\* s.udpConn = NewUDPConnection(udp); the parser and handlerListen start.
SetUDP ==
    /\ rpc = "opened"
    /\ udpConn' = TRUE
    /\ rpc' = "select"
    /\ UNCHANGED <<udpSock, closeVars, tcpVars, pipeVars>>

\* defer parser.stop()
ReaderReturns == rpc' = "returned" /\ isStop' = TRUE

\* select { case <-s.ctx.Done(): return; default:
ReaderSelects ==
    /\ rpc = "select"
    /\ IF done THEN ReaderReturns
               ELSE rpc' = "read" /\ UNCHANGED isStop
    /\ UNCHANGED <<udpConn, udpSock, closeVars, tcpVars, rpkt, packets, ppc,
                   ppkt, lpkt, handler>>

\* s.udpConn is loaded for s.udpConn.ReadFrom.
ReadBegins ==
    /\ rpc = "read"
    /\ udpConn
    /\ rpc' = "reading"
    /\ UNCHANGED <<udpConn, udpSock, closeVars, tcpVars, pipeVars>>

ReadPanics ==
    /\ rpc = "read"
    /\ ~udpConn

PacketArrives ==
    /\ rpc = "reading"
    /\ udpSock = "open"
    /\ packets < MaxPackets
    /\ packets' = packets + 1
    /\ rpc' = "wrap"
    /\ UNCHANGED <<udpConn, udpSock, closeVars, tcpVars, rpkt, isStop, ppc,
                   ppkt, lpkt, handler>>

\* Another error of the socket: the loop goes on unless Close was called.
ReadErrs ==
    /\ rpc = "reading"
    /\ udpSock = "open"
    /\ IF done THEN ReaderReturns ELSE rpc' = "select" /\ UNCHANGED isStop
    /\ UNCHANGED <<udpConn, udpSock, closeVars, tcpVars, rpkt, packets, ppc,
                   ppkt, lpkt, handler>>

\* net.ErrClosed
ReadFails ==
    /\ rpc = "reading"
    /\ udpSock = "closed"
    /\ ReaderReturns
    /\ UNCHANGED <<udpConn, udpSock, closeVars, tcpVars, rpkt, packets, ppc,
                   ppkt, lpkt, handler>>

\* newPacket(buf, raddr, s.udpConn) loads the field again.
Wrap ==
    /\ rpc = "wrap"
    /\ rpkt' = [id |-> packets, conn |-> udpConn]
    /\ rpc' = "push"
    /\ UNCHANGED <<udpConn, udpSock, closeVars, tcpVars, packets, isStop, ppc,
                   ppkt, lpkt, handler>>

\* parser.in <- packet
Push ==
    /\ rpc = "push"
    /\ ppc = "recv"
    /\ ppkt' = rpkt
    /\ ppc' = "parse"
    /\ rpkt' = NoPacket
    /\ rpc' = "select"
    /\ UNCHANGED <<udpConn, udpSock, closeVars, tcpVars, packets, isStop, lpkt,
                   handler>>

ReaderStep ==
    /\ ~crashed
    /\ \/ /\ OpenUDP \/ SetUDP \/ ReaderSelects \/ ReadBegins \/ ReadFails
             \/ Wrap \/ Push
          /\ UNCHANGED crashed
       \/ /\ ReadPanics
          /\ crashed' = TRUE
          /\ UNCHANGED <<udpVars, closeVars, tcpVars, pipeVars>>

-----------------------------------------------------------------------------
(* The parser, which starts with the reader's loop *)

\* for !p.isStop
ParserTests ==
    /\ ppc = "test"
    /\ rpc \notin {"start", "opened"}
    /\ ppc' = IF isStop THEN "ended" ELSE "recv"
    /\ UNCHANGED <<rpkt, packets, isStop, ppkt, lpkt, handler>>

\* A packet that does not parse is dropped.
Drop ==
    /\ ppc = "parse"
    /\ ppkt' = NoPacket
    /\ ppc' = "test"
    /\ UNCHANGED <<rpkt, packets, isStop, lpkt, handler>>

Parse ==
    /\ ppc = "parse"
    /\ ppc' = "send"
    /\ UNCHANGED <<rpkt, packets, isStop, ppkt, lpkt, handler>>

\* p.out <- msg, and handlerListen's msg = <-msgs
HandOver ==
    /\ ppc = "send"
    /\ lpkt = NoPacket
    /\ lpkt' = ppkt
    /\ ppkt' = NoPacket
    /\ ppc' = "test"
    /\ UNCHANGED <<rpkt, packets, isStop, handler>>

-----------------------------------------------------------------------------
(* The listener and the handlers *)

\* The listener is done with its message, whose req.conn.Network() returned.
Listened ==
    /\ lpkt # NoPacket
    /\ lpkt.conn
    /\ lpkt' = NoPacket
    /\ UNCHANGED <<rpkt, packets, isStop, ppc, ppkt>>

\* handlerRequest: mustTX loads s.udpConn once more and stores it in the
\* transaction of a new Call-ID, and the handlers start.
Dispatch ==
    /\ Listened
    /\ handler' = [handler EXCEPT ![lpkt.id] =
                     IF udpConn THEN "running" ELSE "nilConn"]

\* The request has the Call-ID of the request i: it gets that transaction.
DispatchAgain(i) ==
    /\ Listened
    /\ handler[i] \in {"running", "answered"}
    /\ handler' = [handler EXCEPT ![lpkt.id] = "running"]

\* A response (Transaction.tla), or a request that handlerRequest drops.
NotDispatched == Listened /\ UNCHANGED handler

DispatchPanics == lpkt # NoPacket /\ ~lpkt.conn

\* tx.Respond; its error, as of a closed socket, is ignored.
Answer(i) ==
    /\ handler[i] = "running"
    /\ handler' = [handler EXCEPT ![i] = "answered"]
    /\ UNCHANGED <<rpkt, packets, isStop, ppc, ppkt, lpkt>>

AnswerPanics(i) == handler[i] = "nilConn"

PipelineStep ==
    /\ ~crashed
    /\ \/ /\ \/ ParserTests
             \/ Drop
             \/ Parse
             \/ HandOver
             \/ Dispatch
             \/ NotDispatched
             \/ \E i \in 1..MaxPackets : Answer(i) \/ DispatchAgain(i)
          /\ UNCHANGED crashed
       \/ /\ DispatchPanics \/ \E i \in 1..MaxPackets : AnswerPanics(i)
          /\ crashed' = TRUE
          /\ UNCHANGED pipeVars
    /\ UNCHANGED <<udpVars, closeVars, tcpVars>>

-----------------------------------------------------------------------------
(* The acceptor and the connections *)

\* net.ListenTCP
OpenTCP ==
    /\ apc = "start"
    /\ tcpSock' = "open"
    /\ apc' = "opened"
    /\ UNCHANGED <<tcpListener, conns>>

\* s.tcpListener = tcp
SetTCP ==
    /\ apc = "opened"
    /\ tcpListener' = TRUE
    /\ apc' = "select"
    /\ UNCHANGED <<tcpSock, conns>>

AcceptorSelects ==
    /\ apc = "select"
    /\ apc' = IF done THEN "returned" ELSE "accept"
    /\ UNCHANGED <<tcpListener, tcpSock, conns>>

AcceptFails ==
    /\ apc = "accept"
    /\ tcpSock = "closed"
    /\ apc' = "returned"
    /\ UNCHANGED <<tcpListener, tcpSock, conns>>

AcceptorStep ==
    /\ ~crashed
    /\ OpenTCP \/ SetTCP \/ AcceptorSelects \/ AcceptFails
    /\ UNCHANGED <<udpVars, closeVars, pipeVars, crashed>>

\* tcp.AcceptTCP returns a connection, and ProcessTcpConn serves it.
Accept(c) ==
    /\ apc = "accept"
    /\ tcpSock = "open"
    /\ conns[c] = "none"
    /\ conns' = [conns EXCEPT ![c] = "open"]
    /\ apc' = "select"
    /\ UNCHANGED <<tcpListener, tcpSock>>

\* The device closes its connection: ProcessTcpConn returns.
Hangup(c) ==
    /\ conns[c] = "open"
    /\ conns' = [conns EXCEPT ![c] = "closed"]
    /\ UNCHANGED <<tcpListener, tcpSock, apc>>

NetworkStep ==
    /\ ~crashed
    /\ \/ PacketArrives
       \/ ReadErrs
       \/ /\ \E c \in Conns : Accept(c) \/ Hangup(c)
          /\ UNCHANGED <<udpVars, closeVars, pipeVars>>
    /\ UNCHANGED crashed

-----------------------------------------------------------------------------

CloseCalled == ~crashed /\ Cancel /\ UNCHANGED crashed

\* What is left waits for the network or for nothing: the parser in its
\* receive, which stop does not end, and handlerListen in its own.
Quiet ==
    \/ crashed
    \/ /\ closer \in {"idle", "returned"}
       /\ rpc \in {"reading", "returned"}
       /\ ppc \in {"recv", "ended"}
       /\ lpkt = NoPacket
       /\ \A i \in 1..MaxPackets : handler[i] \in {"none", "answered"}
       /\ apc \in {"accept", "returned"}

Rest == Quiet /\ UNCHANGED vars

Next ==
    \/ CloseCalled
    \/ CloserStep
    \/ ReaderStep
    \/ PipelineStep
    \/ AcceptorStep
    \/ NetworkStep
    \/ Rest

\* Every goroutine that can run is scheduled.  Nothing has to arrive, and
\* nobody has to call Close.
Spec ==
    /\ Init /\ [][Next]_vars
    /\ WF_vars(CloserStep)
    /\ WF_vars(ReaderStep)
    /\ WF_vars(PipelineStep)
    /\ WF_vars(AcceptorStep)

-----------------------------------------------------------------------------
(* Properties *)

\* Close ends both listening goroutines, whenever it is called: in a listener
\* that has not opened its socket yet, in one that waits on it, and in one
\* that waits for a parser that waits for a handler.
CloseEndsListeners ==
    closer # "idle" ~> (crashed \/ (rpc = "returned" /\ apc = "returned"))

\* A server that was up when Close was called takes no packet and no
\* connection any more when Close has returned.
NothingTaken ==
    closer = "returned" /\ wasUp =>
        /\ packets' = packets
        /\ \A c \in Conns : conns[c] = "none" => conns'[c] = "none"

ClosedTakesNothing == [][NothingTaken]_vars

\* "After Close has closed the socket the reading goroutine gets net.ErrClosed,
\* a normal exit" (server.go:135).
ClosesNormally == ~crashed
==============================================================================
