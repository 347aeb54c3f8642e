------------------------------ MODULE Transaction ------------------------------
(***************************************************************************)
(* The client and server transactions of sip/tx.go, with the goroutines of *)
(* sip/server.go that share them:                                          *)
(*                                                                         *)
(*  - callers: goroutines that run Server.Request and then, through        *)
(*    SIPResponse of sender.go, Transaction.GetResponse;                   *)
(*  - listeners: the handlerListen goroutines, one for the UDP socket and  *)
(*    one for each TCP connection, which look a transaction up by Call-ID  *)
(*    and push the responses of the peers into it;                         *)
(*  - one watch goroutine for each transaction, which closes it after 20 s *)
(*    without activity.                                                    *)
(*                                                                         *)
(* A channel operation that can block is an action whose guard is the      *)
(* channel being ready.  A send on a closed channel panics: the listener's *)
(* is recovered, the caller's ends the process (crashed).                  *)
(***************************************************************************)
EXTENDS Naturals, Sequences, SequencesExt, FiniteSets

CONSTANTS
    Keys,        \* the Call-IDs in use
    Txs,         \* the Transaction objects that may be allocated
    Callers,     \* the goroutines that send a request and wait for its answer
    Listeners,   \* the handlerListen goroutines
    RespCap,     \* the capacity of Transaction.resp (10 in the code)
    MaxArrivals, \* bound: the packets the network delivers
    None         \* no transaction, no key, no packet

ASSUME TransactionAssumption ==
    /\ RespCap \in Nat \ {0}
    /\ MaxArrivals \in Nat
    /\ None \notin Txs \cup Keys \cup Callers

VARIABLES
    table,     \* activeTX.txs: Call-ID -> transaction, or None
    key,       \* Transaction.key
    respQ,     \* the buffer of Transaction.resp
    activeQ,   \* the number of buffered elements of Transaction.active (0..1)
    closed,    \* the channels of the transaction that were closed
    watch,     \* where the watch goroutine of the transaction is
    cpc,       \* where a caller is
    ckey,      \* the Call-ID of its request
    ctx,       \* the transaction Server.Request returned to it
    got,       \* what it took from resp, in order
    lpc,       \* where a listener is
    ltx,       \* the transaction it looked up
    lmsg,      \* the packet it is handling
    arrived,   \* the number of packets that arrived: the last one's id
    crashed    \* a panic nobody recovers ended the process

txVars == <<table, key, respQ, activeQ, closed, watch>>
callerVars == <<cpc, ckey, ctx, got>>
listenerVars == <<lpc, ltx, lmsg>>
vars == <<table, key, respQ, activeQ, closed, watch, cpc, ckey, ctx, got,
          lpc, ltx, lmsg, arrived, crashed>>

\* A packet as the listeners see it.  "trying" stands for status 100 and 101,
\* which GetResponse skips, "final" for every other status; of is the request
\* that a response answers.
Packet == [id : 1..MaxArrivals, key : Keys, of : Callers \cup {None},
           kind : {"request", "trying", "final"}]

WatchStages == {"unborn", "select", "rmTX", "closeResp", "closeActive", "done"}
CallerStages == {"idle", "create", "write", "recv", "signal",
                 "returned", "nil", "failed"}
ListenerStages == {"idle", "create", "resp", "active"}

TypeOK ==
    /\ table \in [Keys -> Txs \cup {None}]
    /\ key \in [Txs -> Keys \cup {None}]
    /\ respQ \in [Txs -> Seq(Packet)]
    /\ activeQ \in [Txs -> 0..1]
    /\ closed \in [Txs -> SUBSET {"resp", "active"}]
    /\ watch \in [Txs -> WatchStages]
    /\ cpc \in [Callers -> CallerStages]
    /\ ckey \in [Callers -> Keys \cup {None}]
    /\ ctx \in [Callers -> Txs \cup {None}]
    /\ got \in [Callers -> Seq(Packet)]
    /\ lpc \in [Listeners -> ListenerStages]
    /\ ltx \in [Listeners -> Txs \cup {None}]
    /\ lmsg \in [Listeners -> Packet \cup {None}]
    /\ arrived \in 0..MaxArrivals
    /\ crashed \in BOOLEAN

Init ==
    /\ table = [k \in Keys |-> None]
    /\ key = [t \in Txs |-> None]
    /\ respQ = [t \in Txs |-> <<>>]
    /\ activeQ = [t \in Txs |-> 0]
    /\ closed = [t \in Txs |-> {}]
    /\ watch = [t \in Txs |-> "unborn"]
    /\ cpc = [c \in Callers |-> "idle"]
    /\ ckey = [c \in Callers |-> None]
    /\ ctx = [c \in Callers |-> None]
    /\ got = [c \in Callers |-> <<>>]
    /\ lpc = [l \in Listeners |-> "idle"]
    /\ ltx = [l \in Listeners |-> None]
    /\ lmsg = [l \in Listeners |-> None]
    /\ arrived = 0
    /\ crashed = FALSE

-----------------------------------------------------------------------------
(* Shared by the goroutines *)

\* transacionts.newTX with NewTransaction: a fresh transaction replaces
\* whatever the table holds at the key, and its watch goroutine starts.
NewTX(t, k) ==
    /\ watch[t] = "unborn"
    /\ key' = [key EXCEPT ![t] = k]
    /\ watch' = [watch EXCEPT ![t] = "select"]
    /\ table' = [table EXCEPT ![k] = t]
    /\ UNCHANGED <<respQ, activeQ, closed>>

\* Wrong versions, each of which a property must tell from the code's: a name
\* that ends in "Wrong" says what of the definition below it is changed.
\* Here the channel has no bound.
SendActiveUnboundedWrong(t) ==
    /\ "active" \notin closed[t]
    /\ activeQ' = [activeQ EXCEPT ![t] = @ + 1]
    /\ UNCHANGED <<table, key, respQ, closed, watch>>

\* A send on tx.active, whose buffer holds one element.
SendActive(t) ==
    /\ "active" \notin closed[t]
    /\ activeQ[t] = 0
    /\ activeQ' = [activeQ EXCEPT ![t] = 1]
    /\ UNCHANGED <<table, key, respQ, closed, watch>>

-----------------------------------------------------------------------------
(* Callers: Server.Request, then GetResponse *)

\* The Call-ID is not compared.
LookupAnyKeyWrong(c, k) ==
    /\ cpc[c] = "idle"
    /\ ckey' = [ckey EXCEPT ![c] = k]
    /\ \E j \in Keys :
          /\ ctx' = [ctx EXCEPT ![c] = table[j]]
          /\ cpc' = [cpc EXCEPT ![c] =
                       IF table[j] = None THEN "create" ELSE "write"]
    /\ UNCHANGED <<txVars, got, listenerVars, arrived>>

\* Server.Request up to the lookup of mustTX.  A new request has a Call-ID of
\* its own; one made from a response or a dialog reuses the dialog's.
Lookup(c, k) ==
    /\ cpc[c] = "idle"
    /\ ckey' = [ckey EXCEPT ![c] = k]
    /\ ctx' = [ctx EXCEPT ![c] = table[k]]
    /\ cpc' = [cpc EXCEPT ![c] = IF table[k] = None THEN "create" ELSE "write"]
    /\ UNCHANGED <<txVars, got, listenerVars, arrived>>

\* The second half of mustTX: the table may have changed since the lookup.
Create(c, t) ==
    /\ cpc[c] = "create"
    /\ NewTX(t, ckey[c])
    /\ ctx' = [ctx EXCEPT ![c] = t]
    /\ cpc' = [cpc EXCEPT ![c] = "write"]
    /\ UNCHANGED <<ckey, got, listenerVars, arrived>>

\* Transaction.Request writes to the connection; an error is returned to the
\* application, which then does not wait.
Write(c, outcome) ==
    /\ cpc[c] = "write"
    /\ cpc' = [cpc EXCEPT ![c] = outcome]
    /\ UNCHANGED <<txVars, ckey, ctx, got, listenerVars, arrived>>

\* The response stays in the buffer.
TakeResponsePeeksWrong(c) ==
    /\ cpc[c] = "recv"
    /\ respQ[ctx[c]] # <<>>
    /\ Len(got[c]) < MaxArrivals
    /\ got' = [got EXCEPT ![c] = Append(@, Head(respQ[ctx[c]]))]
    /\ cpc' = [cpc EXCEPT ![c] = "signal"]
    /\ UNCHANGED <<txVars, ckey, ctx, listenerVars, arrived>>

\* The entry is deleted as soon as there is a response.
TakeResponseDeletesWrong(c) ==
    LET t == ctx[c] IN
    /\ cpc[c] = "recv"
    /\ respQ[t] # <<>>
    /\ got' = [got EXCEPT ![c] = Append(@, Head(respQ[t]))]
    /\ respQ' = [respQ EXCEPT ![t] = Tail(@)]
    /\ table' = [table EXCEPT ![key[t]] = None]
    /\ cpc' = [cpc EXCEPT ![c] = "signal"]
    /\ UNCHANGED <<key, activeQ, closed, watch, ckey, ctx,
                   listenerVars, arrived>>

\* res := <-tx.resp, with a response in the buffer.
TakeResponse(c) ==
    LET t == ctx[c] IN
    /\ cpc[c] = "recv"
    /\ respQ[t] # <<>>
    /\ got' = [got EXCEPT ![c] = Append(@, Head(respQ[t]))]
    /\ respQ' = [respQ EXCEPT ![t] = Tail(@)]
    /\ cpc' = [cpc EXCEPT ![c] = "signal"]
    /\ UNCHANGED <<table, key, activeQ, closed, watch, ckey, ctx,
                   listenerVars, arrived>>

\* A closed transaction has no response, whatever its buffer holds.
TakeNilAtCloseWrong(c) ==
    /\ cpc[c] = "recv"
    /\ "resp" \in closed[ctx[c]]
    /\ cpc' = [cpc EXCEPT ![c] = "nil"]
    /\ UNCHANGED <<txVars, ckey, ctx, got, listenerVars, arrived>>

\* res := <-tx.resp, with resp closed and drained: GetResponse returns nil.
TakeNil(c) ==
    /\ cpc[c] = "recv"
    /\ respQ[ctx[c]] = <<>>
    /\ "resp" \in closed[ctx[c]]
    /\ cpc' = [cpc EXCEPT ![c] = "nil"]
    /\ UNCHANGED <<txVars, ckey, ctx, got, listenerVars, arrived>>

\* tx.active <- 2, then return, or take another one after 100 and 101.
Signal(c) ==
    /\ cpc[c] = "signal"
    /\ SendActive(ctx[c])
    /\ cpc' = [cpc EXCEPT ![c] =
                 IF Last(got[c]).kind = "trying" THEN "recv" ELSE "returned"]
    /\ UNCHANGED <<ckey, ctx, got, listenerVars, arrived>>

\* tx.active <- 2 on the closed channel: GetResponse has no recover.
SignalPanics(c) ==
    /\ cpc[c] = "signal"
    /\ "active" \in closed[ctx[c]]
    /\ crashed' = TRUE
    /\ UNCHANGED <<txVars, callerVars, listenerVars, arrived>>

CallerGoes(c) ==
    \/ \E t \in Txs : Create(c, t)
    \/ \E outcome \in {"recv", "failed"} : Write(c, outcome)
    \/ TakeResponse(c)
    \/ TakeNil(c)
    \/ Signal(c)

CallerStep(c) ==
    /\ ~crashed
    /\ \/ CallerGoes(c) /\ UNCHANGED crashed
       \/ SignalPanics(c)

CallerStarts(c) ==
    /\ ~crashed
    /\ \E k \in Keys : Lookup(c, k)
    /\ UNCHANGED crashed

-----------------------------------------------------------------------------
(* Listeners: handlerListen with handlerRequest or handlerResponse *)

Sent(c) == cpc[c] \in {"recv", "signal", "returned", "nil"}

\* bound: the packet budget; ids number the packets in order of arrival.
NextPacket(k, c, kind) ==
    [id |-> arrived + 1, key |-> k, of |-> c, kind |-> kind]

Unborn == {t \in Txs : watch[t] = "unborn"}
Creating == {c \in Callers : cpc[c] \in {"idle", "create"}}
            \cup {l \in Listeners : lpc[l] = "create"}

\* A request of a peer: mustTX looks its Call-ID up, and what follows (route,
\* handlers, answer) runs on a goroutine that never touches the channels.
\* bound: the pool keeps a transaction for everyone who may still create one.
RequestArrives(l, k) ==
    /\ lpc[l] = "idle"
    /\ arrived < MaxArrivals
    /\ Cardinality(Unborn) > Cardinality(Creating)
    /\ arrived' = arrived + 1
    /\ IF table[k] = None
       THEN /\ lpc' = [lpc EXCEPT ![l] = "create"]
            /\ lmsg' = [lmsg EXCEPT ![l] = NextPacket(k, None, "request")]
       ELSE UNCHANGED <<lpc, lmsg>>
    /\ UNCHANGED <<txVars, callerVars, ltx>>

ListenerCreates(l, t) ==
    /\ lpc[l] = "create"
    /\ NewTX(t, lmsg[l].key)
    /\ lpc' = [lpc EXCEPT ![l] = "idle"]
    /\ lmsg' = [lmsg EXCEPT ![l] = None]
    /\ UNCHANGED <<callerVars, ltx, arrived>>

\* A response to a request that was sent; the network may have delayed,
\* reordered or duplicated it.  It is dropped when its Call-ID has no
\* transaction.
ResponseArrives(l, c, kind) ==
    LET k == ckey[c] IN
    /\ lpc[l] = "idle"
    /\ arrived < MaxArrivals
    /\ Sent(c)
    /\ arrived' = arrived + 1
    /\ IF table[k] # None
       THEN /\ lpc' = [lpc EXCEPT ![l] = "resp"]
            /\ ltx' = [ltx EXCEPT ![l] = table[k]]
            /\ lmsg' = [lmsg EXCEPT ![l] = NextPacket(k, c, kind)]
       ELSE UNCHANGED listenerVars
    /\ UNCHANGED <<txVars, callerVars>>

\* receiveResponse: tx.resp <- msg
PushResponse(l) ==
    LET t == ltx[l] IN
    /\ lpc[l] = "resp"
    /\ "resp" \notin closed[t]
    /\ Len(respQ[t]) < RespCap
    /\ respQ' = [respQ EXCEPT ![t] = Append(@, lmsg[l])]
    /\ lpc' = [lpc EXCEPT ![l] = "active"]
    /\ UNCHANGED <<table, key, activeQ, closed, watch, callerVars,
                   ltx, lmsg, arrived>>

ListenerDone(l) ==
    /\ lpc' = [lpc EXCEPT ![l] = "idle"]
    /\ ltx' = [ltx EXCEPT ![l] = None]
    /\ lmsg' = [lmsg EXCEPT ![l] = None]

\* receiveResponse: tx.active <- 1
PushActive(l) ==
    /\ lpc[l] = "active"
    /\ SendActive(ltx[l])
    /\ ListenerDone(l)
    /\ UNCHANGED <<callerVars, arrived>>

\* A listener that is blocked on resp when it is closed stays there.
RecoveredLateWrong(l) ==
    /\ lpc[l] = "active"
    /\ "active" \in closed[ltx[l]]
    /\ ListenerDone(l)
    /\ UNCHANGED <<txVars, callerVars, arrived>>

\* receiveResponse recovers from the panic of a send on a closed channel,
\* also of one that was blocked when the channel was closed.
Recovered(l) ==
    /\ lpc[l] \in {"resp", "active"}
    /\ lpc[l] \in closed[ltx[l]]
    /\ ListenerDone(l)
    /\ UNCHANGED <<txVars, callerVars, arrived>>

ListenerStep(l) ==
    /\ ~crashed
    /\ \/ \E t \in Txs : ListenerCreates(l, t)
       \/ PushResponse(l)
       \/ PushActive(l)
       \/ Recovered(l)
    /\ UNCHANGED crashed

PacketArrives(l) ==
    /\ ~crashed
    /\ \/ \E k \in Keys : RequestArrives(l, k)
       \/ \E c \in Callers, kind \in {"trying", "final"} :
             ResponseArrives(l, c, kind)
    /\ UNCHANGED crashed

-----------------------------------------------------------------------------
(* The watch goroutine of a transaction, and Close, which only it calls *)

WatchGoesTo(t, stage) == watch' = [watch EXCEPT ![t] = stage]

\* The loop ends at the first activity.
WatchActiveReturnsWrong(t) ==
    /\ watch[t] = "select"
    /\ activeQ[t] = 1
    /\ activeQ' = [activeQ EXCEPT ![t] = 0]
    /\ WatchGoesTo(t, "done")
    /\ UNCHANGED <<table, key, respQ, closed>>

\* case <-tx.active: the loop starts a new timer.
WatchActive(t) ==
    /\ watch[t] = "select"
    /\ activeQ[t] = 1
    /\ activeQ' = [activeQ EXCEPT ![t] = 0]
    /\ UNCHANGED <<table, key, respQ, closed, watch>>

\* case <-time.After(20 s): the timer is new each time the select is entered,
\* so it can only win when nothing was sent on active meanwhile.
WatchTimeout(t) ==
    /\ watch[t] = "select"
    /\ activeQ[t] = 0
    /\ WatchGoesTo(t, "rmTX")
    /\ UNCHANGED <<table, key, respQ, activeQ, closed>>

\* Close does not call rmTX.
RmTXForgottenWrong(t) ==
    /\ watch[t] = "rmTX"
    /\ WatchGoesTo(t, "closeResp")
    /\ UNCHANGED <<table, key, respQ, activeQ, closed>>

\* Close: rmTX deletes the key, whichever transaction it maps to.
RmTX(t) ==
    /\ watch[t] = "rmTX"
    /\ table' = [table EXCEPT ![key[t]] = None]
    /\ WatchGoesTo(t, "closeResp")
    /\ UNCHANGED <<key, respQ, activeQ, closed>>

\* Close does not close resp.
CloseRespForgottenWrong(t) ==
    /\ watch[t] = "closeResp"
    /\ WatchGoesTo(t, "closeActive")
    /\ UNCHANGED <<table, key, respQ, activeQ, closed>>

\* Close throws away what resp holds.
CloseRespDiscardsWrong(t) ==
    /\ watch[t] = "closeResp"
    /\ closed' = [closed EXCEPT ![t] = @ \cup {"resp"}]
    /\ respQ' = [respQ EXCEPT ![t] = <<>>]
    /\ WatchGoesTo(t, "closeActive")
    /\ UNCHANGED <<table, key, activeQ>>

CloseResp(t) ==
    /\ watch[t] = "closeResp"
    /\ closed' = [closed EXCEPT ![t] = @ \cup {"resp"}]
    /\ WatchGoesTo(t, "closeActive")
    /\ UNCHANGED <<table, key, respQ, activeQ>>

CloseActive(t) ==
    /\ watch[t] = "closeActive"
    /\ closed' = [closed EXCEPT ![t] = @ \cup {"active"}]
    /\ WatchGoesTo(t, "done")
    /\ UNCHANGED <<table, key, respQ, activeQ>>

WatchStep(t) ==
    /\ ~crashed
    /\ \/ WatchActive(t)
       \/ WatchTimeout(t)
       \/ RmTX(t)
       \/ CloseResp(t)
       \/ CloseActive(t)
    /\ UNCHANGED <<callerVars, listenerVars, arrived, crashed>>

-----------------------------------------------------------------------------

\* The goroutines that are left wait for nothing but the network.
Quiet ==
    \/ crashed
    \/ /\ \A c \in Callers : cpc[c] \in {"returned", "nil", "failed"}
       /\ \A l \in Listeners : lpc[l] = "idle"
       /\ \A t \in Txs : watch[t] \in {"unborn", "done"}

Rest == Quiet /\ UNCHANGED vars

Next ==
    \/ \E c \in Callers : CallerStarts(c) \/ CallerStep(c)
    \/ \E l \in Listeners : PacketArrives(l) \/ ListenerStep(l)
    \/ \E t \in Txs : WatchStep(t)
    \/ Rest

Safety == Init /\ [][Next]_vars

\* The runtime schedules every goroutine that can run, and timers expire; no
\* caller has to send a request and no packet has to arrive.
Spec ==
    /\ Safety
    /\ \A c \in Callers : WF_vars(CallerStep(c))
    /\ \A l \in Listeners : WF_vars(ListenerStep(l))
    /\ \A t \in Txs : WF_vars(WatchStep(t))

-----------------------------------------------------------------------------
(* Properties *)

\* The table never leads a listener or mustTX to a transaction whose channels
\* are closed or about to be closed, and leads to one of the key looked up:
\* Close removes the entry before it closes anything.
TableOpen ==
    \A k \in Keys : table[k] # None =>
        /\ key[table[k]] = k
        /\ closed[table[k]] = {}
        /\ watch[table[k]] \in {"select", "rmTX"}

\* While a transaction is open its responses find it, if no other transaction
\* was ever created with its Call-ID (with another one, newTX can displace it
\* and rmTX can delete its entry).
SoleTxFindable ==
    \A t \in Txs :
        /\ watch[t] = "select"
        /\ \A u \in Txs \ {t} : key[u] # key[t]
        => table[key[t]] = t

\* A caller gets the answer to its own request as long as no other request
\* has its Call-ID: transactions are found by nothing else ("waits for the
\* matching response", tx.go:2).
OwnResponse ==
    \A c \in Callers :
        /\ cpc[c] = "returned"
        /\ \A d \in Callers \ {c} : ckey[d] # ckey[c]
        => Last(got[c]).of = c

\* The places a packet can be in: a listener's hand, a buffer, a caller.
Places(n) ==
    {<<"listener", l>> : l \in {m \in Listeners :
                                  lpc[m] = "resp" /\ lmsg[m].id = n}}
    \cup (UNION {{<<"resp", t, i>> : i \in {j \in 1..Len(respQ[t]) :
                                  respQ[t][j].id = n}} : t \in Txs})
    \cup (UNION {{<<"caller", c, i>> : i \in {j \in 1..Len(got[c]) :
                                  got[c][j].id = n}} : c \in Callers})

\* No packet is handed to two callers or twice to one, and none is taken while
\* a listener still holds it.
DeliveredOnce == \A n \in 1..arrived : Cardinality(Places(n)) <= 1

\* GetResponse returns nil only when the transaction can never hold another
\* response: nothing that reached resp before Close is lost to a nil.
NilOnlyWhenDrained ==
    \A c \in Callers : cpc[c] = "nil" =>
        /\ respQ[ctx[c]] = <<>>
        /\ "resp" \in closed[ctx[c]]

\* Every caller of GetResponse gets an answer or nil: the watch goroutine
\* closes the channel it waits on.
CallerReturns ==
    \A c \in Callers : cpc[c] = "recv" ~>
        (crashed \/ cpc[c] \in {"returned", "nil"})

\* A listener that a full resp or active blocks goes back to its socket: the
\* responses nobody reads cannot stop it for longer than the transaction lives.
ListenerFreed ==
    \A l \in Listeners : lpc[l] \in {"resp", "active"} ~>
        (crashed \/ lpc[l] = "idle")

\* Every transaction is closed and leaves the table, used or not.
TxReclaimed ==
    \A t \in Txs : watch[t] = "select" ~>
        (crashed \/ (closed[t] = {"resp", "active"} /\ table[key[t]] # t))

\* The mailbox a transaction is to its callers (Mailbox.tla): it exists from
\* newTX to close(tx.resp), and its callers are those that mustTX gave it to.
MailStage(t) == CASE watch[t] = "unborn" -> "unborn"
                  [] "resp" \in closed[t] -> "closed"
                  [] OTHER -> "open"
Verdict(c) == CASE cpc[c] = "returned" -> "answered"
                [] cpc[c] = "nil" -> "nothing"
                [] OTHER -> "waiting"

Mail == INSTANCE Mailbox WITH
    Boxes <- Txs, Readers <- Callers, Letters <- Packet, Size <- RespCap,
    stage <- [t \in Txs |-> MailStage(t)],
    box <- respQ,
    joined <- ctx,
    inbox <- got,
    verdict <- [c \in Callers |-> Verdict(c)]

\* The transactions implement the mailboxes: responses reach the callers of
\* GetResponse in the order of their delivery, each one once, none after
\* Close, and nil is returned only by a closed and drained transaction.
ImplementsMailbox == Mail!Spec

\* SIPResponse "returns the response the transaction received" (sender.go:38):
\* no caller that took a response is stopped by a panic before it returns it.
NoSendOnClosed == ~crashed
==============================================================================
