--------------------------- MODULE TransactionProofs ---------------------------
(***************************************************************************)
(* Theorems about Transaction, for any number of keys, transactions,       *)
(* callers, listeners and packets and for any capacity of resp: its        *)
(* invariants, that no packet is in two places, and that a transaction     *)
(* implements the mailbox of Mailbox.tla.                                  *)
(***************************************************************************)
EXTENDS Transaction, TLAPS, SequenceTheorems, FiniteSetTheorems

-----------------------------------------------------------------------------
(* The inductive invariant *)

\* The life of a transaction: its channels are closed by its watch goroutine,
\* resp first.
WatchInv ==
    \A t \in Txs :
        /\ watch[t] = "unborn" => key[t] = None /\ respQ[t] = <<>>
        /\ watch[t] # "unborn" => key[t] \in Keys
        /\ "resp" \in closed[t] <=> watch[t] \in {"closeActive", "done"}
        /\ "active" \in closed[t] <=> watch[t] = "done"

\* What a caller and a listener know of their transaction.
CallerInv ==
    \A c \in Callers :
        /\ cpc[c] \in {"idle", "create", "write"} => got[c] = <<>>
        /\ cpc[c] \in {"idle", "create"} => ctx[c] = None
        /\ cpc[c] = "idle" => ckey[c] = None
        /\ cpc[c] # "idle" => ckey[c] \in Keys
        /\ cpc[c] \notin {"idle", "create"} =>
              ctx[c] \in Txs /\ key[ctx[c]] = ckey[c]
        /\ cpc[c] \in {"signal", "returned"} => got[c] # <<>>

ListenerInv ==
    \A l \in Listeners :
        /\ lpc[l] \in {"resp", "active"} => ltx[l] \in Txs
        /\ lpc[l] # "idle" => lmsg[l] \in Packet
        /\ ltx[l] # None =>
              /\ lpc[l] \in {"resp", "active"}
              /\ key[ltx[l]] = lmsg[l].key

IInv == TypeOK /\ WatchInv /\ TableOpen /\ CallerInv /\ ListenerInv

\* The response answers a request with this Call-ID.
AnswersKey(p, k) == p.of \in Callers /\ ckey[p.of] = k

\* Every response is with a transaction or a caller of the Call-ID that the
\* request it answers has.
RoutedByCallID ==
    /\ \A t \in Txs : \A i \in 1..Len(respQ[t]) :
          AnswersKey(respQ[t][i], key[t])
    /\ \A c \in Callers : \A i \in 1..Len(got[c]) :
          AnswersKey(got[c][i], ckey[c])
    /\ \A l \in Listeners : ltx[l] # None => AnswersKey(lmsg[l], key[ltx[l]])

-----------------------------------------------------------------------------

LEMMA InitIInv == Init => IInv
<1> SUFFICES ASSUME Init PROVE IInv
    OBVIOUS
<1> USE TransactionAssumption DEF Init
<1>1. TypeOK
  <2>1. <<>> \in Seq(Packet)
    BY EmptySeq
  <2>2. /\ respQ \in [Txs -> Seq(Packet)]
        /\ got \in [Callers -> Seq(Packet)]
    BY <2>1
  <2>3. /\ closed \in [Txs -> SUBSET {"resp", "active"}]
        /\ activeQ \in [Txs -> 0..1]
        /\ arrived \in 0..MaxArrivals
    BY DEF TransactionAssumption
  <2> QED
    BY <2>2, <2>3 DEF TypeOK, WatchStages, CallerStages, ListenerStages
<1>2. WatchInv
  BY DEF WatchInv
<1>3. TableOpen
  BY DEF TableOpen
<1>4. CallerInv
  BY DEF CallerInv
<1>5. ListenerInv
  BY DEF ListenerInv
<1> QED
  BY <1>1, <1>2, <1>3, <1>4, <1>5 DEF IInv

\* A new transaction is fresh, so no caller, listener or entry has it.
LEMMA NewTXPreserves ==
    ASSUME IInv, NEW t \in Txs, NEW k \in Keys, NewTX(t, k)
    PROVE  /\ table' \in [Keys -> Txs \cup {None}]
           /\ key' \in [Txs -> Keys \cup {None}]
           /\ watch' \in [Txs -> WatchStages]
           /\ WatchInv'
           /\ TableOpen'
           /\ \A u \in Txs : key[u] \in Keys => key'[u] = key[u]
           /\ key'[t] = k
<1> USE TransactionAssumption DEF IInv, NewTX
<1>1. /\ table' \in [Keys -> Txs \cup {None}]
      /\ key' \in [Txs -> Keys \cup {None}]
      /\ watch' \in [Txs -> WatchStages]
  BY DEF TypeOK, WatchStages
<1>2. WatchInv'
  BY DEF TypeOK, WatchInv
<1>3. key[t] = None
  BY DEF WatchInv
<1>4. \A u \in Txs : key[u] \in Keys => key'[u] = key[u]
  BY <1>3 DEF TypeOK
<1>5. key'[t] = k
  BY DEF TypeOK
<1>6. closed[t] = {}
  <2>1. closed[t] \in SUBSET {"resp", "active"}
    BY DEF TypeOK
  <2>2. "resp" \notin closed[t] /\ "active" \notin closed[t]
    BY DEF WatchInv
  <2> QED
    BY <2>1, <2>2
<1>7. TableOpen'
  BY <1>3, <1>6 DEF TypeOK, TableOpen
<1> QED
  BY <1>1, <1>2, <1>4, <1>5, <1>7

LEMMA SendActivePreserves ==
    ASSUME IInv, NEW t \in Txs, SendActive(t)
    PROVE  activeQ' \in [Txs -> 0..1] /\ WatchInv' /\ TableOpen'
BY DEF IInv, SendActive, TypeOK, WatchInv, TableOpen

-----------------------------------------------------------------------------
(* The steps of a caller *)

LEMMA LookupIInv ==
    ASSUME IInv, NEW c \in Callers, NEW k \in Keys, Lookup(c, k),
           UNCHANGED crashed
    PROVE  IInv'
<1> USE TransactionAssumption
    DEF IInv, Lookup, txVars, callerVars, listenerVars
<1>1. TypeOK'
  BY DEF TypeOK, CallerStages
<1>2. WatchInv' /\ TableOpen' /\ ListenerInv'
  BY DEF WatchInv, TableOpen, ListenerInv
<1>3. CallerInv'
  BY DEF TypeOK, CallerInv, TableOpen
<1> QED
  BY <1>1, <1>2, <1>3

LEMMA CreateIInv ==
    ASSUME IInv, NEW c \in Callers, NEW t \in Txs, Create(c, t),
           UNCHANGED crashed
    PROVE  IInv'
<1> USE TransactionAssumption
    DEF IInv, Create, callerVars, listenerVars
<1>1. ckey[c] \in Keys /\ NewTX(t, ckey[c])
  BY DEF CallerInv
<1>2. /\ table' \in [Keys -> Txs \cup {None}]
      /\ key' \in [Txs -> Keys \cup {None}]
      /\ watch' \in [Txs -> WatchStages]
      /\ WatchInv'
      /\ TableOpen'
      /\ \A u \in Txs : key[u] \in Keys => key'[u] = key[u]
      /\ key'[t] = ckey[c]
  BY <1>1, NewTXPreserves
<1>3. TypeOK'
  BY <1>2 DEF NewTX, TypeOK, CallerStages
<1>4. CallerInv'
  BY <1>2 DEF TypeOK, CallerInv
<1>5. ListenerInv'
  BY <1>2 DEF TypeOK, ListenerInv, Packet
<1> QED
  BY <1>2, <1>3, <1>4, <1>5

LEMMA WriteIInv ==
    ASSUME IInv, NEW c \in Callers, NEW outcome \in {"recv", "failed"},
           Write(c, outcome), UNCHANGED crashed
    PROVE  IInv'
<1> USE TransactionAssumption
    DEF IInv, Write, txVars, callerVars, listenerVars
<1>1. TypeOK'
  BY DEF TypeOK, CallerStages
<1>2. WatchInv' /\ TableOpen' /\ ListenerInv'
  BY DEF WatchInv, TableOpen, ListenerInv
<1>3. CallerInv'
  BY DEF TypeOK, CallerInv
<1> QED
  BY <1>1, <1>2, <1>3

LEMMA TakeResponseIInv ==
    ASSUME IInv, NEW c \in Callers, TakeResponse(c), UNCHANGED crashed
    PROVE  IInv'
<1> USE TransactionAssumption
    DEF IInv, TakeResponse, callerVars, listenerVars
<1>1. ctx[c] \in Txs
  BY DEF CallerInv
<1>2. /\ respQ[ctx[c]] \in Seq(Packet)
      /\ respQ[ctx[c]] # <<>>
      /\ got[c] \in Seq(Packet)
  BY <1>1 DEF TypeOK
<1>3. Head(respQ[ctx[c]]) \in Packet /\ Tail(respQ[ctx[c]]) \in Seq(Packet)
  BY <1>2, HeadTailProperties
<1>4. Append(got[c], Head(respQ[ctx[c]])) \in Seq(Packet) \ {<<>>}
  BY <1>2, <1>3, AppendProperties
<1>5. TypeOK'
  BY <1>1, <1>3, <1>4 DEF TypeOK, CallerStages
<1>6. WatchInv'
  BY <1>1, <1>2 DEF TypeOK, WatchInv, CallerInv
<1>7. TableOpen' /\ ListenerInv'
  BY DEF TableOpen, ListenerInv
<1>8. CallerInv'
  BY <1>4 DEF TypeOK, CallerInv
<1> QED
  BY <1>5, <1>6, <1>7, <1>8

LEMMA TakeNilIInv ==
    ASSUME IInv, NEW c \in Callers, TakeNil(c), UNCHANGED crashed
    PROVE  IInv'
<1> USE TransactionAssumption
    DEF IInv, TakeNil, txVars, callerVars, listenerVars
<1>1. TypeOK'
  BY DEF TypeOK, CallerStages
<1>2. WatchInv' /\ TableOpen' /\ ListenerInv'
  BY DEF WatchInv, TableOpen, ListenerInv
<1>3. CallerInv'
  BY DEF TypeOK, CallerInv
<1> QED
  BY <1>1, <1>2, <1>3

LEMMA SignalIInv ==
    ASSUME IInv, NEW c \in Callers, Signal(c), UNCHANGED crashed
    PROVE  IInv'
<1> USE TransactionAssumption
    DEF IInv, Signal, callerVars, listenerVars
<1>1. ctx[c] \in Txs
  BY DEF CallerInv
<1>2. activeQ' \in [Txs -> 0..1] /\ WatchInv' /\ TableOpen'
  BY <1>1, SendActivePreserves
<1>3. PICK s \in {"recv", "returned"} : cpc' = [cpc EXCEPT ![c] = s]
  OBVIOUS
<1>4. TypeOK'
  BY <1>2, <1>3 DEF SendActive, TypeOK, CallerStages
<1>5. CallerInv'
  BY <1>3 DEF SendActive, TypeOK, CallerInv
<1>6. ListenerInv'
  BY DEF SendActive, ListenerInv
<1> QED
  BY <1>2, <1>4, <1>5, <1>6

LEMMA SignalPanicsIInv ==
    ASSUME IInv, NEW c \in Callers, SignalPanics(c)
    PROVE  IInv'
BY DEF IInv, SignalPanics, txVars, callerVars, listenerVars,
       TypeOK, WatchInv, TableOpen, CallerInv, ListenerInv

-----------------------------------------------------------------------------
(* The steps of a listener *)

LEMMA RequestArrivesIInv ==
    ASSUME IInv, NEW l \in Listeners, NEW k \in Keys, RequestArrives(l, k),
           UNCHANGED crashed
    PROVE  IInv'
<1> USE TransactionAssumption DEF IInv, RequestArrives, txVars, callerVars
<1>1. arrived' \in 1..MaxArrivals /\ arrived + 1 = arrived'
  BY DEF TypeOK, TransactionAssumption
<1>2. NextPacket(k, None, "request") \in Packet
  BY <1>1 DEF NextPacket, Packet
<1>3. TypeOK'
  <2>1. lpc' \in [Listeners -> ListenerStages]
    BY ZenonT(30) DEF TypeOK, ListenerStages
  <2>2. lmsg' \in [Listeners -> Packet \cup {None}]
    BY <1>2 DEF TypeOK
  <2>3. arrived' \in 0..MaxArrivals
    BY <1>1 DEF TransactionAssumption
  <2> QED
    BY <2>1, <2>2, <2>3 DEF TypeOK
<1>4. UNCHANGED <<table, key, respQ, closed, watch, cpc, ckey, ctx, got>>
  OBVIOUS
<1>5. WatchInv' /\ TableOpen' /\ CallerInv'
  BY <1>4 DEF WatchInv, TableOpen, CallerInv
<1>6. ListenerInv'
  BY <1>2, ZenonT(30) DEF TypeOK, ListenerInv
<1> QED
  BY <1>3, <1>5, <1>6

LEMMA ListenerCreatesIInv ==
    ASSUME IInv, NEW l \in Listeners, NEW t \in Txs, ListenerCreates(l, t),
           UNCHANGED crashed
    PROVE  IInv'
<1> USE TransactionAssumption DEF IInv, ListenerCreates, callerVars
<1>1. lmsg[l].key \in Keys /\ NewTX(t, lmsg[l].key)
  BY DEF ListenerInv, Packet
<1>2. /\ table' \in [Keys -> Txs \cup {None}]
      /\ key' \in [Txs -> Keys \cup {None}]
      /\ watch' \in [Txs -> WatchStages]
      /\ WatchInv'
      /\ TableOpen'
      /\ \A u \in Txs : key[u] \in Keys => key'[u] = key[u]
  BY <1>1, NewTXPreserves
<1>3. TypeOK'
  BY <1>2 DEF NewTX, TypeOK, ListenerStages
<1>4. CallerInv'
  BY <1>2 DEF TypeOK, CallerInv
<1>5. ListenerInv'
  BY <1>2 DEF TypeOK, ListenerInv, Packet
<1> QED
  BY <1>2, <1>3, <1>4, <1>5

LEMMA ResponseArrivesIInv ==
    ASSUME IInv, NEW l \in Listeners, NEW c \in Callers,
           NEW kind \in {"trying", "final"}, ResponseArrives(l, c, kind),
           UNCHANGED crashed
    PROVE  IInv'
<1> USE TransactionAssumption
    DEF IInv, ResponseArrives, txVars, callerVars, listenerVars
<1>1. arrived' \in 1..MaxArrivals /\ arrived + 1 = arrived'
  BY DEF TypeOK, TransactionAssumption
<1>2. ckey[c] \in Keys
  BY DEF CallerInv, Sent
<1>3. NextPacket(ckey[c], c, kind) \in Packet
  BY <1>1, <1>2 DEF NextPacket, Packet
<1>4. TypeOK'
  <2>1. lpc' \in [Listeners -> ListenerStages]
    <3>1. lpc \in [Listeners -> ListenerStages] /\ "resp" \in ListenerStages
      BY DEF TypeOK, ListenerStages
    <3>2. lpc' = lpc \/ lpc' = [lpc EXCEPT ![l] = "resp"]
      OBVIOUS
    <3> QED
      BY <3>1, <3>2
  <2>2. ltx' \in [Listeners -> Txs \cup {None}]
    BY <1>2 DEF TypeOK
  <2>3. lmsg' \in [Listeners -> Packet \cup {None}]
    BY <1>3 DEF TypeOK
  <2>4. arrived' \in 0..MaxArrivals
    BY <1>1 DEF TransactionAssumption
  <2> QED
    BY <2>1, <2>2, <2>3, <2>4 DEF TypeOK
<1>5. WatchInv' /\ TableOpen' /\ CallerInv'
  <2>1. UNCHANGED <<table, key, respQ, closed, watch, cpc, ckey, ctx, got>>
    OBVIOUS
  <2> QED
    BY <2>1 DEF WatchInv, TableOpen, CallerInv
<1>6. ListenerInv'
  <2>1. table[ckey[c]] # None =>
          table[ckey[c]] \in Txs /\ key[table[ckey[c]]] = ckey[c]
    BY <1>2 DEF TypeOK, TableOpen
  <2>2. NextPacket(ckey[c], c, kind).key = ckey[c]
    BY DEF NextPacket
  <2> QED
    BY <1>3, <2>1, <2>2, ZenonT(30) DEF TypeOK, ListenerInv
<1> QED
  BY <1>4, <1>5, <1>6

LEMMA PushResponseIInv ==
    ASSUME IInv, NEW l \in Listeners, PushResponse(l), UNCHANGED crashed
    PROVE  IInv'
<1> USE TransactionAssumption DEF IInv, PushResponse, callerVars
<1>1. ltx[l] \in Txs /\ lmsg[l] \in Packet /\ key[ltx[l]] = lmsg[l].key
  BY DEF ListenerInv, TransactionAssumption
<1>2. Append(respQ[ltx[l]], lmsg[l]) \in Seq(Packet)
  BY <1>1, AppendProperties DEF TypeOK
<1>3. TypeOK'
  BY <1>1, <1>2 DEF TypeOK, ListenerStages
<1>4. watch[ltx[l]] # "unborn"
  BY <1>1 DEF WatchInv, Packet, TransactionAssumption
<1>5. WatchInv'
  BY <1>1, <1>4 DEF TypeOK, WatchInv
<1>6. TableOpen' /\ CallerInv'
  BY DEF TableOpen, CallerInv
<1>7. ListenerInv'
  BY DEF TypeOK, ListenerInv
<1> QED
  BY <1>3, <1>5, <1>6, <1>7

LEMMA PushActiveIInv ==
    ASSUME IInv, NEW l \in Listeners, PushActive(l), UNCHANGED crashed
    PROVE  IInv'
<1> USE TransactionAssumption DEF IInv, PushActive, ListenerDone, callerVars
<1>1. ltx[l] \in Txs
  BY DEF ListenerInv
<1>2. activeQ' \in [Txs -> 0..1] /\ WatchInv' /\ TableOpen'
  BY <1>1, SendActivePreserves
<1>3. TypeOK'
  BY <1>2 DEF SendActive, TypeOK, ListenerStages
<1>4. CallerInv'
  BY DEF SendActive, CallerInv
<1>5. ListenerInv'
  BY DEF SendActive, TypeOK, ListenerInv
<1> QED
  BY <1>2, <1>3, <1>4, <1>5

LEMMA RecoveredIInv ==
    ASSUME IInv, NEW l \in Listeners, Recovered(l), UNCHANGED crashed
    PROVE  IInv'
<1> USE TransactionAssumption
    DEF IInv, Recovered, ListenerDone, txVars, callerVars
<1>1. TypeOK'
  BY DEF TypeOK, ListenerStages
<1>2. WatchInv' /\ TableOpen' /\ CallerInv'
  BY DEF WatchInv, TableOpen, CallerInv
<1>3. ListenerInv'
  BY DEF TypeOK, ListenerInv
<1> QED
  BY <1>1, <1>2, <1>3

-----------------------------------------------------------------------------
(* The steps of a watch goroutine *)

LEMMA WatchStepIInv ==
    ASSUME IInv, NEW t \in Txs, WatchStep(t)
    PROVE  IInv'
<1> USE TransactionAssumption
    DEF IInv, WatchStep, WatchGoesTo, callerVars, listenerVars
<1>1. CASE WatchActive(t)
  BY <1>1 DEF WatchActive, TypeOK, WatchInv, TableOpen, CallerInv, ListenerInv
<1>2. CASE WatchTimeout(t)
  <2>1. TypeOK' /\ WatchInv'
    BY <1>2 DEF WatchTimeout, TypeOK, WatchInv, WatchStages
  <2>2. TableOpen'
    BY <1>2 DEF WatchTimeout, TypeOK, TableOpen
  <2>3. CallerInv' /\ ListenerInv'
    BY <1>2 DEF WatchTimeout, CallerInv, ListenerInv
  <2> QED
    BY <2>1, <2>2, <2>3
<1>3. CASE RmTX(t)
  <2>1. key[t] \in Keys
    BY <1>3 DEF RmTX, WatchInv
  <2>2. TypeOK' /\ WatchInv'
    BY <1>3, <2>1 DEF RmTX, TypeOK, WatchInv, WatchStages
  <2>3. TableOpen'
    BY <1>3, <2>1 DEF RmTX, TypeOK, TableOpen
  <2>4. CallerInv' /\ ListenerInv'
    BY <1>3 DEF RmTX, CallerInv, ListenerInv
  <2> QED
    BY <2>2, <2>3, <2>4
<1>4. CASE CloseResp(t)
  <2>1. TypeOK' /\ WatchInv'
    BY <1>4 DEF CloseResp, TypeOK, WatchInv, WatchStages
  <2>2. TableOpen'
    BY <1>4 DEF CloseResp, TypeOK, TableOpen
  <2>3. CallerInv' /\ ListenerInv'
    BY <1>4 DEF CloseResp, CallerInv, ListenerInv
  <2> QED
    BY <2>1, <2>2, <2>3
<1>5. CASE CloseActive(t)
  <2>1. TypeOK' /\ WatchInv'
    BY <1>5 DEF CloseActive, TypeOK, WatchInv, WatchStages
  <2>2. TableOpen'
    BY <1>5 DEF CloseActive, TypeOK, TableOpen
  <2>3. CallerInv' /\ ListenerInv'
    BY <1>5 DEF CloseActive, CallerInv, ListenerInv
  <2> QED
    BY <2>1, <2>2, <2>3
<1> QED
  BY <1>1, <1>2, <1>3, <1>4, <1>5

-----------------------------------------------------------------------------

LEMMA NextIInv == IInv /\ [Next]_vars => IInv'
<1> SUFFICES ASSUME IInv, [Next]_vars PROVE IInv'
    OBVIOUS
<1>1. ASSUME NEW c \in Callers, CallerStarts(c) PROVE IInv'
  BY <1>1, LookupIInv DEF CallerStarts
<1>2. ASSUME NEW c \in Callers, CallerStep(c) PROVE IInv'
  BY <1>2, CreateIInv, WriteIInv, TakeResponseIInv, TakeNilIInv, SignalIInv,
     SignalPanicsIInv DEF CallerStep, CallerGoes
<1>3. ASSUME NEW l \in Listeners, PacketArrives(l) PROVE IInv'
  BY <1>3, RequestArrivesIInv, ResponseArrivesIInv DEF PacketArrives
<1>4. ASSUME NEW l \in Listeners, ListenerStep(l) PROVE IInv'
  BY <1>4, ListenerCreatesIInv, PushResponseIInv, PushActiveIInv,
     RecoveredIInv DEF ListenerStep
<1>5. ASSUME NEW t \in Txs, WatchStep(t) PROVE IInv'
  BY <1>5, WatchStepIInv
<1>6. CASE Rest \/ UNCHANGED vars
  BY <1>6 DEF Rest, vars, IInv, TypeOK, WatchInv, TableOpen, CallerInv,
     ListenerInv
<1> QED
  BY <1>1, <1>2, <1>3, <1>4, <1>5, <1>6 DEF Next

LEMMA Inductive == Safety => []IInv
BY InitIInv, NextIInv, PTL DEF Safety

\* Type correctness of the transactions and of the goroutines that use them.
THEOREM TypeCorrect == Safety => []TypeOK
BY Inductive, PTL DEF IInv

\* However callers, listeners and timers interleave, the table of transactions
\* never leads to a transaction that Close has begun to close.
THEOREM TableStaysOpen == Safety => []TableOpen
BY Inductive, PTL DEF IInv

-----------------------------------------------------------------------------
(* What a step can do to the parts of the state the next theorems are about *)

\* The table, the keys and the watch goroutines change in newTX and in the
\* steps of a watch goroutine only.
LEMMA WhoChangesTable ==
    ASSUME IInv, [Next]_vars
    PROVE  \/ UNCHANGED <<table, key, watch>>
           \/ \E t \in Txs, k \in Keys : NewTX(t, k)
           \/ \E t \in Txs : WatchStep(t)
<1>1. ASSUME NEW c \in Callers, CallerStarts(c)
      PROVE  UNCHANGED <<table, key, watch>>
  BY <1>1 DEF CallerStarts, Lookup, txVars
<1>2. ASSUME NEW c \in Callers, CallerStep(c)
      PROVE  \/ UNCHANGED <<table, key, watch>>
             \/ \E t \in Txs, k \in Keys : NewTX(t, k)
  <2>1. ASSUME NEW t \in Txs, Create(c, t)
        PROVE  \E u \in Txs, k \in Keys : NewTX(u, k)
    BY <2>1 DEF Create, IInv, CallerInv
  <2> QED
    BY <1>2, <2>1 DEF CallerStep, CallerGoes, Write, TakeResponse, TakeNil,
       Signal, SendActive, SignalPanics, txVars
<1>3. ASSUME NEW l \in Listeners, PacketArrives(l)
      PROVE  UNCHANGED <<table, key, watch>>
  BY <1>3 DEF PacketArrives, RequestArrives, ResponseArrives, txVars
<1>4. ASSUME NEW l \in Listeners, ListenerStep(l)
      PROVE  \/ UNCHANGED <<table, key, watch>>
             \/ \E t \in Txs, k \in Keys : NewTX(t, k)
  <2>1. ASSUME NEW t \in Txs, ListenerCreates(l, t)
        PROVE  \E u \in Txs, k \in Keys : NewTX(u, k)
    BY <2>1 DEF ListenerCreates, IInv, ListenerInv, Packet
  <2> QED
    BY <1>4, <2>1 DEF ListenerStep, PushResponse, PushActive, SendActive,
       Recovered, txVars
<1>5. CASE Rest \/ UNCHANGED vars
  BY <1>5 DEF Rest, vars
<1> QED
  BY <1>1, <1>2, <1>3, <1>4, <1>5 DEF Next

\* While no second transaction is created with its Call-ID, an open
\* transaction can be found: nothing else removes its entry.
THEOREM SoleFindable == Safety => []SoleTxFindable
<1>1. Init => SoleTxFindable
  BY DEF Init, SoleTxFindable
<1>2. IInv /\ SoleTxFindable /\ [Next]_vars => SoleTxFindable'
  <2> SUFFICES ASSUME IInv, SoleTxFindable, [Next]_vars
               PROVE  SoleTxFindable'
    OBVIOUS
  <2>1. CASE UNCHANGED <<table, key, watch>>
    BY <2>1 DEF SoleTxFindable
  <2>2. ASSUME NEW t \in Txs, NEW k \in Keys, NewTX(t, k)
        PROVE  SoleTxFindable'
    <3> SUFFICES ASSUME NEW u \in Txs, watch'[u] = "select",
                        \A v \in Txs \ {u} : key'[v] # key'[u]
                 PROVE  table'[key'[u]] = u
      BY DEF SoleTxFindable
    <3>1. CASE u = t
      BY <2>2, <3>1 DEF NewTX, IInv, TypeOK
    <3>2. CASE u # t
      <4>1. watch[u] = "select" /\ key'[u] = key[u] /\ key[u] # k
        BY <2>2, <3>2 DEF NewTX, IInv, TypeOK
      <4>2. key[t] = None /\ key[u] \in Keys
        BY <2>2, <4>1 DEF NewTX, IInv, WatchInv
      <4>3. \A v \in Txs \ {u} : key[v] # key[u]
        BY <2>2, <4>1, <4>2, TransactionAssumption
           DEF NewTX, IInv, TypeOK, TransactionAssumption
      <4>4. table[key[u]] = u
        BY <4>1, <4>3 DEF SoleTxFindable
      <4> QED
        BY <2>2, <4>1, <4>2, <4>4 DEF NewTX, IInv, TypeOK
    <3> QED
      BY <3>1, <3>2
  <2>3. ASSUME NEW t \in Txs, WatchStep(t)
        PROVE  SoleTxFindable'
    <3>1. CASE RmTX(t)
      <4>1. key[t] \in Keys
        BY <3>1 DEF RmTX, IInv, WatchInv
      <4> QED
        BY <3>1, <4>1 DEF RmTX, WatchGoesTo, SoleTxFindable, IInv, TypeOK
    <3>2. CASE ~RmTX(t)
      <4>1. /\ UNCHANGED <<table, key>>
            /\ \A u \in Txs : watch'[u] = "select" => watch[u] = "select"
        BY <2>3, <3>2 DEF WatchStep, WatchActive, WatchTimeout, CloseResp,
           CloseActive, WatchGoesTo, IInv, TypeOK
      <4> QED
        BY <4>1 DEF SoleTxFindable
    <3> QED
      BY <3>1, <3>2
  <2> QED
    BY <2>1, <2>2, <2>3, WhoChangesTable
<1> QED
  BY Inductive, <1>1, <1>2, PTL DEF Safety

\* The buffers and what callers took change when a listener pushes a response
\* and when a caller takes one.
LEMMA WhoChangesMail ==
    ASSUME IInv, [Next]_vars
    PROVE  \/ UNCHANGED <<respQ, got>>
           \/ \E c \in Callers : TakeResponse(c)
           \/ \E l \in Listeners : PushResponse(l)
<1>1. ASSUME NEW c \in Callers, CallerStarts(c) \/ CallerStep(c)
      PROVE  UNCHANGED <<respQ, got>> \/ TakeResponse(c)
  BY <1>1 DEF CallerStarts, CallerStep, CallerGoes, Lookup, Create, NewTX,
     Write, TakeNil, Signal, SendActive, SignalPanics, txVars, callerVars
<1>2. ASSUME NEW l \in Listeners, PacketArrives(l) \/ ListenerStep(l)
      PROVE  UNCHANGED <<respQ, got>> \/ PushResponse(l)
  BY <1>2 DEF PacketArrives, ListenerStep, RequestArrives, ResponseArrives,
     ListenerCreates, NewTX, PushActive, SendActive, Recovered, txVars,
     callerVars
<1>3. ASSUME NEW t \in Txs, WatchStep(t)
      PROVE  UNCHANGED <<respQ, got>>
  BY <1>3 DEF WatchStep, WatchActive, WatchTimeout, RmTX, CloseResp,
     CloseActive, callerVars
<1>4. CASE Rest \/ UNCHANGED vars
  BY <1>4 DEF Rest, vars
<1> QED
  BY <1>1, <1>2, <1>3, <1>4 DEF Next

\* A transaction keeps its key, a caller the Call-ID of its request.
LEMMA KeysStay ==
    ASSUME IInv, [Next]_vars
    PROVE  /\ \A t \in Txs : key[t] \in Keys => key'[t] = key[t]
           /\ \A c \in Callers : ckey[c] # None => ckey'[c] = ckey[c]
<1>1. \A t \in Txs : key[t] \in Keys => key'[t] = key[t]
  <2>1. CASE UNCHANGED <<table, key, watch>>
    BY <2>1
  <2>2. ASSUME NEW t \in Txs, NEW k \in Keys, NewTX(t, k)
        PROVE  \A u \in Txs : key[u] \in Keys => key'[u] = key[u]
    BY <2>2, NewTXPreserves
  <2>3. ASSUME NEW t \in Txs, WatchStep(t)
        PROVE  key' = key
    BY <2>3 DEF WatchStep, WatchActive, WatchTimeout, RmTX, CloseResp,
       CloseActive
  <2> QED
    BY <2>1, <2>2, <2>3, WhoChangesTable
<1>2. \A c \in Callers : ckey[c] # None => ckey'[c] = ckey[c]
  <2>1. ASSUME NEW c \in Callers, CallerStarts(c)
        PROVE  \A d \in Callers : ckey[d] # None => ckey'[d] = ckey[d]
    <3>1. PICK k \in Keys : Lookup(c, k)
      BY <2>1 DEF CallerStarts
    <3>2. ckey[c] = None
      BY <3>1 DEF Lookup, IInv, CallerInv
    <3> QED
      BY <3>1, <3>2 DEF Lookup, IInv, TypeOK
  <2>2. ASSUME NEW c \in Callers, CallerStep(c) PROVE ckey' = ckey
    BY <2>2 DEF CallerStep, CallerGoes, Create, Write, TakeResponse, TakeNil,
       Signal, SignalPanics, callerVars
  <2>3. ASSUME NEW l \in Listeners, PacketArrives(l) \/ ListenerStep(l)
        PROVE  ckey' = ckey
    BY <2>3 DEF PacketArrives, ListenerStep, RequestArrives, ResponseArrives,
       ListenerCreates, PushResponse, PushActive, Recovered, callerVars
  <2>4. ASSUME NEW t \in Txs, WatchStep(t) PROVE ckey' = ckey
    BY <2>4 DEF WatchStep, callerVars
  <2>5. CASE Rest \/ UNCHANGED vars
    BY <2>5 DEF Rest, vars
  <2> QED
    BY <2>1, <2>2, <2>3, <2>4, <2>5 DEF Next
<1> QED
  BY <1>1, <1>2

\* A listener that has a transaction got it for a response to a request with
\* the transaction's Call-ID.
LEMMA WhoHoldsResponse ==
    ASSUME IInv, [Next]_vars, NEW l \in Listeners, ltx'[l] # None
    PROVE  \/ ltx'[l] = ltx[l] /\ lmsg'[l] = lmsg[l]
           \/ \E c \in Callers : /\ lmsg'[l].of = c
                                 /\ ltx'[l] \in Txs
                                 /\ key[ltx'[l]] = ckey[c]
                                 /\ ckey[c] \in Keys
<1>1. ASSUME NEW m \in Listeners, NEW k \in Keys, RequestArrives(m, k)
      PROVE  ltx'[l] = ltx[l] /\ lmsg'[l] = lmsg[l]
  <2>1. lpc[m] = "idle" /\ ltx' = ltx
    BY <1>1 DEF RequestArrives
  <2>2. m # l
    BY <2>1 DEF IInv, ListenerInv
  <2> QED
    BY <1>1, <2>1, <2>2 DEF RequestArrives, IInv, TypeOK
<1>2. ASSUME NEW m \in Listeners, NEW c \in Callers,
             NEW kind \in {"trying", "final"}, ResponseArrives(m, c, kind)
      PROVE  \/ ltx'[l] = ltx[l] /\ lmsg'[l] = lmsg[l]
             \/ /\ lmsg'[l].of = c
                /\ ltx'[l] \in Txs
                /\ key[ltx'[l]] = ckey[c]
                /\ ckey[c] \in Keys
  <2>1. ckey[c] \in Keys
    BY <1>2 DEF ResponseArrives, Sent, IInv, CallerInv
  <2>2. CASE table[ckey[c]] = None
    BY <1>2, <2>2 DEF ResponseArrives, listenerVars
  <2>3. CASE table[ckey[c]] # None
    <3>1. table[ckey[c]] \in Txs /\ key[table[ckey[c]]] = ckey[c]
      BY <2>1, <2>3 DEF IInv, TypeOK, TableOpen
    <3>2. /\ ltx' = [ltx EXCEPT ![m] = table[ckey[c]]]
          /\ lmsg' = [lmsg EXCEPT ![m] = NextPacket(ckey[c], c, kind)]
      BY <1>2, <2>3 DEF ResponseArrives
    <3>3. NextPacket(ckey[c], c, kind).of = c
      BY DEF NextPacket
    <3>4. CASE m = l
      BY <2>1, <3>1, <3>2, <3>3, <3>4 DEF IInv, TypeOK
    <3>5. CASE m # l
      BY <3>2, <3>5 DEF IInv, TypeOK
    <3> QED
      BY <3>4, <3>5
  <2> QED
    BY <2>2, <2>3
<1>3. ASSUME NEW m \in Listeners, ListenerStep(m)
      PROVE  ltx'[l] = ltx[l] /\ lmsg'[l] = lmsg[l]
  <2>1. CASE \E t \in Txs : ListenerCreates(m, t)
    <3>1. PICK t \in Txs : ListenerCreates(m, t)
      BY <2>1
    <3>2. lpc[m] = "create" /\ ltx' = ltx
      BY <3>1 DEF ListenerCreates
    <3>3. m # l
      BY <3>2 DEF IInv, ListenerInv
    <3> QED
      BY <3>1, <3>2, <3>3 DEF ListenerCreates, IInv, TypeOK
  <2>2. CASE PushResponse(m)
    BY <2>2 DEF PushResponse
  <2>3. CASE PushActive(m) \/ Recovered(m)
    BY <2>3 DEF PushActive, Recovered, ListenerDone, IInv, TypeOK
  <2> QED
    BY <1>3, <2>1, <2>2, <2>3 DEF ListenerStep
<1>4. ASSUME NEW c \in Callers, CallerStarts(c) \/ CallerStep(c)
      PROVE  UNCHANGED <<ltx, lmsg>>
  BY <1>4 DEF CallerStarts, CallerStep, CallerGoes, Lookup, Create, Write,
     TakeResponse, TakeNil, Signal, SignalPanics, listenerVars
<1>5. ASSUME NEW t \in Txs, WatchStep(t)
      PROVE  UNCHANGED <<ltx, lmsg>>
  BY <1>5 DEF WatchStep, listenerVars
<1>6. CASE Rest \/ UNCHANGED vars
  BY <1>6 DEF Rest, vars
<1> QED
  BY <1>1, <1>2, <1>3, <1>4, <1>5, <1>6 DEF Next, PacketArrives

\* A response never reaches a transaction, and so a caller, whose Call-ID is
\* not that of the request it answers.
THEOREM RoutedByKey == Safety => []RoutedByCallID
<1>1. Init => RoutedByCallID
  <2> SUFFICES ASSUME Init PROVE RoutedByCallID
      OBVIOUS
  <2>1. /\ \A t \in Txs : Len(respQ[t]) = 0
        /\ \A c \in Callers : Len(got[c]) = 0
        /\ \A l \in Listeners : ltx[l] = None
    BY DEF Init
  <2> QED
    BY <2>1 DEF RoutedByCallID
<1>2. IInv /\ IInv' /\ RoutedByCallID /\ [Next]_vars => RoutedByCallID'
  <2> SUFFICES ASSUME IInv, IInv', RoutedByCallID, [Next]_vars
               PROVE  RoutedByCallID'
    OBVIOUS
  <2> DEFINE BufferRouted(t) ==
               \A i \in 1..Len(respQ[t]) : AnswersKey(respQ[t][i], key[t])
             CallerRouted(c) ==
               \A i \in 1..Len(got[c]) : AnswersKey(got[c][i], ckey[c])
             HandRouted(l) ==
               ltx[l] # None => AnswersKey(lmsg[l], key[ltx[l]])
  <2>1. /\ \A t \in Txs : key[t] \in Keys => key'[t] = key[t]
        /\ \A c \in Callers : ckey[c] \in Keys => ckey'[c] = ckey[c]
    BY KeysStay, TransactionAssumption DEF TransactionAssumption
  <2>2. \A t \in Txs : respQ[t] # <<>> => key[t] \in Keys
    BY DEF IInv, WatchInv
  <2>3. \A c \in Callers : got[c] # <<>> => ckey[c] \in Keys
    BY TransactionAssumption DEF IInv, CallerInv, TypeOK
  <2>4. ASSUME NEW l \in Listeners
        PROVE  HandRouted(l)'
    <3> SUFFICES ASSUME ltx'[l] # None
                 PROVE  AnswersKey(lmsg[l], key[ltx[l]])'
      OBVIOUS
    <3>1. CASE ltx'[l] = ltx[l] /\ lmsg'[l] = lmsg[l]
      <4>1. ltx[l] \in Txs /\ key[ltx[l]] = lmsg[l].key /\ lmsg[l] \in Packet
        BY <3>1 DEF IInv, ListenerInv
      <4>2. key[ltx[l]] \in Keys
        BY <4>1 DEF Packet
      <4>3. lmsg[l].of \in Callers /\ ckey[lmsg[l].of] = key[ltx[l]]
        BY <3>1 DEF RoutedByCallID, AnswersKey
      <4> QED
        BY <2>1, <3>1, <4>1, <4>2, <4>3 DEF AnswersKey
    <3>2. ASSUME NEW c \in Callers, lmsg'[l].of = c, ltx'[l] \in Txs,
                 key[ltx'[l]] = ckey[c], ckey[c] \in Keys
          PROVE  AnswersKey(lmsg[l], key[ltx[l]])'
      BY <2>1, <3>2 DEF AnswersKey
    <3> QED
      BY <3>1, <3>2, WhoHoldsResponse
  <2>5. ASSUME NEW t \in Txs, respQ'[t] = respQ[t]
        PROVE  BufferRouted(t)'
    <3>1. CASE respQ[t] = <<>>
      BY <3>1, <2>5
    <3>2. CASE respQ[t] # <<>>
      BY <3>2, <2>5, <2>2, <2>1 DEF RoutedByCallID, AnswersKey
    <3> QED
      BY <3>1, <3>2
  <2>6. ASSUME NEW c \in Callers, got'[c] = got[c]
        PROVE  CallerRouted(c)'
    <3>1. CASE got[c] = <<>>
      BY <3>1, <2>6
    <3>2. CASE got[c] # <<>>
      BY <3>2, <2>6, <2>3, <2>1 DEF RoutedByCallID, AnswersKey
    <3> QED
      BY <3>1, <3>2
  <2>7. CASE UNCHANGED <<respQ, got>>
    BY <2>4, <2>5, <2>6, <2>7 DEF RoutedByCallID
  <2>8. ASSUME NEW c \in Callers, TakeResponse(c)
        PROVE  RoutedByCallID'
    <3>0. PICK t \in Txs : t = ctx[c]
      BY <2>8 DEF TakeResponse, IInv, CallerInv
    <3>1. /\ respQ[t] \in Seq(Packet) /\ respQ[t] # <<>>
          /\ got[c] \in Seq(Packet)
          /\ key[t] = ckey[c] /\ key[t] \in Keys
          /\ ckey' = ckey /\ key' = key
      BY <2>8, <3>0 DEF TakeResponse, IInv, TypeOK, CallerInv
    <3>2. Head(respQ[t]) \in Packet /\ AnswersKey(Head(respQ[t]), ckey[c])
      <4>1. Len(respQ[t]) \in Nat \ {0} /\ Head(respQ[t]) = respQ[t][1]
        BY <3>1, EmptySeq, HeadTailProperties
      <4>2. AnswersKey(respQ[t][1], key[t])
        BY <4>1 DEF RoutedByCallID
      <4> QED
        BY <3>1, <4>1, <4>2, HeadTailProperties
    <3>3. BufferRouted(t)'
      <4>1. /\ Len(Tail(respQ[t])) = Len(respQ[t]) - 1
            /\ \A i \in 1..Len(Tail(respQ[t])) :
                  Tail(respQ[t])[i] = respQ[t][i + 1]
            /\ Len(respQ[t]) \in Nat
        BY <3>1, HeadTailProperties, LenProperties
      <4>2. respQ'[t] = Tail(respQ[t])
        BY <2>8, <3>0, <3>1 DEF TakeResponse, IInv, TypeOK
      <4> QED
        BY <3>1, <4>1, <4>2 DEF RoutedByCallID, AnswersKey
    <3>4. CallerRouted(c)'
      <4>1. /\ Len(Append(got[c], Head(respQ[t]))) = Len(got[c]) + 1
            /\ \A i \in 1..Len(got[c]) :
                  Append(got[c], Head(respQ[t]))[i] = got[c][i]
            /\ Append(got[c], Head(respQ[t]))[Len(got[c]) + 1]
                 = Head(respQ[t])
            /\ Len(got[c]) \in Nat
        BY <3>1, <3>2, AppendProperties, LenProperties
      <4>2. got'[c] = Append(got[c], Head(respQ[t]))
        BY <2>8, <3>0, <3>1 DEF TakeResponse, IInv, TypeOK
      <4> QED
        BY <3>1, <3>2, <4>1, <4>2 DEF RoutedByCallID, AnswersKey
    <3>5. /\ \A u \in Txs \ {t} : respQ'[u] = respQ[u]
          /\ \A d \in Callers \ {c} : got'[d] = got[d]
      BY <2>8, <3>0, <3>1 DEF TakeResponse, IInv, TypeOK
    <3> QED
      BY <2>4, <2>5, <2>6, <3>3, <3>4, <3>5 DEF RoutedByCallID
  <2>9. ASSUME NEW l \in Listeners, PushResponse(l)
        PROVE  RoutedByCallID'
    <3>0. PICK t \in Txs : t = ltx[l]
      BY <2>9 DEF PushResponse, IInv, ListenerInv
    <3>1. /\ respQ[t] \in Seq(Packet)
          /\ lmsg[l] \in Packet
          /\ AnswersKey(lmsg[l], key[t])
          /\ ckey' = ckey /\ key' = key
      BY <2>9, <3>0, TransactionAssumption
         DEF PushResponse, IInv, TypeOK, ListenerInv, TransactionAssumption,
             RoutedByCallID, callerVars
    <3>2. BufferRouted(t)'
      <4>1. /\ Len(Append(respQ[t], lmsg[l])) = Len(respQ[t]) + 1
            /\ \A i \in 1..Len(respQ[t]) :
                  Append(respQ[t], lmsg[l])[i] = respQ[t][i]
            /\ Append(respQ[t], lmsg[l])[Len(respQ[t]) + 1] = lmsg[l]
            /\ Len(respQ[t]) \in Nat
        BY <3>1, AppendProperties, LenProperties
      <4>2. respQ'[t] = Append(respQ[t], lmsg[l])
        BY <2>9, <3>0, <3>1 DEF PushResponse, IInv, TypeOK
      <4> QED
        BY <3>1, <4>1, <4>2 DEF RoutedByCallID, AnswersKey
    <3>3. /\ \A u \in Txs \ {t} : respQ'[u] = respQ[u]
          /\ \A d \in Callers : got'[d] = got[d]
      BY <2>9, <3>0, <3>1 DEF PushResponse, callerVars, IInv, TypeOK
    <3> QED
      BY <2>4, <2>5, <2>6, <3>2, <3>3 DEF RoutedByCallID
  <2> QED
    BY <2>7, <2>8, <2>9, WhoChangesMail
<1> QED
  BY Inductive, <1>1, <1>2, PTL DEF Safety

\* A caller whose Call-ID no other caller has gets the answer to its own
\* request, whatever the network delivers and whoever else uses the table.
THEOREM OwnAnswer == Safety => []OwnResponse
<1>1. IInv /\ RoutedByCallID => OwnResponse
  <2> SUFFICES ASSUME IInv, RoutedByCallID, NEW c \in Callers,
                      cpc[c] = "returned",
                      \A d \in Callers \ {c} : ckey[d] # ckey[c]
               PROVE  Last(got[c]).of = c
    BY DEF OwnResponse
  <2>1. got[c] \in Seq(Packet) /\ got[c] # <<>>
    BY DEF IInv, TypeOK, CallerInv
  <2>2. Len(got[c]) \in 1..Len(got[c])
    BY <2>1, LenProperties, EmptySeq
  <2>3. AnswersKey(Last(got[c]), ckey[c])
    BY <2>2 DEF RoutedByCallID, Last
  <2> QED
    BY <2>3 DEF AnswersKey
<1> QED
  BY Inductive, RoutedByKey, <1>1, PTL

-----------------------------------------------------------------------------
(* A closed transaction gets no response any more *)

\* Who stopped waiting with nil does not go on, and no channel is reopened.
LEMMA NilAndClosedStay ==
    ASSUME IInv, [Next]_vars
    PROVE  /\ \A c \in Callers :
                 cpc'[c] = "nil" =>
                    \/ cpc[c] = "nil" /\ ctx'[c] = ctx[c]
                    \/ TakeNil(c)
           /\ \A t \in Txs : closed[t] \subseteq closed'[t]
<1>1. ASSUME NEW c \in Callers, CallerStarts(c) \/ CallerStep(c)
      PROVE  /\ closed' = closed
             /\ \A d \in Callers : cpc'[d] = "nil" =>
                   \/ cpc[d] = "nil" /\ ctx'[d] = ctx[d]
                   \/ TakeNil(d)
  <2>1. CASE CallerStarts(c)
    BY <2>1 DEF CallerStarts, Lookup, txVars, IInv, TypeOK
  <2>2. CASE \E t \in Txs : Create(c, t)
    BY <2>2 DEF Create, NewTX, IInv, TypeOK
  <2>3. CASE \E outcome \in {"recv", "failed"} : Write(c, outcome)
    BY <2>3 DEF Write, txVars, IInv, TypeOK
  <2>4. CASE TakeResponse(c)
    BY <2>4 DEF TakeResponse, IInv, TypeOK
  <2>5. CASE TakeNil(c)
    <3>1. \A d \in Callers \ {c} : cpc'[d] = cpc[d]
      BY <2>5 DEF TakeNil, IInv, TypeOK
    <3> QED
      BY <2>5, <3>1 DEF TakeNil, txVars
  <2>6. CASE Signal(c)
    <3>1. PICK s \in {"recv", "returned"} : cpc' = [cpc EXCEPT ![c] = s]
      BY <2>6 DEF Signal
    <3> QED
      BY <2>6, <3>1 DEF Signal, SendActive, IInv, TypeOK
  <2>7. CASE SignalPanics(c)
    BY <2>7 DEF SignalPanics, txVars, callerVars
  <2> QED
    BY <1>1, <2>1, <2>2, <2>3, <2>4, <2>5, <2>6, <2>7
       DEF CallerStep, CallerGoes
<1>2. ASSUME NEW l \in Listeners, PacketArrives(l) \/ ListenerStep(l)
      PROVE  UNCHANGED <<cpc, ctx, closed>>
  BY <1>2 DEF PacketArrives, ListenerStep, RequestArrives, ResponseArrives,
     ListenerCreates, NewTX, PushResponse, PushActive, SendActive, Recovered,
     txVars, callerVars
<1>3. ASSUME NEW t \in Txs, WatchStep(t)
      PROVE  /\ UNCHANGED <<cpc, ctx>>
             /\ \A u \in Txs : closed[u] \subseteq closed'[u]
  BY <1>3 DEF WatchStep, WatchActive, WatchTimeout, RmTX, CloseResp,
     CloseActive, callerVars, IInv, TypeOK
<1>4. CASE Rest \/ UNCHANGED vars
  BY <1>4 DEF Rest, vars
<1> QED
  BY <1>1, <1>2, <1>3, <1>4 DEF Next

\* GetResponse returns nil only when resp is closed and drained, and from then
\* on nothing can reach it: the watch goroutine, not the caller, decides.
THEOREM NilMeansDrained == Safety => []NilOnlyWhenDrained
<1>1. Init => NilOnlyWhenDrained
  BY DEF Init, NilOnlyWhenDrained
<1>2. IInv /\ NilOnlyWhenDrained /\ [Next]_vars => NilOnlyWhenDrained'
  <2> SUFFICES ASSUME IInv, NilOnlyWhenDrained, [Next]_vars,
                      NEW c \in Callers, cpc'[c] = "nil"
               PROVE  /\ respQ'[ctx'[c]] = <<>>
                      /\ "resp" \in closed'[ctx'[c]]
    BY DEF NilOnlyWhenDrained
  <2>1. CASE TakeNil(c)
    BY <2>1 DEF TakeNil, txVars
  <2>2. CASE cpc[c] = "nil" /\ ctx'[c] = ctx[c]
    <3>1. PICK t \in Txs : t = ctx[c] /\ ctx'[c] = t
      BY <2>2 DEF IInv, CallerInv
    <3>2. respQ[t] = <<>> /\ "resp" \in closed[t]
      BY <2>2, <3>1 DEF NilOnlyWhenDrained
    <3>3. "resp" \in closed'[t]
      BY <3>2, NilAndClosedStay
    <3>4. respQ'[t] = <<>>
      <4>1. CASE UNCHANGED <<respQ, got>>
        BY <3>2, <4>1
      <4>2. ASSUME NEW d \in Callers, TakeResponse(d)
            PROVE  respQ'[t] = respQ[t]
        BY <3>2, <4>2 DEF TakeResponse, IInv, TypeOK
      <4>3. ASSUME NEW l \in Listeners, PushResponse(l)
            PROVE  respQ'[t] = respQ[t]
        BY <3>2, <4>3 DEF PushResponse, IInv, TypeOK
      <4> QED
        BY <3>2, <4>1, <4>2, <4>3, WhoChangesMail
    <3> QED
      BY <3>1, <3>3, <3>4
  <2> QED
    BY <2>1, <2>2, NilAndClosedStay
<1> QED
  BY Inductive, <1>1, <1>2, PTL DEF Safety

-----------------------------------------------------------------------------
(* Where packets are *)

Holds(l) == lpc[l] = "resp"

\* The packets that are held have arrived.
Numbered ==
    /\ \A l \in Listeners : Holds(l) => lmsg[l].id <= arrived
    /\ \A t \in Txs : \A i \in 1..Len(respQ[t]) : respQ[t][i].id <= arrived
    /\ \A c \in Callers : \A i \in 1..Len(got[c]) : got[c][i].id <= arrived

\* No packet is in two places: hand and hand, hand and buffer, hand and caller,
\* buffer and buffer, caller and caller, buffer and caller.
HandHand ==
    \A l, m \in Listeners : Holds(l) /\ Holds(m) /\ lmsg[l].id = lmsg[m].id => l = m
HandBuffer ==
    \A l \in Listeners, t \in Txs : Holds(l) =>
        \A i \in 1..Len(respQ[t]) : lmsg[l].id # respQ[t][i].id
HandCaller ==
    \A l \in Listeners, c \in Callers : Holds(l) =>
        \A i \in 1..Len(got[c]) : lmsg[l].id # got[c][i].id
BufferBuffer ==
    \A t, u \in Txs : \A i \in 1..Len(respQ[t]), j \in 1..Len(respQ[u]) :
        respQ[t][i].id = respQ[u][j].id => t = u /\ i = j
CallerCaller ==
    \A c, d \in Callers : \A i \in 1..Len(got[c]), j \in 1..Len(got[d]) :
        got[c][i].id = got[d][j].id => c = d /\ i = j
BufferCaller ==
    \A t \in Txs, c \in Callers : \A i \in 1..Len(respQ[t]), j \in 1..Len(got[c]) :
        respQ[t][i].id # got[c][j].id

OnePlace ==
    /\ Numbered
    /\ HandHand /\ HandBuffer /\ HandCaller
    /\ BufferBuffer /\ CallerCaller /\ BufferCaller

\* The steps that move packets; the others only let listeners drop them.
LEMMA WhoMovesPackets ==
    ASSUME IInv, [Next]_vars
    PROVE  \/ \E c \in Callers : TakeResponse(c)
           \/ \E l \in Listeners : PushResponse(l)
           \/ \E l \in Listeners, c \in Callers, kind \in {"trying", "final"} :
                 ResponseArrives(l, c, kind)
           \/ /\ UNCHANGED <<respQ, got>>
              /\ arrived' \in Nat /\ arrived <= arrived'
              /\ \A l \in Listeners : Holds(l)' => Holds(l) /\ lmsg'[l] = lmsg[l]
<1>0. arrived \in Nat
  BY TransactionAssumption DEF TransactionAssumption, IInv, TypeOK
<1>1. ASSUME NEW c \in Callers, CallerStarts(c) \/ CallerStep(c)
      PROVE  UNCHANGED <<respQ, got, lpc, lmsg, arrived>> \/ TakeResponse(c)
  BY <1>1 DEF CallerStarts, CallerStep, CallerGoes, Lookup, Create, NewTX, Write, TakeNil,
     Signal, SendActive, SignalPanics, txVars, callerVars, listenerVars
<1>2. ASSUME NEW l \in Listeners, NEW k \in Keys, RequestArrives(l, k)
      PROVE  /\ UNCHANGED <<respQ, got>> /\ arrived' = arrived + 1
             /\ \A m \in Listeners : Holds(m)' => Holds(m) /\ lmsg'[m] = lmsg[m]
  <2>1. CASE table[k] = None
    BY <1>2, <2>1 DEF RequestArrives, txVars, callerVars, Holds, IInv, TypeOK
  <2>2. CASE table[k] # None
    BY <1>2, <2>2 DEF RequestArrives, txVars, callerVars, Holds
  <2> QED
    BY <2>1, <2>2
<1>3. ASSUME NEW l \in Listeners, ListenerStep(l)
      PROVE  \/ PushResponse(l)
             \/ /\ UNCHANGED <<respQ, got, arrived>>
                /\ \A m \in Listeners : Holds(m)' => Holds(m) /\ lmsg'[m] = lmsg[m]
  BY <1>3 DEF ListenerStep, ListenerCreates, NewTX, PushActive, SendActive, Recovered,
     ListenerDone, txVars, callerVars, Holds, IInv, TypeOK
<1>4. ASSUME NEW t \in Txs, WatchStep(t)
      PROVE  UNCHANGED <<respQ, got, lpc, lmsg, arrived>>
  BY <1>4 DEF WatchStep, WatchActive, WatchTimeout, RmTX, CloseResp, CloseActive, callerVars,
     listenerVars
<1>5. Rest \/ UNCHANGED vars => UNCHANGED <<respQ, got, lpc, lmsg, arrived>>
  BY DEF Rest, vars
<1>6. UNCHANGED <<respQ, got, lpc, lmsg, arrived>> =>
        /\ UNCHANGED <<respQ, got>>
        /\ arrived' \in Nat /\ arrived <= arrived'
        /\ \A l \in Listeners : Holds(l)' => Holds(l) /\ lmsg'[l] = lmsg[l]
  BY <1>0 DEF Holds
<1> QED
  BY <1>0, <1>1, <1>2, <1>3, <1>4, <1>5, <1>6 DEF Next, PacketArrives

-----------------------------------------------------------------------------
(* The three steps that move one *)

LEMMA TakeOnePlace ==
    ASSUME IInv, OnePlace, NEW c \in Callers, TakeResponse(c)
    PROVE  OnePlace'
<1>0. PICK t \in Txs : t = ctx[c]
  BY DEF TakeResponse, IInv, CallerInv
<1>1. respQ[t] \in Seq(Packet) /\ respQ[t] # <<>> /\ got[c] \in Seq(Packet)
  BY <1>0 DEF TakeResponse, IInv, TypeOK
<1> DEFINE head == Head(respQ[t])
<1>2. /\ head = respQ[t][1] /\ Len(respQ[t]) \in Nat \ {0}
      /\ respQ'[t] = Tail(respQ[t]) /\ Len(respQ'[t]) = Len(respQ[t]) - 1
      /\ \A i \in 1..Len(respQ'[t]) : respQ'[t][i] = respQ[t][i + 1] /\ i + 1 \in 1..Len(respQ[t])
      /\ \A u \in Txs \ {t} : respQ'[u] = respQ[u]
  BY <1>0, <1>1, EmptySeq, HeadTailProperties DEF TakeResponse, IInv, TypeOK
<1>3. /\ Len(got[c]) \in Nat /\ Len(got'[c]) = Len(got[c]) + 1
      /\ \A i \in 1..Len(got[c]) : got'[c][i] = got[c][i]
      /\ got'[c][Len(got[c]) + 1] = head
      /\ \A d \in Callers \ {c} : got'[d] = got[d]
  BY <1>0, <1>1, HeadTailProperties, AppendProperties DEF TakeResponse, IInv, TypeOK
<1>4. /\ UNCHANGED arrived
      /\ \A l \in Listeners : (Holds(l)' <=> Holds(l)) /\ lmsg'[l] = lmsg[l]
  BY DEF TakeResponse, listenerVars, Holds
\* What is in a buffer or with a caller now, and where it was.
<1>5. \A u \in Txs : \A i \in 1..Len(respQ'[u]) :
        LET j == IF u = t THEN i + 1 ELSE i
        IN j \in 1..Len(respQ[u]) /\ respQ'[u][i] = respQ[u][j]
  BY <1>2
<1>6. \A d \in Callers : \A i \in 1..Len(got'[d]) :
        \/ i \in 1..Len(got[d]) /\ got'[d][i] = got[d][i]
        \/ d = c /\ i = Len(got[c]) + 1 /\ got'[d][i] = respQ[t][1]
  BY <1>2, <1>3
<1>7. 1 \in 1..Len(respQ[t]) /\ \A i \in 1..Len(respQ'[t]) : i + 1 # 1
  BY <1>2
<1>8. Numbered'
  <2>1. \A u \in Txs : \A i \in 1..Len(respQ'[u]) : respQ'[u][i].id <= arrived
    <3> SUFFICES ASSUME NEW u \in Txs, NEW i \in 1..Len(respQ'[u])
                 PROVE  respQ'[u][i].id <= arrived
      OBVIOUS
    <3>1. PICK j \in 1..Len(respQ[u]) : respQ'[u][i] = respQ[u][j]
      BY <1>5
    <3> QED
      BY <3>1 DEF OnePlace, Numbered
  <2>2. \A d \in Callers : \A i \in 1..Len(got'[d]) : got'[d][i].id <= arrived
    <3> SUFFICES ASSUME NEW d \in Callers, NEW i \in 1..Len(got'[d])
                 PROVE  got'[d][i].id <= arrived
      OBVIOUS
    <3>1. CASE i \in 1..Len(got[d]) /\ got'[d][i] = got[d][i]
      BY <3>1 DEF OnePlace, Numbered
    <3>2. CASE got'[d][i] = respQ[t][1]
      BY <1>7, <3>2 DEF OnePlace, Numbered
    <3> QED
      BY <1>6, <3>1, <3>2
  <2>3. \A l \in Listeners : Holds(l)' => lmsg'[l].id <= arrived
    BY <1>4 DEF OnePlace, Numbered
  <2> QED
    BY <1>4, <2>1, <2>2, <2>3 DEF Numbered
<1>9. HandHand'
  BY <1>4 DEF OnePlace, HandHand
<1>10. HandBuffer'
  <2> SUFFICES ASSUME NEW l \in Listeners, Holds(l)', NEW u \in Txs,
                      NEW i \in 1..Len(respQ'[u])
               PROVE  lmsg'[l].id # respQ'[u][i].id
    BY DEF HandBuffer
  <2>1. PICK j \in 1..Len(respQ[u]) : respQ'[u][i] = respQ[u][j]
    BY <1>5
  <2>2. Holds(l) /\ lmsg'[l] = lmsg[l]
    BY <1>4
  <2> QED
    BY <2>1, <2>2 DEF OnePlace, HandBuffer
<1>11. HandCaller'
  <2> SUFFICES ASSUME NEW l \in Listeners, Holds(l)', NEW d \in Callers,
                      NEW i \in 1..Len(got'[d])
               PROVE  lmsg'[l].id # got'[d][i].id
    BY DEF HandCaller
  <2>1. Holds(l) /\ lmsg'[l] = lmsg[l]
    BY <1>4
  <2>2. CASE i \in 1..Len(got[d]) /\ got'[d][i] = got[d][i]
    BY <2>1, <2>2 DEF OnePlace, HandCaller
  <2>3. CASE got'[d][i] = respQ[t][1]
    BY <1>7, <2>1, <2>3 DEF OnePlace, HandBuffer
  <2> QED
    BY <1>6, <2>2, <2>3
<1>12. BufferBuffer'
  <2> SUFFICES ASSUME NEW u \in Txs, NEW v \in Txs,
                      NEW i \in 1..Len(respQ'[u]), NEW j \in 1..Len(respQ'[v]),
                      respQ'[u][i].id = respQ'[v][j].id
               PROVE  u = v /\ i = j
    BY DEF BufferBuffer
  <2> DEFINE before(w, n) == IF w = t THEN n + 1 ELSE n
  <2>1. /\ before(u, i) \in 1..Len(respQ[u]) /\ respQ'[u][i] = respQ[u][before(u, i)]
        /\ before(v, j) \in 1..Len(respQ[v]) /\ respQ'[v][j] = respQ[v][before(v, j)]
    BY <1>5
  <2>2. u = v /\ before(u, i) = before(v, j)
    BY <2>1 DEF OnePlace, BufferBuffer
  <2>3. i \in Int /\ j \in Int
    OBVIOUS
  <2> QED
    BY <2>2, <2>3
<1>13. CallerCaller'
  <2> SUFFICES ASSUME NEW d \in Callers, NEW e \in Callers,
                      NEW i \in 1..Len(got'[d]), NEW j \in 1..Len(got'[e]),
                      got'[d][i].id = got'[e][j].id
               PROVE  d = e /\ i = j
    BY DEF CallerCaller
  <2>1. \/ i \in 1..Len(got[d]) /\ got'[d][i] = got[d][i]
        \/ d = c /\ i = Len(got[c]) + 1 /\ got'[d][i] = respQ[t][1]
    BY <1>6
  <2>2. \/ j \in 1..Len(got[e]) /\ got'[e][j] = got[e][j]
        \/ e = c /\ j = Len(got[c]) + 1 /\ got'[e][j] = respQ[t][1]
    BY <1>6
  <2>3. CASE /\ i \in 1..Len(got[d]) /\ got'[d][i] = got[d][i]
             /\ j \in 1..Len(got[e]) /\ got'[e][j] = got[e][j]
    BY <2>3 DEF OnePlace, CallerCaller
  <2>4. CASE got'[d][i] = got[d][i] /\ i \in 1..Len(got[d]) /\ got'[e][j] = respQ[t][1]
    BY <1>7, <2>4 DEF OnePlace, BufferCaller
  <2>5. CASE got'[e][j] = got[e][j] /\ j \in 1..Len(got[e]) /\ got'[d][i] = respQ[t][1]
    BY <1>7, <2>5 DEF OnePlace, BufferCaller
  <2> QED
    BY <2>1, <2>2, <2>3, <2>4, <2>5
<1>14. BufferCaller'
  <2> SUFFICES ASSUME NEW u \in Txs, NEW d \in Callers,
                      NEW i \in 1..Len(respQ'[u]), NEW j \in 1..Len(got'[d]),
                      respQ'[u][i].id = got'[d][j].id
               PROVE  FALSE
    BY DEF BufferCaller
  <2>1. PICK k \in 1..Len(respQ[u]) : respQ'[u][i] = respQ[u][k] /\ (u = t => k # 1)
    BY <1>5, <1>7
  <2>2. CASE j \in 1..Len(got[d]) /\ got'[d][j] = got[d][j]
    BY <2>1, <2>2 DEF OnePlace, BufferCaller
  <2>3. CASE got'[d][j] = respQ[t][1]
    BY <1>7, <2>1, <2>3 DEF OnePlace, BufferBuffer
  <2> QED
    BY <1>6, <2>2, <2>3
<1> QED
  BY <1>8, <1>9, <1>10, <1>11, <1>12, <1>13, <1>14 DEF OnePlace

LEMMA PushOnePlace ==
    ASSUME IInv, OnePlace, NEW l \in Listeners, PushResponse(l)
    PROVE  OnePlace'
<1>0. PICK t \in Txs : t = ltx[l]
  BY DEF PushResponse, IInv, ListenerInv
<1>1. respQ[t] \in Seq(Packet) /\ lmsg[l] \in Packet
  BY <1>0 DEF PushResponse, IInv, TypeOK, ListenerInv
<1>2. /\ Len(respQ[t]) \in Nat /\ Len(respQ'[t]) = Len(respQ[t]) + 1
      /\ \A i \in 1..Len(respQ[t]) : respQ'[t][i] = respQ[t][i]
      /\ respQ'[t][Len(respQ[t]) + 1] = lmsg[l]
      /\ \A u \in Txs \ {t} : respQ'[u] = respQ[u]
  BY <1>0, <1>1, AppendProperties DEF PushResponse, IInv, TypeOK
<1>3. /\ UNCHANGED <<got, arrived>> /\ Holds(l)
      /\ \A m \in Listeners : Holds(m)' => m # l /\ Holds(m) /\ lmsg'[m] = lmsg[m]
  BY DEF PushResponse, callerVars, Holds, IInv, TypeOK
<1>4. \A u \in Txs : \A i \in 1..Len(respQ'[u]) :
        \/ i \in 1..Len(respQ[u]) /\ respQ'[u][i] = respQ[u][i]
        \/ u = t /\ i = Len(respQ[t]) + 1 /\ respQ'[u][i] = lmsg[l]
  BY <1>2
<1>5. Numbered'
  <2>1. \A u \in Txs : \A i \in 1..Len(respQ'[u]) : respQ'[u][i].id <= arrived
    BY <1>3, <1>4 DEF OnePlace, Numbered
  <2> QED
    BY <1>3, <2>1 DEF OnePlace, Numbered
<1>6. HandHand'
  BY <1>3 DEF OnePlace, HandHand
<1>7. HandBuffer'
  <2> SUFFICES ASSUME NEW m \in Listeners, Holds(m)', NEW u \in Txs,
                      NEW i \in 1..Len(respQ'[u])
               PROVE  lmsg'[m].id # respQ'[u][i].id
    BY DEF HandBuffer
  <2>1. m # l /\ Holds(m) /\ lmsg'[m] = lmsg[m]
    BY <1>3
  <2>2. CASE i \in 1..Len(respQ[u]) /\ respQ'[u][i] = respQ[u][i]
    BY <2>1, <2>2 DEF OnePlace, HandBuffer
  <2>3. CASE respQ'[u][i] = lmsg[l]
    BY <1>3, <2>1, <2>3 DEF OnePlace, HandHand
  <2> QED
    BY <1>4, <2>2, <2>3
<1>8. HandCaller'
  BY <1>3 DEF OnePlace, HandCaller
<1>9. BufferBuffer'
  <2> SUFFICES ASSUME NEW u \in Txs, NEW v \in Txs,
                      NEW i \in 1..Len(respQ'[u]), NEW j \in 1..Len(respQ'[v]),
                      respQ'[u][i].id = respQ'[v][j].id
               PROVE  u = v /\ i = j
    BY DEF BufferBuffer
  <2>1. \/ i \in 1..Len(respQ[u]) /\ respQ'[u][i] = respQ[u][i]
        \/ u = t /\ i = Len(respQ[t]) + 1 /\ respQ'[u][i] = lmsg[l]
    BY <1>4
  <2>2. \/ j \in 1..Len(respQ[v]) /\ respQ'[v][j] = respQ[v][j]
        \/ v = t /\ j = Len(respQ[t]) + 1 /\ respQ'[v][j] = lmsg[l]
    BY <1>4
  <2>3. CASE /\ i \in 1..Len(respQ[u]) /\ respQ'[u][i] = respQ[u][i]
             /\ j \in 1..Len(respQ[v]) /\ respQ'[v][j] = respQ[v][j]
    BY <2>3 DEF OnePlace, BufferBuffer
  <2>4. CASE i \in 1..Len(respQ[u]) /\ respQ'[u][i] = respQ[u][i] /\ respQ'[v][j] = lmsg[l]
    BY <1>3, <2>4 DEF OnePlace, HandBuffer
  <2>5. CASE j \in 1..Len(respQ[v]) /\ respQ'[v][j] = respQ[v][j] /\ respQ'[u][i] = lmsg[l]
    BY <1>3, <2>5 DEF OnePlace, HandBuffer
  <2> QED
    BY <2>1, <2>2, <2>3, <2>4, <2>5
<1>10. CallerCaller'
  BY <1>3 DEF OnePlace, CallerCaller
<1>11. BufferCaller'
  <2> SUFFICES ASSUME NEW u \in Txs, NEW d \in Callers,
                      NEW i \in 1..Len(respQ'[u]), NEW j \in 1..Len(got[d])
               PROVE  respQ'[u][i].id # got[d][j].id
    BY <1>3 DEF BufferCaller
  <2>1. CASE i \in 1..Len(respQ[u]) /\ respQ'[u][i] = respQ[u][i]
    BY <2>1 DEF OnePlace, BufferCaller
  <2>2. CASE respQ'[u][i] = lmsg[l]
    BY <1>3, <2>2 DEF OnePlace, HandCaller
  <2> QED
    BY <1>4, <2>1, <2>2
<1> QED
  BY <1>5, <1>6, <1>7, <1>8, <1>9, <1>10, <1>11 DEF OnePlace

LEMMA ArrivalOnePlace ==
    ASSUME IInv, IInv', OnePlace, NEW l \in Listeners, NEW c \in Callers,
           NEW kind \in {"trying", "final"}, ResponseArrives(l, c, kind)
    PROVE  OnePlace'
<1>1. UNCHANGED <<respQ, got>> /\ arrived \in Nat /\ arrived' = arrived + 1
  BY TransactionAssumption
     DEF TransactionAssumption, ResponseArrives, txVars, callerVars, IInv, TypeOK
<1>2. \A m \in Listeners : Holds(m)' =>
        \/ Holds(m) /\ lmsg'[m] = lmsg[m]
        \/ m = l /\ lmsg'[m].id = arrived + 1
  <2>1. CASE table[ckey[c]] # None
    BY <2>1 DEF ResponseArrives, NextPacket, Holds, IInv, TypeOK
  <2>2. CASE table[ckey[c]] = None
    BY <2>2 DEF ResponseArrives, listenerVars, Holds
  <2> QED
    BY <2>1, <2>2
<1>3. \A m \in Listeners : Holds(m) => lmsg[m].id \in Nat /\ lmsg[m].id <= arrived
  BY DEF Holds, IInv, ListenerInv, Packet, OnePlace, Numbered
<1>4. /\ \A t \in Txs : \A i \in 1..Len(respQ[t]) :
            respQ[t][i].id \in Nat /\ respQ[t][i].id <= arrived
      /\ \A d \in Callers : \A i \in 1..Len(got[d]) :
            got[d][i].id \in Nat /\ got[d][i].id <= arrived
  <2>1. /\ \A t \in Txs : \A i \in 1..Len(respQ[t]) : respQ[t][i] \in Packet
        /\ \A d \in Callers : \A i \in 1..Len(got[d]) : got[d][i] \in Packet
    BY ElementOfSeq DEF IInv, TypeOK
  <2> QED
    BY <2>1 DEF Packet, OnePlace, Numbered
<1>5. Numbered'
  BY <1>1, <1>2, <1>3, <1>4 DEF Numbered
<1>6. HandHand'
  BY <1>1, <1>2, <1>3 DEF OnePlace, HandHand
<1>7. HandBuffer'
  BY <1>1, <1>2, <1>4 DEF OnePlace, HandBuffer
<1>8. HandCaller'
  BY <1>1, <1>2, <1>4 DEF OnePlace, HandCaller
<1>9. BufferBuffer'
  BY <1>1 DEF OnePlace, BufferBuffer
<1>10. CallerCaller'
  BY <1>1 DEF OnePlace, CallerCaller
<1>11. BufferCaller'
  BY <1>1 DEF OnePlace, BufferCaller
<1> QED
  BY <1>5, <1>6, <1>7, <1>8, <1>9, <1>10, <1>11 DEF OnePlace

LEMMA NextOnePlace ==
    ASSUME IInv, IInv', OnePlace, [Next]_vars
    PROVE  OnePlace'
<1>1. ASSUME UNCHANGED <<respQ, got>>, arrived' \in Nat, arrived <= arrived',
             \A l \in Listeners : Holds(l)' => Holds(l) /\ lmsg'[l] = lmsg[l]
      PROVE  OnePlace'
  <2>1. Numbered'
    <3>1. /\ \A t \in Txs : \A i \in 1..Len(respQ[t]) : respQ[t][i] \in Packet
          /\ \A d \in Callers : \A i \in 1..Len(got[d]) : got[d][i] \in Packet
      BY ElementOfSeq DEF IInv, TypeOK
    <3>2. \A l \in Listeners : Holds(l) => lmsg[l] \in Packet
      BY DEF Holds, IInv, ListenerInv
    <3>3. \A p \in Packet : p.id \in Nat
      BY DEF Packet
    <3>4. arrived \in Nat
      BY DEF IInv, TypeOK
    <3> QED
      BY <1>1, <3>1, <3>2, <3>3, <3>4 DEF OnePlace, Numbered
  <2>2. HandHand' /\ HandBuffer' /\ HandCaller'
    BY <1>1 DEF OnePlace, HandHand, HandBuffer, HandCaller
  <2>3. BufferBuffer'
    BY <1>1 DEF OnePlace, BufferBuffer
  <2>4. CallerCaller'
    BY <1>1 DEF OnePlace, CallerCaller
  <2>5. BufferCaller'
    BY <1>1 DEF OnePlace, BufferCaller
  <2> QED
    BY <2>1, <2>2, <2>3, <2>4, <2>5 DEF OnePlace
<1> QED
  BY <1>1, WhoMovesPackets, TakeOnePlace, PushOnePlace, ArrivalOnePlace

LEMMA PacketsInOnePlace == Safety => []OnePlace
<1>1. Init => OnePlace
  BY DEF Init, OnePlace, Numbered, HandHand, HandBuffer, HandCaller, BufferBuffer,
     CallerCaller, BufferCaller, Holds
<1> QED
  BY <1>1, Inductive, NextOnePlace, PTL DEF Safety

\* No response is handed to two callers or twice to one, and none is taken while
\* a listener still holds it, however often the network repeats packets.
THEOREM DeliversOnce == Safety => []DeliveredOnce
<1>1. OnePlace => DeliveredOnce
  <2> SUFFICES ASSUME OnePlace, NEW n \in 1..arrived
               PROVE  Cardinality(Places(n)) <= 1
    BY DEF DeliveredOnce
  <2> DEFINE Hand(p) == \E l \in Listeners : p = <<"listener", l>> /\ Holds(l) /\ lmsg[l].id = n
             Buffer(p) == \E t \in Txs : \E i \in 1..Len(respQ[t]) :
                            p = <<"resp", t, i>> /\ respQ[t][i].id = n
             Caller(p) == \E c \in Callers : \E i \in 1..Len(got[c]) :
                            p = <<"caller", c, i>> /\ got[c][i].id = n
  <2>0. ASSUME NEW p \in Places(n)
        PROVE  Hand(p) \/ Buffer(p) \/ Caller(p)
    <3> DEFINE InBuffer(t) == {<<"resp", t, i>> : i \in {j \in 1..Len(respQ[t]) :
                                                           respQ[t][j].id = n}}
               WithCaller(c) == {<<"caller", c, i>> : i \in {j \in 1..Len(got[c]) :
                                                               got[c][j].id = n}}
    <3> HIDE DEF InBuffer, WithCaller
    <3>4. \/ p \in {<<"listener", l>> : l \in {m \in Listeners :
                                                 lpc[m] = "resp" /\ lmsg[m].id = n}}
          \/ \E t \in Txs : p \in InBuffer(t)
          \/ \E c \in Callers : p \in WithCaller(c)
      BY <2>0 DEF Places, InBuffer, WithCaller
    <3> USE DEF InBuffer, WithCaller
    <3>2. ASSUME NEW t \in Txs, p \in InBuffer(t) PROVE Buffer(p)
      BY <3>2
    <3>3. ASSUME NEW c \in Callers, p \in WithCaller(c) PROVE Caller(p)
      BY <3>3
    <3> QED
      BY <3>4, <3>2, <3>3 DEF Holds
  <2>1. ASSUME NEW p \in Places(n), NEW q \in Places(n)
        PROVE  p = q
    <3>1. Hand(p) /\ Hand(q) => p = q
      BY DEF OnePlace, HandHand
    <3>2. ~(Hand(p) /\ Buffer(q)) /\ ~(Hand(q) /\ Buffer(p))
      BY DEF OnePlace, HandBuffer
    <3>3. ~(Hand(p) /\ Caller(q)) /\ ~(Hand(q) /\ Caller(p))
      BY DEF OnePlace, HandCaller
    <3>4. Buffer(p) /\ Buffer(q) => p = q
      BY DEF OnePlace, BufferBuffer
    <3>5. Caller(p) /\ Caller(q) => p = q
      BY DEF OnePlace, CallerCaller
    <3>6. ~(Buffer(p) /\ Caller(q)) /\ ~(Buffer(q) /\ Caller(p))
      BY DEF OnePlace, BufferCaller
    <3> QED
      BY <2>0, <3>1, <3>2, <3>3, <3>4, <3>5, <3>6
  <2>2. CASE Places(n) = {}
    BY <2>2, FS_EmptySet
  <2>3. ASSUME NEW p \in Places(n)
        PROVE  Cardinality(Places(n)) = 1
    <3>1. Places(n) = {p}
      BY <2>1, <2>3
    <3> QED
      BY <3>1, FS_Singleton
  <2> QED
    BY <2>2, <2>3
<1> QED
  BY <1>1, PacketsInOnePlace, PTL
-----------------------------------------------------------------------------
(* A transaction implements its mailbox *)

Stages == [t \in Txs |-> MailStage(t)]
Verdicts == [c \in Callers |-> Verdict(c)]

\* A caller reads on only while it has had nothing but 100 and 101.
ReadsOn == \A c \in Callers : cpc[c] = "recv" =>
                got[c] = <<>> \/ Last(got[c]).kind = "trying"

MailInv == IInv /\ OnePlace /\ ReadsOn

LEMMA ReadsOnAlways == Safety => []ReadsOn
<1>1. Init => ReadsOn
  BY DEF Init, ReadsOn
<1>2. ASSUME IInv, ReadsOn, [Next]_vars
      PROVE  ReadsOn'
  <2>1. ASSUME NEW c \in Callers, CallerStarts(c) \/ CallerStep(c)
        PROVE  ReadsOn'
    BY <1>2, <2>1 DEF CallerStarts, CallerStep, CallerGoes, Lookup, Create, Write,
       TakeResponse, TakeNil, Signal, SignalPanics, callerVars, ReadsOn, IInv, TypeOK,
       CallerInv
  <2>2. UNCHANGED callerVars => ReadsOn'
    BY <1>2 DEF callerVars, ReadsOn
  <2>3. ASSUME NEW l \in Listeners, PacketArrives(l) \/ ListenerStep(l)
        PROVE  UNCHANGED callerVars
    BY <2>3 DEF PacketArrives, ListenerStep, RequestArrives, ResponseArrives,
       ListenerCreates, PushResponse, PushActive, Recovered
  <2>4. ASSUME NEW t \in Txs, WatchStep(t)
        PROVE  UNCHANGED callerVars
    BY <2>4 DEF WatchStep
  <2>5. Rest \/ UNCHANGED vars => UNCHANGED callerVars
    BY DEF Rest, vars, callerVars
  <2> QED
    BY <1>2, <2>1, <2>2, <2>3, <2>4, <2>5 DEF Next
<1> QED
  BY <1>1, <1>2, Inductive, PTL DEF Safety

\* The five variables of the mailbox.
LEMMA MailStutters ==
    ASSUME UNCHANGED <<Stages, respQ, ctx, got, Verdicts>>
    PROVE  UNCHANGED Mail!mailVars
  BY DEF Mail!mailVars, Stages, Verdicts

LEMMA LookupJoins ==
    ASSUME MailInv, NEW c \in Callers, NEW k \in Keys, Lookup(c, k)
    PROVE  UNCHANGED Mail!mailVars \/ \E t \in Txs : Mail!Join(c, t)
<1>1. UNCHANGED <<Stages, respQ, got, Verdicts>>
  BY DEF MailInv, IInv, TypeOK, Lookup, txVars, Stages, MailStage, Verdicts, Verdict
<1>2. ctx \in [Callers -> Txs \cup {None}] /\ ctx[c] = None
      /\ ctx' = [ctx EXCEPT ![c] = table[k]]
  BY DEF MailInv, IInv, TypeOK, CallerInv, Lookup
<1>3. CASE table[k] = None
  BY <1>1, <1>2, <1>3, MailStutters
<1>4. CASE table[k] # None
  <2>1. table[k] \in Txs /\ Stages[table[k]] = "open"
    <3>1. table[k] \in Txs
      BY <1>4 DEF MailInv, IInv, TypeOK
    <3>2. closed[table[k]] = {} /\ watch[table[k]] # "unborn"
      BY <1>4 DEF MailInv, IInv, TableOpen
    <3> QED
      BY <3>1, <3>2 DEF Stages, MailStage
  <2>2. Mail!Join(c, table[k])
    BY <1>1, <1>2, <2>1 DEF Mail!Join, Mail!Joins, Stages, Verdicts
  <2> QED
    BY <2>1, <2>2
<1> QED
  BY <1>3, <1>4

LEMMA CreateOpensAndJoins ==
    ASSUME MailInv, NEW c \in Callers, NEW t \in Txs, Create(c, t)
    PROVE  Mail!OpenAndJoin(c, t)
<1>1. Stages[t] = "unborn" /\ Stages' = [Stages EXCEPT ![t] = "open"]
  BY DEF MailInv, IInv, TypeOK, WatchInv, Create, NewTX, Stages, MailStage
<1>2. ctx[c] = None /\ ctx' = [ctx EXCEPT ![c] = t]
  BY DEF MailInv, IInv, CallerInv, Create
<1>3. UNCHANGED <<respQ, got, Verdicts>>
  BY DEF MailInv, IInv, TypeOK, Create, NewTX, Verdicts, Verdict
<1> QED
  BY <1>1, <1>2, <1>3 DEF Mail!OpenAndJoin, Mail!Opens, Mail!Joins, Stages, Verdicts

LEMMA TakeTakes ==
    ASSUME MailInv, NEW c \in Callers, TakeResponse(c)
    PROVE  Mail!Take(c, ctx[c])
<1>1. UNCHANGED <<Stages, ctx, Verdicts>>
  BY DEF MailInv, IInv, TypeOK, TakeResponse, Stages, MailStage, Verdicts, Verdict
<1>2. Verdicts[c] = "waiting" /\ (got[c] = <<>> \/ Last(got[c]).kind = "trying")
  BY DEF MailInv, ReadsOn, TakeResponse, Verdicts, Verdict
<1> QED
  BY <1>1, <1>2 DEF Mail!Take, Mail!Wants, Mail!Last, Last, Stages, Verdicts, TakeResponse

LEMMA NilIsNothing ==
    ASSUME MailInv, NEW c \in Callers, TakeNil(c)
    PROVE  Mail!Nothing(c, ctx[c])
<1>1. UNCHANGED <<Stages, respQ, ctx, got>>
  BY DEF TakeNil, txVars, Stages, MailStage
<1>2. Verdicts[c] = "waiting" /\ (got[c] = <<>> \/ Last(got[c]).kind = "trying")
  BY DEF MailInv, ReadsOn, TakeNil, Verdicts, Verdict
<1>3. ctx[c] \in Txs /\ Stages[ctx[c]] = "closed"
  BY DEF MailInv, IInv, CallerInv, WatchInv, TakeNil, Stages, MailStage
<1>4. Verdicts' = [Verdicts EXCEPT ![c] = "nothing"]
  BY DEF MailInv, IInv, TypeOK, TakeNil, Verdicts, Verdict
<1> QED
  BY <1>1, <1>2, <1>3, <1>4 DEF Mail!Nothing, Mail!Wants, Mail!Last, Last, Stages, Verdicts,
     TakeNil

LEMMA SignalAnswers ==
    ASSUME MailInv, NEW c \in Callers, Signal(c)
    PROVE  UNCHANGED Mail!mailVars \/ Mail!Answer(c)
<1>1. UNCHANGED <<Stages, respQ, ctx, got>>
  BY DEF Signal, SendActive, Stages, MailStage
<1>2. CASE Last(got[c]).kind = "trying"
  <2>1. UNCHANGED Verdicts
    BY <1>2 DEF MailInv, IInv, TypeOK, Signal, Verdicts, Verdict
  <2> QED
    BY <1>1, <2>1, MailStutters
<1>3. CASE Last(got[c]).kind # "trying"
  <2>1. got[c] # <<>> /\ Verdicts[c] = "waiting"
    BY DEF MailInv, IInv, CallerInv, Signal, Verdicts, Verdict
  <2>2. Verdicts' = [Verdicts EXCEPT ![c] = "answered"]
    BY <1>3 DEF MailInv, IInv, TypeOK, Signal, Verdicts, Verdict
  <2> QED
    BY <1>1, <1>3, <2>1, <2>2 DEF Mail!Answer, Mail!Last, Last, Stages, Verdicts
<1> QED
  BY <1>2, <1>3

LEMMA ListenerOpens ==
    ASSUME MailInv, NEW l \in Listeners, NEW t \in Txs, ListenerCreates(l, t)
    PROVE  Mail!Open(t)
<1>1. Stages[t] = "unborn" /\ Stages' = [Stages EXCEPT ![t] = "open"]
  BY DEF MailInv, IInv, TypeOK, WatchInv, ListenerCreates, NewTX, Stages, MailStage
<1>2. UNCHANGED <<respQ, ctx, got, Verdicts>>
  BY DEF ListenerCreates, NewTX, callerVars, Verdicts, Verdict
<1> QED
  BY <1>1, <1>2 DEF Mail!Open, Mail!Opens, Stages, Verdicts

\* A listener hands over a packet that is nowhere else.
LEMMA PushDelivers ==
    ASSUME MailInv, NEW l \in Listeners, PushResponse(l)
    PROVE  \E t \in Txs, p \in Packet : Mail!Deliver(t, p)
<1>1. ltx[l] \in Txs /\ lmsg[l] \in Packet
  BY DEF MailInv, IInv, ListenerInv, PushResponse
<1>2. Stages[ltx[l]] = "open"
  <2>1. key[ltx[l]] \in Keys /\ key[ltx[l]] # None
    BY <1>1, TransactionAssumption DEF MailInv, IInv, ListenerInv, Packet, TransactionAssumption
  <2>2. watch[ltx[l]] # "unborn"
    BY <1>1, <2>1 DEF MailInv, IInv, WatchInv
  <2> QED
    BY <1>1, <2>2 DEF PushResponse, Stages, MailStage
<1>3. Mail!Fresh(lmsg[l])
  BY DEF MailInv, OnePlace, HandBuffer, HandCaller, Holds, PushResponse, Mail!Fresh
<1>4. UNCHANGED <<Stages, ctx, got, Verdicts>>
  BY DEF PushResponse, callerVars, Stages, MailStage, Verdicts, Verdict
<1>5. Mail!Deliver(ltx[l], lmsg[l])
  BY <1>2, <1>3, <1>4 DEF Mail!Deliver, PushResponse, Stages, Verdicts
<1> QED
  BY <1>1, <1>5

LEMMA WatchCloses ==
    ASSUME MailInv, NEW t \in Txs, WatchStep(t)
    PROVE  UNCHANGED Mail!mailVars \/ Mail!Close(t)
<1>1. UNCHANGED <<respQ, ctx, got, Verdicts>>
  BY DEF WatchStep, WatchActive, WatchTimeout, RmTX, CloseResp, CloseActive, callerVars,
     Verdicts, Verdict
<1>2. CASE CloseResp(t)
  <2>1. Stages[t] = "open" /\ Stages' = [Stages EXCEPT ![t] = "closed"]
    BY <1>2 DEF MailInv, IInv, TypeOK, WatchInv, CloseResp, WatchGoesTo, Stages, MailStage
  <2> QED
    BY <1>1, <2>1 DEF Mail!Close, Stages, Verdicts
<1>3. CASE ~CloseResp(t)
  <2>1. UNCHANGED Stages
    BY <1>3 DEF MailInv, IInv, TypeOK, WatchStep, WatchActive, WatchTimeout, RmTX, CloseActive,
       WatchGoesTo, Stages, MailStage
  <2> QED
    BY <1>1, <2>1, MailStutters
<1> QED
  BY <1>2, <1>3

\* The other steps are not the mailbox's.
LEMMA OtherStepsStutter ==
    /\ \A c \in Callers : SignalPanics(c) \/
          (\E outcome \in {"recv", "failed"} : MailInv /\ Write(c, outcome))
          => UNCHANGED Mail!mailVars
    /\ \A l \in Listeners : PacketArrives(l) \/ PushActive(l) \/ Recovered(l)
          => UNCHANGED Mail!mailVars
    /\ Rest \/ UNCHANGED vars => UNCHANGED Mail!mailVars
<1>1. ASSUME NEW c \in Callers, SignalPanics(c)
      PROVE  UNCHANGED Mail!mailVars
  BY <1>1, MailStutters DEF SignalPanics, txVars, callerVars, Stages, MailStage, Verdicts,
     Verdict
<1>2. ASSUME NEW c \in Callers, NEW outcome \in {"recv", "failed"}, MailInv, Write(c, outcome)
      PROVE  UNCHANGED Mail!mailVars
  BY <1>2, MailStutters DEF MailInv, IInv, TypeOK, Write, txVars, Stages, MailStage, Verdicts,
     Verdict
<1>3. ASSUME NEW l \in Listeners, PacketArrives(l) \/ PushActive(l) \/ Recovered(l)
      PROVE  UNCHANGED Mail!mailVars
  BY <1>3, MailStutters DEF PacketArrives, RequestArrives, ResponseArrives, PushActive,
     Recovered, SendActive, txVars, callerVars, Stages, MailStage, Verdicts, Verdict
<1>4. Rest \/ UNCHANGED vars => UNCHANGED Mail!mailVars
  BY MailStutters DEF Rest, vars, Stages, MailStage, Verdicts, Verdict
<1> QED
  BY <1>1, <1>2, <1>3, <1>4

LEMMA StepIsMail ==
    ASSUME MailInv, [Next]_vars
    PROVE  [Mail!Next]_(Mail!mailVars)
<1>1. ASSUME NEW c \in Callers, CallerStarts(c)
      PROVE  [Mail!Next]_(Mail!mailVars)
  BY <1>1, LookupJoins DEF CallerStarts, Mail!Next
<1>2. ASSUME NEW c \in Callers, CallerStep(c)
      PROVE  [Mail!Next]_(Mail!mailVars)
  <2>1. CASE \E t \in Txs : Create(c, t)
    BY <2>1, CreateOpensAndJoins DEF Mail!Next
  <2>2. CASE TakeResponse(c) \/ TakeNil(c)
    <3>1. ctx[c] \in Txs
      BY <2>2 DEF MailInv, IInv, CallerInv, TakeResponse, TakeNil
    <3> QED
      BY <2>2, <3>1, TakeTakes, NilIsNothing DEF Mail!Next
  <2>3. CASE Signal(c)
    BY <2>3, SignalAnswers DEF Mail!Next
  <2> QED
    BY <1>2, <2>1, <2>2, <2>3, OtherStepsStutter DEF CallerStep, CallerGoes
<1>3. ASSUME NEW l \in Listeners, PacketArrives(l) \/ ListenerStep(l)
      PROVE  [Mail!Next]_(Mail!mailVars)
  <2>1. CASE \E t \in Txs : ListenerCreates(l, t)
    BY <2>1, ListenerOpens DEF Mail!Next
  <2>2. CASE PushResponse(l)
    BY <2>2, PushDelivers DEF Mail!Next
  <2> QED
    BY <1>3, <2>1, <2>2, OtherStepsStutter DEF ListenerStep
<1>4. ASSUME NEW t \in Txs, WatchStep(t)
      PROVE  [Mail!Next]_(Mail!mailVars)
  BY <1>4, WatchCloses DEF Mail!Next
<1> QED
  BY <1>1, <1>2, <1>3, <1>4, OtherStepsStutter DEF Next

\* The transactions implement the mailboxes: each response reaches a caller of
\* GetResponse once, in the order of delivery and none after Close, and a
\* caller gets nil only from a transaction that is closed and drained.
THEOREM Implements == Safety => ImplementsMailbox
<1>1. Init => Mail!Init
  BY DEF Init, Mail!Init, MailStage, Verdict
<1>2. Safety => [](IInv /\ OnePlace /\ ReadsOn)
  BY Inductive, PacketsInOnePlace, ReadsOnAlways, PTL
<1>3. MailInv /\ [Next]_vars => [Mail!Next]_(Mail!mailVars)
  BY StepIsMail
<1> QED
  BY <1>1, <1>2, <1>3, PTL DEF Safety, ImplementsMailbox, Mail!Spec, MailInv
=================================================================================
