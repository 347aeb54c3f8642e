------------------------------- MODULE Collector -------------------------------
(***************************************************************************)
(* sip/collector.go: the goroutine of Collector.Start, which collects the  *)
(* items that the handlers Write for a key after Run, and saves them when  *)
(* they are complete or when none came for 10 s.                           *)
(*                                                                         *)
(* Saving a key ends with a Notify of it, which is a call into Observer:   *)
(* the goroutine is in "notify" from SaveKey to NotifyReturns, and Catalog *)
(* joins these two actions with the observer's.                            *)
(***************************************************************************)
EXTENDS Integers, Sequences, SequencesExt, FiniteSets

CONSTANTS
    Keys,        \* the devices whose catalogs are collected
    Items,       \* the items of a catalog, up to noRepeatFn
    Totals,      \* the totals that devices report
    CreateCap,   \* the capacity of createCh (100 in the code)
    MsgCap,      \* the capacity of msg (512 in the code)
    MaxRuns,     \* bound: the calls of Run
    MaxWrites,   \* bound: the calls of Write
    NoContent

\* idle: more than 10 s have passed since lastUpdateAt.
Content == [items : Seq(Items), total : Totals \cup {-1}, idle : BOOLEAN]
Msg == [key : Keys, item : Items, total : Totals]
Batch == [key : Keys, items : Seq(Items)]

ASSUME CollectorAssumption ==
    /\ CreateCap \in Nat \ {0} /\ MsgCap \in Nat \ {0}
    /\ MaxRuns \in Nat /\ MaxWrites \in Nat
    /\ Totals \subseteq Int
    /\ NoContent \notin Keys \cup Content

VARIABLES
    data,      \* Collector.data: key -> Content, or NoContent
    createQ,   \* the buffer of createCh
    msgQ,      \* the buffer of msg
    loop,      \* where the goroutine is
    todo,      \* the keys the iteration over data has still to visit
    current,   \* the key it saved and notifies of
    saved,     \* the batch it saved last, or NoContent
    runs,      \* the number of calls of Run
    writes     \* the number of calls of Write

colVars == <<data, createQ, msgQ, loop, todo, current, saved, runs, writes>>

ColTypeOK ==
    /\ data \in [Keys -> Content \cup {NoContent}]
    /\ createQ \in Seq(Keys) /\ Len(createQ) <= CreateCap
    /\ msgQ \in Seq(Msg) /\ Len(msgQ) <= MsgCap
    /\ loop \in {"select", "check", "notify"}
    /\ todo \subseteq Keys
    /\ current \in Keys \cup {NoContent}
    /\ saved = NoContent \/ saved \in Batch
    /\ runs \in 0..MaxRuns
    /\ writes \in 0..MaxWrites

ColInit ==
    /\ data = [k \in Keys |-> NoContent]
    /\ createQ = <<>>
    /\ msgQ = <<>>
    /\ loop = "select"
    /\ todo = {}
    /\ current = NoContent
    /\ saved = NoContent
    /\ runs = 0
    /\ writes = 0

Collecting == {k \in Keys : data[k] # NoContent}

-----------------------------------------------------------------------------
(* Called by the application and by the handlers of the device's messages *)

\* Wrong versions, each of which a property must tell from the code's: a name
\* that ends in "Wrong" says what of the definition below it is changed.
\* Here createCh has no bound.
RunUnboundedWrong(k) ==
    /\ runs < MaxRuns
    /\ runs' = runs + 1
    /\ createQ' = Append(createQ, k)
    /\ UNCHANGED <<data, msgQ, loop, todo, current, saved, writes>>

\* select { case c.createCh <- key: default: }
Run(k) ==
    /\ runs < MaxRuns
    /\ runs' = runs + 1
    /\ createQ' = IF Len(createQ) < CreateCap THEN Append(createQ, k)
                                              ELSE createQ
    /\ UNCHANGED <<data, msgQ, loop, todo, current, saved, writes>>

\* c.msg <- info, which waits for room.
Write(m) ==
    /\ writes < MaxWrites
    /\ Len(msgQ) < MsgCap
    /\ writes' = writes + 1
    /\ msgQ' = Append(msgQ, m)
    /\ UNCHANGED <<data, createQ, loop, todo, current, saved, runs>>

\* 10 s pass without an update.
Idles(k) ==
    /\ k \in Collecting
    /\ ~data[k].idle
    /\ data' = [data EXCEPT ![k].idle = TRUE]
    /\ UNCHANGED <<createQ, msgQ, loop, todo, current, saved, runs, writes>>

-----------------------------------------------------------------------------
(* The goroutine of Start *)

\* case v := <-c.createCh: a content that is being collected is replaced.
TakeCreate ==
    /\ loop = "select"
    /\ createQ # <<>>
    /\ createQ' = Tail(createQ)
    /\ data' = [data EXCEPT ![Head(createQ)] =
                   [items |-> <<>>, total |-> -1, idle |-> FALSE]]
    /\ UNCHANGED <<msgQ, loop, todo, current, saved, runs, writes>>

\* noRepeatFn is not called.
AcceptsRepeatsWrong(m) == data[m.key] # NoContent

\* The item is kept if its key is being collected and noRepeatFn finds no
\* equal one.
Accepts(m) ==
    /\ data[m.key] # NoContent
    /\ ~Contains(data[m.key].items, m.item)

\* An item that has come before its key is put back.
TakeMsgRequeuesWrong ==
    LET m == Head(msgQ) IN
    /\ loop = "select"
    /\ msgQ # <<>>
    /\ msgQ' = IF data[m.key] = NoContent THEN Append(Tail(msgQ), m)
                                          ELSE Tail(msgQ)
    /\ data' = IF Accepts(m)
               THEN [data EXCEPT ![m.key] =
                       [items |-> Append(@.items, m.item),
                        total |-> m.total, idle |-> FALSE]]
               ELSE data
    /\ UNCHANGED <<createQ, loop, todo, current, saved, runs, writes>>

\* case msg := <-c.msg: what is not accepted is dropped without a trace, and
\* does not count as an update.
TakeMsg ==
    LET m == Head(msgQ) IN
    /\ loop = "select"
    /\ msgQ # <<>>
    /\ msgQ' = Tail(msgQ)
    /\ data' = IF Accepts(m)
               THEN [data EXCEPT ![m.key] =
                       [items |-> Append(@.items, m.item),
                        total |-> m.total, idle |-> FALSE]]
               ELSE data
    /\ UNCHANGED <<createQ, loop, todo, current, saved, runs, writes>>

\* case <-check.C: the iteration over data begins.
Tick ==
    /\ loop = "select"
    /\ loop' = "check"
    /\ todo' = Collecting
    /\ UNCHANGED <<data, createQ, msgQ, current, saved, runs, writes>>

\* Complete catalogs only.
DueCompleteWrong(k) == data[k].total > 0 /\ Len(data[k].items) >= data[k].total

\* Idle for 10 s, or as many items as the device announced.
Due(k) == \/ data[k].idle
          \/ data[k].total > 0 /\ Len(data[k].items) >= data[k].total

SkipKey(k) ==
    /\ loop = "check"
    /\ k \in todo
    /\ ~Due(k)
    /\ todo' = todo \ {k}
    /\ UNCHANGED <<data, createQ, msgQ, loop, current, saved, runs, writes>>

\* fn(k, v.data): save, and the call of Notify.
SaveKey(k) ==
    /\ loop = "check"
    /\ k \in todo
    /\ Due(k)
    /\ saved' = [key |-> k, items |-> data[k].items]
    /\ loop' = "notify"
    /\ current' = k
    /\ UNCHANGED <<data, createQ, msgQ, todo, runs, writes>>

\* Every key that was to be checked is deleted.
NotifyReturnsDeletesAllWrong ==
    /\ loop = "notify"
    /\ data' = [k \in Keys |-> IF k \in todo THEN NoContent ELSE data[k]]
    /\ todo' = {}
    /\ loop' = "check"
    /\ current' = NoContent
    /\ UNCHANGED <<createQ, msgQ, saved, runs, writes>>

\* Notify returned: delete(c.data, k)
NotifyReturns ==
    /\ loop = "notify"
    /\ data' = [data EXCEPT ![current] = NoContent]
    /\ todo' = todo \ {current}
    /\ loop' = "check"
    /\ current' = NoContent
    /\ UNCHANGED <<createQ, msgQ, saved, runs, writes>>

CheckEnds ==
    /\ loop = "check"
    /\ todo = {}
    /\ loop' = "select"
    /\ UNCHANGED <<data, createQ, msgQ, todo, current, saved, runs, writes>>

-----------------------------------------------------------------------------
(* Properties *)

\* "noRepeatFn deduplicates ahead, so that nothing is stored twice"
\* (collector.go:49): the application is never handed the same item twice in
\* one catalog, whatever the order of the items of the keys, of Run and of the
\* checks. Line 2 of the file agrees; line 16, which says that the collector does
\* not deduplicate, does not.
NoDuplicateSaved == saved # NoContent => IsInjective(saved.items)

\* What was collected for a key leaves the collector only in the batch that
\* was saved last, or when Run is called again for the key.
LeavesWhenSaved ==
    [][\A k \in Collecting :
         \/ k \in Collecting' /\ IsPrefix(data[k].items, data'[k].items)
         \/ ~(k \in Collecting') /\ saved = [key |-> k, items |-> data[k].items]
         \/ createQ # <<>> /\ Head(createQ) = k /\ createQ' = Tail(createQ)
      ]_colVars

\* "1. create, 2. createCh <- deviceID, 3. msg <- item" (collector.go:17-20):
\* an item that is written after Run(key) is not dropped because Run's request
\* is still waiting.
RunBeforeWrite ==
    [][msgQ # <<>> /\ msgQ' = Tail(msgQ) =>
         \/ data[Head(msgQ).key] # NoContent
         \/ ~Contains(createQ, Head(msgQ).key)]_colVars
=================================================================================
