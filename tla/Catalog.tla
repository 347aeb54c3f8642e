--------------------------------- MODULE Catalog --------------------------------
(***************************************************************************)
(* The catalog query of Runtime: CatalogRun, CatalogWrite, CatalogWait and *)
(* StartCatalogLoop.  It composes Collector and Observer: the collector's  *)
(* goroutine is the notifier, and each of its saves is a Notify.           *)
(***************************************************************************)
EXTENDS Collector, Observer

VARIABLES
    batches,   \* the number of batches saved of each device
    before     \* for a waiter: the batches whose Notify ended before it waited

catVars == <<data, createQ, msgQ, loop, todo, current, saved, runs, writes,
             handlers, wpc, wslot, token, chClosed, woken, npc, ndev, nslot,
             nhandler, start, left, visited, panicked, batches, before>>

ASSUME CatalogAssumption == Devices = Keys

TypeOK ==
    /\ ColTypeOK
    /\ ObsTypeOK
    /\ batches \in [Keys -> Nat]
    /\ before \in [Waiters -> Nat]

Init ==
    /\ ColInit
    /\ ObsInit
    /\ batches = [k \in Keys |-> 0]
    /\ before = [w \in Waiters |-> 0]

-----------------------------------------------------------------------------

\* CatalogWait
CatalogWait(w) ==
    /\ WaiterStarts(w)
    /\ before' = [before EXCEPT ![w] =
         LET d == wslot'[w][1] IN
         IF ndev = d THEN batches[d] - 1 ELSE batches[d]]
    /\ UNCHANGED <<colVars, batches>>

WaiterGoes(w) == WaiterStep(w) /\ UNCHANGED <<colVars, batches, before>>

\* CatalogRun and CatalogWrite
Input ==
    /\ ~panicked
    /\ \/ \E k \in Keys : Run(k)
       \/ \E m \in Msg : Write(m)
    /\ UNCHANGED <<obsVars, batches, before>>

TimePasses(k) ==
    /\ ~panicked
    /\ Idles(k)
    /\ UNCHANGED <<obsVars, batches, before>>

Collect ==
    /\ ~panicked
    /\ TakeCreate \/ TakeMsg
    /\ UNCHANGED <<obsVars, batches, before>>

Check ==
    /\ ~panicked
    /\ Tick \/ CheckEnds \/ \E k \in Keys : SkipKey(k)
    /\ UNCHANGED <<obsVars, batches, before>>

SaveAndNotify(k) ==
    /\ ~panicked
    /\ SaveKey(k)
    /\ NotifyStarts(k)
    /\ batches' = [batches EXCEPT ![k] = @ + 1]
    /\ UNCHANGED before

Notifying == NotifierStep /\ UNCHANGED <<colVars, batches, before>>

NotifyDone ==
    /\ ~panicked
    /\ NotifyEnds
    /\ NotifyReturns
    /\ UNCHANGED <<batches, before>>

LoopGoes ==
    \/ Check
    \/ \E k \in Keys : SaveAndNotify(k)
    \/ Notifying
    \/ NotifyDone

\* After a panic the process has ended.
Stopped == panicked /\ UNCHANGED catVars

Next ==
    \/ \E w \in Waiters : CatalogWait(w) \/ WaiterGoes(w)
    \/ Input
    \/ \E k \in Keys : TimePasses(k)
    \/ Collect
    \/ LoopGoes
    \/ Stopped

Safety == Init /\ [][Next]_catVars

\* Waiters and the collector's goroutine run, timers and the ticker fire; the
\* select chooses at random among what is ready, so that no queue is passed
\* over for ever.  Nothing makes the application Run or Write.
Spec ==
    /\ Safety
    /\ \A w \in Waiters : WF_catVars(WaiterGoes(w))
    /\ \A k \in Keys : WF_catVars(TimePasses(k))
    /\ SF_catVars(Collect)
    /\ WF_catVars(LoopGoes)

-----------------------------------------------------------------------------
(* Properties *)

\* A waiter is woken only by the Notify of a batch of its device, and of one
\* whose Notify ended no earlier than its wait began: a batch that was saved before
\* the waiter registered counts as long as its Notify is still under way.  What
\* the waiter then reads is that catalog and not one that was notified before.
WokenAfterSave ==
    \A w \in Waiters : woken[w] => batches[wslot[w][1]] > before[w]

\* A catalog that stops growing is saved even when it is not complete.
EveryKeySaved == \A k \in Keys : data[k] # NoContent ~>
    (panicked \/ data[k] = NoContent)

\* Nobody who calls Write waits for ever for room in msg: the collector's
\* goroutine, which also notifies the waiters, always comes back to it.
WriterGetsRoom == Len(msgQ) = MsgCap ~> (panicked \/ Len(msgQ) < MsgCap)
=================================================================================
