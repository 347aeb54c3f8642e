------------------------------ MODULE CatalogProofs ------------------------------
(***************************************************************************)
(* Theorems about Catalog, for any number of devices, items, waiters and   *)
(* milliseconds and any capacities.  Collector and Observer share no       *)
(* variable, so each has an inductive invariant of its own.                *)
(***************************************************************************)
EXTENDS Catalog, TLAPS

-----------------------------------------------------------------------------
(* The collector *)

\* The keys that are still to be checked are being collected, and no content
\* holds an item twice.
ContentInv ==
    /\ todo \subseteq Collecting
    /\ \A k \in Collecting : IsInjective(data[k].items)
    /\ NoDuplicateSaved

\* While the goroutine notifies, the content it saved is as it was.
NotifyingInv ==
    loop = "notify" =>
        /\ current \in Collecting
        /\ saved = [key |-> current, items |-> data[current].items]

ColInv == ColTypeOK /\ ContentInv /\ NotifyingInv

\* A step of Catalog as the collector sees it.
ColStep ==
    \/ \E k \in Keys : Run(k) \/ Idles(k) \/ SkipKey(k) \/ SaveKey(k)
    \/ \E m \in Msg : Write(m)
    \/ TakeCreate \/ TakeMsg \/ Tick \/ NotifyReturns \/ CheckEnds
    \/ UNCHANGED colVars

LEMMA CollectorSteps == [Next]_catVars => ColStep
BY DEF Next, catVars, colVars, ColStep, CatalogWait, WaiterGoes, Input, TimePasses, Collect,
       LoopGoes, Check, SaveAndNotify, Notifying, NotifyDone, Stopped

\* An item that is not in a sequence can be added to it.
LEMMA AppendNew ==
    ASSUME NEW S, NEW s \in Seq(S), NEW e \in S, IsInjective(s), ~Contains(s, e)
    PROVE  /\ Append(s, e) \in Seq(S)
           /\ IsInjective(Append(s, e))
           /\ IsPrefix(s, Append(s, e))
<1>1. /\ Append(s, e) \in Seq(S)
      /\ Len(Append(s, e)) = Len(s) + 1
      /\ \A i \in 1..Len(s) : Append(s, e)[i] = s[i]
      /\ Append(s, e)[Len(s) + 1] = e
  OBVIOUS
<1>2. IsInjective(Append(s, e))
  BY <1>1 DEF IsInjective, Contains
<1>3. IsPrefix(s, Append(s, e))
  BY <1>1 DEF IsPrefix
<1> QED
  BY <1>1, <1>2, <1>3

LEMMA PrefixOfItself == ASSUME NEW S, NEW s \in Seq(S) PROVE IsPrefix(s, s)
BY DEF IsPrefix

LEMMA InitColInv == Init => ColInv
<1> SUFFICES ASSUME Init PROVE ColInv
  OBVIOUS
<1>1. ColTypeOK
  BY CollectorAssumption DEF CollectorAssumption, Init, ColInit, ColTypeOK
<1>2. ContentInv /\ NotifyingInv
  BY DEF Init, ColInit, ContentInv, Collecting, NoDuplicateSaved, NotifyingInv
<1> QED
  BY <1>1, <1>2 DEF ColInv

\* What TakeMsg makes of the content of the key of its item.
LEMMA TakenItem ==
    ASSUME ColInv, TakeMsg, Accepts(Head(msgQ))
    PROVE  LET k == Head(msgQ).key
           IN /\ k \in Collecting
              /\ data' = [data EXCEPT ![k] = data'[k]]
              /\ data'[k] \in Content
              /\ IsInjective(data'[k].items)
              /\ IsPrefix(data[k].items, data'[k].items)
<1> DEFINE m == Head(msgQ)
           new == [items |-> Append(data[m.key].items, m.item), total |-> m.total, idle |-> FALSE]
<1>1. m \in Msg /\ m.key \in Keys /\ m.item \in Items /\ m.total \in Totals
  <2>1. msgQ \in Seq(Msg) /\ msgQ # <<>>
    BY DEF ColInv, ColTypeOK, TakeMsg
  <2>2. m \in Msg
    BY <2>1
  <2> QED
    BY <2>2 DEF Msg
<1>2. /\ data[m.key] \in Content /\ m.key \in Collecting
      /\ data[m.key].items \in Seq(Items) /\ ~Contains(data[m.key].items, m.item)
  BY <1>1 DEF ColInv, ColTypeOK, Accepts, Content, Collecting
<1>3. IsInjective(data[m.key].items)
  BY <1>2 DEF ColInv, ContentInv
<1>4. data' = [data EXCEPT ![m.key] = new] /\ data'[m.key] = new
  BY <1>1 DEF TakeMsg, ColInv, ColTypeOK
<1>5. /\ new.items \in Seq(Items) /\ IsInjective(new.items)
      /\ IsPrefix(data[m.key].items, new.items)
  BY <1>1, <1>2, <1>3, AppendNew
<1>6. new \in Content
  BY <1>1, <1>5 DEF Content
<1> QED
  BY <1>2, <1>4, <1>5, <1>6

LEMMA ColStepColInv ==
    ASSUME ColInv, ColStep
    PROVE  ColInv'
<1> USE CollectorAssumption DEF CollectorAssumption, ColInv, Collecting
<1>1. ASSUME NEW k \in Keys, Run(k) PROVE ColInv'
  <2>1. createQ' \in Seq(Keys) /\ Len(createQ') <= CreateCap
    BY <1>1 DEF Run, ColTypeOK
  <2>2. ColTypeOK'
    BY <1>1, <2>1 DEF Run, ColTypeOK
  <2> QED
    BY <1>1, <2>2 DEF Run, ContentInv, NotifyingInv, NoDuplicateSaved
<1>2. ASSUME NEW m \in Msg, Write(m) PROVE ColInv'
  <2>1. msgQ' \in Seq(Msg) /\ Len(msgQ') <= MsgCap
    BY <1>2 DEF Write, ColTypeOK
  <2>2. ColTypeOK'
    BY <1>2, <2>1 DEF Write, ColTypeOK
  <2> QED
    BY <1>2, <2>2 DEF Write, ContentInv, NotifyingInv, NoDuplicateSaved
<1>3. ASSUME NEW k \in Keys, Idles(k) PROVE ColInv'
  <2>1. data[k] \in Content
    BY <1>3 DEF Idles, ColTypeOK
  <2>2. data'[k] = [data[k] EXCEPT !.idle = TRUE]
    BY <1>3 DEF Idles, ColTypeOK
  <2>3. data'[k] \in Content /\ data'[k].items = data[k].items
    BY <2>1, <2>2 DEF Content
  <2>4. \A c \in Keys \ {k} : data'[c] = data[c]
    BY <1>3 DEF Idles, ColTypeOK
  <2>5. data' \in [Keys -> Content \cup {NoContent}]
    BY <1>3, <2>1, <2>3, <2>4 DEF Idles, ColTypeOK
  <2>6. ColTypeOK'
    BY <1>3, <2>5 DEF Idles, ColTypeOK
  <2>7. ContentInv'
    BY <1>3, <2>1, <2>3, <2>4 DEF Idles, ContentInv, NoDuplicateSaved, ColTypeOK
  <2>8. NotifyingInv'
    BY <1>3, <2>1, <2>3, <2>4 DEF Idles, NotifyingInv, ColTypeOK
  <2> QED
    BY <2>6, <2>7, <2>8
<1>4. ASSUME NEW k \in Keys, SkipKey(k) PROVE ColInv'
  BY <1>4 DEF SkipKey, ColTypeOK, ContentInv, NotifyingInv, NoDuplicateSaved
<1>5. ASSUME NEW k \in Keys, SaveKey(k) PROVE ColInv'
  <2>1. k \in Collecting /\ data[k] \in Content /\ data[k].items \in Seq(Items)
    BY <1>5 DEF SaveKey, ContentInv, ColTypeOK, Content
  <2>2. saved' \in Batch /\ IsInjective(saved'.items)
    BY <1>5, <2>1 DEF SaveKey, Batch, ContentInv
  <2>3. ColTypeOK'
    BY <1>5, <2>2 DEF SaveKey, ColTypeOK
  <2> QED
    BY <1>5, <2>1, <2>2, <2>3 DEF SaveKey, ContentInv, NotifyingInv, NoDuplicateSaved
<1>6. CASE TakeCreate
  <2> DEFINE k == Head(createQ)
             new == [items |-> <<>>, total |-> -1, idle |-> FALSE]
  <2>1. k \in Keys /\ createQ' \in Seq(Keys) /\ Len(createQ') <= CreateCap
    BY <1>6 DEF TakeCreate, ColTypeOK
  <2>2. new \in Content /\ IsInjective(new.items)
    BY DEF Content, IsInjective
  <2>3. data' = [data EXCEPT ![k] = new]
    BY <1>6 DEF TakeCreate
  <2>4. ColTypeOK'
    BY <1>6, <2>1, <2>2, <2>3 DEF TakeCreate, ColTypeOK
  <2>5. ContentInv'
    BY <1>6, <2>1, <2>2, <2>3 DEF TakeCreate, ContentInv, NoDuplicateSaved, ColTypeOK
  <2> QED
    BY <1>6, <2>4, <2>5 DEF TakeCreate, NotifyingInv
<1>7. CASE TakeMsg
  <2>1. msgQ' \in Seq(Msg) /\ Len(msgQ') <= MsgCap
    BY <1>7 DEF TakeMsg, ColTypeOK
  <2>2. CASE Accepts(Head(msgQ))
    <3> DEFINE k == Head(msgQ).key
    <3>1. /\ k \in Collecting /\ data' = [data EXCEPT ![k] = data'[k]]
          /\ data'[k] \in Content /\ IsInjective(data'[k].items)
      BY <1>7, <2>2, TakenItem
    <3>2. ColTypeOK'
      BY <1>7, <2>1, <3>1 DEF TakeMsg, ColTypeOK
    <3>3. ContentInv'
      BY <1>7, <3>1 DEF TakeMsg, ContentInv, NoDuplicateSaved, ColTypeOK
    <3> QED
      BY <1>7, <3>2, <3>3 DEF TakeMsg, NotifyingInv
  <2>3. CASE ~Accepts(Head(msgQ))
    BY <1>7, <2>1, <2>3 DEF TakeMsg, ColTypeOK, ContentInv, NotifyingInv, NoDuplicateSaved
  <2> QED
    BY <2>2, <2>3
<1>8. CASE Tick \/ CheckEnds
  BY <1>8 DEF Tick, CheckEnds, ColTypeOK, ContentInv, NotifyingInv, NoDuplicateSaved
<1>9. CASE NotifyReturns
  BY <1>9 DEF NotifyReturns, ColTypeOK, ContentInv, NotifyingInv, NoDuplicateSaved
<1>10. CASE UNCHANGED colVars
  BY <1>10 DEF colVars, ColTypeOK, ContentInv, NotifyingInv, NoDuplicateSaved
<1> QED
  BY <1>1, <1>2, <1>3, <1>4, <1>5, <1>6, <1>7, <1>8, <1>9, <1>10 DEF ColStep

LEMMA Collects == Safety => []ColInv
<1>1. ColInv /\ [Next]_catVars => ColInv'
  BY CollectorSteps, ColStepColInv
<1> QED
  BY <1>1, InitColInv, PTL DEF Safety

-----------------------------------------------------------------------------
(* Theorems about the collector *)

\* Whatever is written and however often Run is called, the application is
\* never handed an item twice in one catalog.
THEOREM NoDuplicates == Safety => []NoDuplicateSaved
<1>1. ColInv => NoDuplicateSaved
  BY DEF ColInv, ContentInv
<1> QED
  BY <1>1, Collects, PTL

\* What a step of the collector may do to the content of a key.
LeaveWhenSaved ==
    \A k \in Collecting :
        \/ k \in Collecting' /\ IsPrefix(data[k].items, data'[k].items)
        \/ ~(k \in Collecting') /\ saved = [key |-> k, items |-> data[k].items]
        \/ createQ # <<>> /\ Head(createQ) = k /\ createQ' = Tail(createQ)

\* Items leave the collector in a batch that is saved, or by another Run, and
\* in no other way.
THEOREM LeavesSaved == Safety => LeavesWhenSaved
<1>1. ColInv /\ [Next]_catVars => [LeaveWhenSaved]_colVars
  <2> SUFFICES ASSUME ColInv, ColStep, NEW k \in Collecting
               PROVE  \/ k \in Collecting' /\ IsPrefix(data[k].items, data'[k].items)
                      \/ ~(k \in Collecting') /\ saved = [key |-> k, items |-> data[k].items]
                      \/ createQ # <<>> /\ Head(createQ) = k /\ createQ' = Tail(createQ)
    BY CollectorSteps DEF LeaveWhenSaved
  <2> USE CollectorAssumption DEF CollectorAssumption, ColInv, ColTypeOK, Collecting
  <2>1. data[k] \in Content /\ IsPrefix(data[k].items, data[k].items)
    BY PrefixOfItself DEF Content
  <2>2. CASE data'[k] = data[k]
    BY <2>1, <2>2
  <2>3. ASSUME NEW c \in Keys, Idles(c), c = k
        PROVE  data'[k] \in Content /\ data'[k].items = data[k].items
    BY <2>1, <2>3 DEF Idles, Content
  <2>4. ASSUME NEW c \in Keys, Idles(c)
        PROVE  data'[k] = data[k] \/ (data'[k] \in Content /\ data'[k].items = data[k].items)
    BY <2>3, <2>4 DEF Idles
  <2>5. CASE TakeCreate
    BY <2>2, <2>5 DEF TakeCreate
  <2>6. CASE TakeMsg
    <3>1. CASE Accepts(Head(msgQ)) /\ Head(msgQ).key = k
      BY <2>6, <3>1, TakenItem
    <3>2. CASE ~(Accepts(Head(msgQ)) /\ Head(msgQ).key = k)
      BY <2>2, <2>6, <3>2 DEF TakeMsg
    <3> QED
      BY <3>1, <3>2
  <2>7. CASE NotifyReturns
    BY <2>2, <2>7 DEF NotifyReturns, NotifyingInv
  <2>8. CASE UNCHANGED data
    BY <2>2, <2>8
  <2> QED
    BY <2>1, <2>2, <2>4, <2>5, <2>6, <2>7, <2>8
       DEF ColStep, Run, Write, SkipKey, SaveKey, Tick, CheckEnds, colVars
<1> QED
  BY <1>1, Collects, PTL DEF Safety, LeavesWhenSaved, LeaveWhenSaved

-----------------------------------------------------------------------------
(* The observer *)

\* A goroutine that does not wait yet has nothing; one that does has a slot.
BeforeWait ==
    \A w \in Waiters :
        /\ wpc[w] = "idle" => ~token[w] /\ ~woken[w] /\ wslot[w] = Nobody /\ w \notin start
        /\ wpc[w] # "idle" => wslot[w] \in Slots

\* A handler is in the map under its waiter's slot, and was not called yet: only
\* the notifier may be about to delete one that was.
SlotInv ==
    \A s \in Slots :
        LET w == handlers[s]
        IN w # Nobody =>
            /\ wslot[w] = s
            /\ \/ wpc[w] \in {"select", "delete"} /\ ~token[w]
               \/ npc = "delete" /\ nslot = s /\ nhandler = w

\* What the notifier holds, by where it is.
NotifierInv ==
    /\ npc = "idle" => ndev = Nobody
    /\ npc # "idle" => ndev \in Devices
    /\ npc \in {"send", "delete"} =>
        /\ nslot \in Slots /\ nhandler \in Waiters
        /\ wpc[nhandler] # "idle" /\ wslot[nhandler] = nslot /\ nslot[1] = ndev
    /\ NotifyNeverBlocks
    /\ npc = "delete" => token[nhandler] \/ wpc[nhandler] # "select"

\* A waiter that was registered when the Range started and has neither its token
\* nor lost its slot is still to be visited, or is being sent to.
RangeInv ==
    npc # "idle" =>
        \A w \in start :
            /\ wslot[w][1] = ndev
            /\ wpc[w] = "select" /\ ~token[w] /\ handlers[wslot[w]] = w =>
                  wslot[w] \in left \/ (npc = "send" /\ nhandler = w)

ObsInv == ObsTypeOK /\ BeforeWait /\ SlotInv /\ NotifierInv /\ RangeInv /\ WaiterIsRegistered

\* A step of Catalog as the observer sees it.
ObsStep ==
    \/ \E w \in Waiters : WaiterStarts(w) \/ WaiterStep(w)
    \/ \E d \in Devices : NotifyStarts(d)
    \/ NotifierStep \/ NotifyEnds
    \/ UNCHANGED obsVars

LEMMA ObserverSteps == [Next]_catVars => ObsStep
BY CatalogAssumption DEF CatalogAssumption, Next, catVars, obsVars, ObsStep, CatalogWait,
   WaiterGoes, Input, TimePasses, Collect, LoopGoes, Check, SaveAndNotify, Notifying,
   NotifyDone, Stopped

LEMMA SlotParts ==
    /\ \A s \in Slots : s[1] \in Devices
    /\ \A d \in Devices, ms \in Millis : <<d, ms>> \in Slots /\ <<d, ms>>[1] = d
BY DEF Slots

LEMMA InitObsInv == Init => ObsInv
BY DEF Init, ObsInit, ObsInv, ObsTypeOK, BeforeWait, SlotInv, NotifierInv, RangeInv,
   WaiterIsRegistered, NotifyNeverBlocks

LEMMA WaiterObsInv ==
    ASSUME ObsInv, NEW w \in Waiters, WaiterStarts(w) \/ WaiterStep(w)
    PROVE  ObsInv'
<1> USE ObserverAssumption DEF ObserverAssumption, ObsInv, waiterVars, notifierVars, ObsTypeOK
<1>1. ASSUME NEW d \in Devices, NEW ms \in Millis, Register(w, d, ms)
      PROVE  ObsInv'
  <2> USE <1>1, SlotParts DEF Register
  <2>1. ObsTypeOK'
    OBVIOUS
  <2>2. BeforeWait'
    BY DEF BeforeWait
  <2>3. SlotInv'
    BY DEF SlotInv, BeforeWait
  <2>4. NotifierInv'
    BY DEF NotifierInv, NotifyNeverBlocks
  <2>5. RangeInv'
    BY DEF RangeInv, BeforeWait
  <2>6. WaiterIsRegistered'
    BY DEF WaiterIsRegistered, BeforeWait
  <2> QED
    BY <2>1, <2>2, <2>3, <2>4, <2>5, <2>6
<1>2. CASE Woken(w)
  <2> USE <1>2 DEF Woken
  <2>1. ObsTypeOK'
    OBVIOUS
  <2>2. BeforeWait'
    BY DEF BeforeWait
  <2>3. SlotInv'
    BY DEF SlotInv
  <2>4. NotifierInv'
    BY DEF NotifierInv, NotifyNeverBlocks
  <2>5. RangeInv'
    BY DEF RangeInv
  <2>6. WaiterIsRegistered'
    BY DEF WaiterIsRegistered
  <2> QED
    BY <2>1, <2>2, <2>3, <2>4, <2>5, <2>6
<1>3. CASE TimesOut(w)
  <2> USE <1>3 DEF TimesOut
  <2>1. ObsTypeOK'
    OBVIOUS
  <2>2. BeforeWait'
    BY DEF BeforeWait
  <2>3. SlotInv'
    BY DEF SlotInv
  <2>4. NotifierInv'
    BY DEF NotifierInv, NotifyNeverBlocks
  <2>5. RangeInv'
    BY DEF RangeInv
  <2>6. WaiterIsRegistered'
    BY DEF WaiterIsRegistered
  <2> QED
    BY <2>1, <2>2, <2>3, <2>4, <2>5, <2>6
<1>4. CASE Deregisters(w)
  <2> USE <1>4 DEF Deregisters
  <2>1. ObsTypeOK'
    OBVIOUS
  <2>2. BeforeWait'
    BY DEF BeforeWait
  <2>3. SlotInv'
    BY DEF SlotInv, BeforeWait
  <2>4. NotifierInv'
    BY DEF NotifierInv, NotifyNeverBlocks
  <2>5. RangeInv'
    BY DEF RangeInv, BeforeWait
  <2>6. WaiterIsRegistered'
    BY DEF WaiterIsRegistered, BeforeWait
  <2> QED
    BY <2>1, <2>2, <2>3, <2>4, <2>5, <2>6
<1>5. CASE Closes(w)
  <2> USE <1>5 DEF Closes
  <2>1. ObsTypeOK'
    OBVIOUS
  <2>2. BeforeWait'
    BY DEF BeforeWait
  <2>3. SlotInv'
    BY DEF SlotInv
  <2>4. NotifierInv'
    BY DEF NotifierInv, NotifyNeverBlocks
  <2>5. RangeInv'
    BY DEF RangeInv
  <2>6. WaiterIsRegistered'
    BY DEF WaiterIsRegistered
  <2> QED
    BY <2>1, <2>2, <2>3, <2>4, <2>5, <2>6
<1> QED
  BY <1>1, <1>2, <1>3, <1>4, <1>5 DEF WaiterStarts, WaiterStep

LEMMA NotifierObsInv ==
    ASSUME ObsInv, NotifierStep \/ NotifyEnds \/ \E d \in Devices : NotifyStarts(d)
    PROVE  ObsInv'
<1> USE ObserverAssumption DEF ObserverAssumption, ObsInv, waiterVars, notifierVars, ObsTypeOK
<1>1. ASSUME NEW d \in Devices, NotifyStarts(d)
      PROVE  ObsInv'
  <2> USE <1>1 DEF NotifyStarts, Present
  <2>1. ObsTypeOK'
    OBVIOUS
  <2>2. BeforeWait'
    BY DEF BeforeWait, SlotInv
  <2>3. SlotInv' /\ NotifierInv'
    BY DEF SlotInv, NotifierInv, NotifyNeverBlocks
  <2>4. RangeInv'
    <3> SUFFICES ASSUME NEW w \in start', handlers[wslot[w]] = w \/ TRUE
                 PROVE  /\ wslot[w][1] = d
                        /\ handlers[wslot[w]] = w => wslot[w] \in left'
      BY DEF RangeInv
    <3>1. PICK s \in Slots : s[1] = d /\ handlers[s] = w
      OBVIOUS
    <3>2. wslot[w] = s
      BY <3>1 DEF SlotInv
    <3> QED
      BY <3>1, <3>2
  <2>5. WaiterIsRegistered'
    BY DEF WaiterIsRegistered
  <2> QED
    BY <2>1, <2>2, <2>3, <2>4, <2>5
<1>2. ASSUME NEW s \in Slots, Visit(s)
      PROVE  ObsInv'
  <2> USE <1>2 DEF Visit, Present
  <2>1. ObsTypeOK'
    OBVIOUS
  <2>2. BeforeWait'
    BY DEF BeforeWait
  <2>3. SlotInv'
    BY DEF SlotInv
  <2>4. NotifierInv'
    BY DEF NotifierInv, NotifyNeverBlocks, SlotInv, BeforeWait
  <2>5. RangeInv'
    BY DEF RangeInv
  <2>6. WaiterIsRegistered'
    BY DEF WaiterIsRegistered
  <2> QED
    BY <2>1, <2>2, <2>3, <2>4, <2>5, <2>6
<1>3. CASE Send
  <2> USE <1>3 DEF Send
  <2>1. nhandler \in Waiters /\ wslot[nhandler] = nslot /\ wpc[nhandler] # "idle"
    BY DEF NotifierInv
  <2>2. ObsTypeOK'
    BY <2>1
  <2>3. BeforeWait'
    BY <2>1 DEF BeforeWait
  <2>4. SlotInv'
    BY <2>1 DEF SlotInv
  <2>5. NotifierInv'
    BY <2>1 DEF NotifierInv, NotifyNeverBlocks
  <2>6. RangeInv'
    BY <2>1 DEF RangeInv
  <2>7. WaiterIsRegistered'
    BY <2>1 DEF WaiterIsRegistered
  <2> QED
    BY <2>2, <2>3, <2>4, <2>5, <2>6, <2>7
<1>4. CASE SendPanics
  BY <1>4 DEF SendPanics, BeforeWait, SlotInv, NotifierInv, NotifyNeverBlocks, RangeInv,
     WaiterIsRegistered
<1>5. CASE DeletesSlot
  <2> USE <1>5 DEF DeletesSlot
  <2>1. nslot \in Slots /\ nhandler \in Waiters /\ wslot[nhandler] = nslot
    BY DEF NotifierInv
  <2>2. ObsTypeOK'
    BY <2>1
  <2>3. BeforeWait'
    BY DEF BeforeWait
  <2>4. SlotInv'
    BY <2>1 DEF SlotInv
  <2>5. NotifierInv'
    BY DEF NotifierInv, NotifyNeverBlocks
  <2>6. RangeInv'
    BY <2>1 DEF RangeInv
  <2>7. WaiterIsRegistered'
    BY <2>1 DEF WaiterIsRegistered, NotifierInv, BeforeWait
  <2> QED
    BY <2>2, <2>3, <2>4, <2>5, <2>6, <2>7
<1>6. CASE NotifyEnds
  BY <1>6 DEF NotifyEnds, BeforeWait, SlotInv, NotifierInv, NotifyNeverBlocks, RangeInv,
     WaiterIsRegistered
<1> QED
  BY <1>1, <1>2, <1>3, <1>4, <1>5, <1>6 DEF NotifierStep

LEMMA ObsStepObsInv ==
    ASSUME ObsInv, ObsStep
    PROVE  ObsInv'
<1>1. CASE UNCHANGED obsVars
  BY <1>1 DEF obsVars, ObsInv, ObsTypeOK, BeforeWait, SlotInv, NotifierInv, NotifyNeverBlocks,
     RangeInv, WaiterIsRegistered
<1> QED
  BY <1>1, WaiterObsInv, NotifierObsInv DEF ObsStep

LEMMA Observes == Safety => []ObsInv
<1>1. ObsInv /\ [Next]_catVars => ObsInv'
  BY ObserverSteps, ObsStepObsInv
<1> QED
  BY <1>1, InitObsInv, PTL DEF Safety

-----------------------------------------------------------------------------
(* Theorems about the observer *)

\* Whoever waits alone in its slot can be found by a Notify until it is sent its
\* token, whichever other waiters come, time out and are told.
THEOREM Registered == Safety => []WaiterIsRegistered
<1>1. ObsInv => WaiterIsRegistered
  BY DEF ObsInv
<1> QED
  BY <1>1, Observes, PTL

\* The collector never blocks on the channel of a waiter.
THEOREM NeverBlocks == Safety => []NotifyNeverBlocks
<1>1. ObsInv => NotifyNeverBlocks
  BY DEF ObsInv, NotifierInv
<1> QED
  BY <1>1, Observes, PTL

\* A Notify that has visited what it must has told everyone who was registered
\* for its device when it started.
THEOREM ReachesAll == Safety => []NotifyReachesAll
<1>1. ObsInv => NotifyReachesAll
  <2> SUFFICES ASSUME ObsInv, npc = "range", left \cap Present = {}, NEW w \in start,
                      wpc[w] = "select", ~token[w], handlers[wslot[w]] = w
               PROVE  FALSE
    BY DEF NotifyReachesAll
  <2>1. w \in Waiters /\ wslot[w] \in Slots /\ w # Nobody
    BY ObserverAssumption DEF ObserverAssumption, ObsInv, ObsTypeOK, BeforeWait
  <2>2. wslot[w] \in left
    BY DEF ObsInv, RangeInv
  <2> QED
    BY <2>1, <2>2 DEF Present
<1> QED
  BY <1>1, Observes, PTL

-----------------------------------------------------------------------------
(* Both together *)

\* The batches that a waiter has to wait for: a Notify that is under way when it
\* begins may or may not wake it, and its save has been counted.
WaitInv ==
    /\ batches \in [Keys -> Nat] /\ before \in [Waiters -> Nat]
    /\ npc # "idle" => batches[ndev] > 0
    /\ \A w \in Waiters :
        LET d == wslot[w][1]
        IN /\ wpc[w] # "idle" => before[w] <= IF ndev = d THEN batches[d] - 1 ELSE batches[d]
           /\ token[w] \/ woken[w] => batches[d] > before[w]

LEMMA NextWaitInv ==
    ASSUME ObsInv, WaitInv, [Next]_catVars
    PROVE  WaitInv'
<1> USE ObserverAssumption, CatalogAssumption, SlotParts
    DEF ObserverAssumption, CatalogAssumption, ObsInv, ObsTypeOK, WaitInv,
        waiterVars, notifierVars, obsVars
<1>1. ASSUME NEW w \in Waiters, CatalogWait(w) PROVE WaitInv'
  <2>1. PICK d \in Devices, ms \in Millis : Register(w, d, ms)
    BY <1>1 DEF CatalogWait, WaiterStarts
  <2>2. /\ wslot'[w] = <<d, ms>> /\ wslot'[w][1] = d
        /\ \A v \in Waiters \ {w} : wslot'[v] = wslot[v] /\ wpc'[v] = wpc[v]
        /\ UNCHANGED <<token, woken, npc, ndev, batches>>
    BY <1>1, <2>1 DEF CatalogWait, Register
  <2>3. before' = [before EXCEPT ![w] = IF ndev = d THEN batches[d] - 1 ELSE batches[d]]
    BY <1>1, <2>2 DEF CatalogWait
  <2>4. ndev = d => batches[d] > 0
    BY DEF NotifierInv
  <2>5. before' \in [Waiters -> Nat]
    BY <2>3, <2>4
  <2>6. ~token[w] /\ ~woken[w]
    BY <2>1 DEF Register, BeforeWait
  <2> QED
    BY <2>2, <2>3, <2>4, <2>5, <2>6
<1>2. ASSUME NEW w \in Waiters, WaiterGoes(w) PROVE WaitInv'
  BY <1>2 DEF WaiterGoes, WaiterStep, Woken, TimesOut, Deregisters, Closes, colVars
<1>3. ASSUME NEW k \in Keys, SaveAndNotify(k) PROVE WaitInv'
  <2>1. /\ npc = "idle" /\ ndev = Nobody /\ ndev' = k
        /\ batches' = [batches EXCEPT ![k] = @ + 1]
        /\ UNCHANGED <<before, wpc, wslot, token, woken>>
    BY <1>3 DEF SaveAndNotify, NotifyStarts, NotifierInv
  <2>2. \A w \in Waiters : wpc[w] # "idle" => wslot[w][1] \in Keys /\ wslot[w][1] # ndev
    BY <2>1 DEF BeforeWait
  <2>3. \A w \in Waiters : wpc[w] = "idle" => ~token[w] /\ ~woken[w]
    BY DEF BeforeWait
  <2> QED
    BY <2>1, <2>2, <2>3
<1>4. CASE NotifyDone
  <2>1. npc' = "idle" /\ ndev' = Nobody /\ UNCHANGED <<before, batches, wpc, wslot, token, woken>>
    BY <1>4 DEF NotifyDone, NotifyEnds
  <2>2. \A w \in Waiters : wpc[w] # "idle" => wslot[w][1] \in Keys
    BY DEF BeforeWait
  <2> QED
    BY <2>1, <2>2
<1>5. CASE Notifying
  <2>1. UNCHANGED <<ndev, before, batches, wpc, wslot, woken>> /\ (npc = "idle" <=> npc' = "idle")
    BY <1>5 DEF Notifying, NotifierStep, Visit, Send, SendPanics, DeletesSlot
  <2>2. CASE Send
    <3>1. /\ nhandler \in Waiters /\ wslot[nhandler][1] = ndev /\ wpc[nhandler] # "idle"
          /\ ndev \in Keys
      BY <2>2 DEF Send, NotifierInv
    <3>2. before[nhandler] < batches[ndev]
      BY <3>1
    <3> QED
      BY <2>1, <2>2, <3>1, <3>2 DEF Send
  <2>3. CASE UNCHANGED token
    BY <2>1, <2>3
  <2> QED
    BY <1>5, <2>2, <2>3 DEF Notifying, NotifierStep, Visit, SendPanics, DeletesSlot
<1>6. CASE UNCHANGED <<obsVars, batches, before>>
  BY <1>6
<1> QED
  BY <1>1, <1>2, <1>3, <1>4, <1>5, <1>6
     DEF Next, Input, TimePasses, Collect, LoopGoes, Check, Stopped, catVars

LEMMA Waits == Safety => []WaitInv
<1>1. Init => WaitInv
  BY DEF Init, ObsInit, WaitInv
<1> QED
  BY <1>1, Observes, NextWaitInv, PTL DEF Safety

\* Type correctness of collector, observer and what joins them.
THEOREM TypeCorrect == Safety => []TypeOK
<1>1. ColInv /\ ObsInv /\ WaitInv => TypeOK
  BY DEF ColInv, ObsInv, WaitInv, TypeOK
<1> QED
  BY <1>1, Collects, Observes, Waits, PTL

\* A waiter is woken only by a batch of its device whose Notify ended no earlier
\* than its wait began: of a batch that was saved before it registered only while
\* the Notify is still under way, of any later one, and of no earlier one.
THEOREM WokenAfterItsSave == Safety => []WokenAfterSave
<1>1. WaitInv => WokenAfterSave
  BY DEF WaitInv, WokenAfterSave
<1> QED
  BY <1>1, Waits, PTL
=================================================================================
