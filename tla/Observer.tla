-------------------------------- MODULE Observer --------------------------------
(***************************************************************************)
(* sip/obs.go: goroutines that wait until the collector has saved the      *)
(* catalog of a device (Register, 7 s in DefaultRegister), and the one     *)
(* that notifies them (Notify, on the goroutine of Collector.Start).       *)
(*                                                                         *)
(* A waiter is registered under "device:UnixMilli", its slot, and owns a   *)
(* channel of capacity 1 that the registered handler sends on.  The map is *)
(* a sync.Map, whose Range visits every slot that stays in it once, with   *)
(* the value the slot has when it is visited, and may visit slots that are *)
(* added meanwhile.                                                        *)
(***************************************************************************)
EXTENDS Naturals, FiniteSets

CONSTANTS
    Devices,
    Millis,    \* the milliseconds in which waiters register
    Waiters,   \* the goroutines in Register
    Nobody     \* no waiter, no slot, no device

Slots == Devices \X Millis

ASSUME ObserverAssumption == Nobody \notin Waiters \cup Devices \cup Slots

VARIABLES
    handlers,   \* Observer.data: slot -> the waiter whose handler it holds
    wpc,        \* where a waiter is
    wslot,      \* the slot it registered under
    token,      \* its channel holds an element
    chClosed,   \* its channel is closed
    woken,      \* it received from its channel
    npc,        \* where the notifier is
    ndev,       \* the device it notifies of
    nslot,      \* the slot it visits
    nhandler,   \* the waiter whose handler it calls
    start,      \* the waiters registered for ndev when the Range started
    left,       \* the slots of the map the Range must still visit
    visited,    \* the slots it visited
    panicked    \* a send on a closed channel ended the process

waiterVars == <<wpc, wslot, woken>>
notifierVars == <<npc, ndev, nslot, nhandler, start, left, visited>>
obsVars == <<handlers, wpc, wslot, token, chClosed, woken, npc, ndev, nslot,
             nhandler, start, left, visited, panicked>>

ObsTypeOK ==
    /\ handlers \in [Slots -> Waiters \cup {Nobody}]
    /\ wpc \in [Waiters -> {"idle", "select", "delete", "close", "returned"}]
    /\ wslot \in [Waiters -> Slots \cup {Nobody}]
    /\ token \in [Waiters -> BOOLEAN]
    /\ chClosed \in [Waiters -> BOOLEAN]
    /\ woken \in [Waiters -> BOOLEAN]
    /\ npc \in {"idle", "range", "send", "delete"}
    /\ ndev \in Devices \cup {Nobody}
    /\ nslot \in Slots \cup {Nobody}
    /\ nhandler \in Waiters \cup {Nobody}
    /\ start \subseteq Waiters
    /\ left \subseteq Slots
    /\ visited \subseteq Slots
    /\ panicked \in BOOLEAN

ObsInit ==
    /\ handlers = [s \in Slots |-> Nobody]
    /\ wpc = [w \in Waiters |-> "idle"]
    /\ wslot = [w \in Waiters |-> Nobody]
    /\ token = [w \in Waiters |-> FALSE]
    /\ chClosed = [w \in Waiters |-> FALSE]
    /\ woken = [w \in Waiters |-> FALSE]
    /\ npc = "idle"
    /\ ndev = Nobody
    /\ nslot = Nobody
    /\ nhandler = Nobody
    /\ start = {}
    /\ left = {}
    /\ visited = {}
    /\ panicked = FALSE

-----------------------------------------------------------------------------
(* A waiter: DefaultRegister or RegisterWithTimeout, with Register *)

\* concRegister stores the handler; two waiters of a device in the same
\* millisecond share a slot, and the second replaces the first.
Register(w, d, ms) ==
    /\ wpc[w] = "idle"
    /\ wslot' = [wslot EXCEPT ![w] = <<d, ms>>]
    /\ handlers' = [handlers EXCEPT ![<<d, ms>>] = w]
    /\ wpc' = [wpc EXCEPT ![w] = "select"]
    /\ UNCHANGED <<token, chClosed, woken, notifierVars, panicked>>

\* case <-ch
Woken(w) ==
    /\ wpc[w] = "select"
    /\ token[w]
    /\ token' = [token EXCEPT ![w] = FALSE]
    /\ woken' = [woken EXCEPT ![w] = TRUE]
    /\ wpc' = [wpc EXCEPT ![w] = "close"]
    /\ UNCHANGED <<handlers, wslot, chClosed, notifierVars, panicked>>

\* Wrong versions, each of which a property must tell from the code's: a name
\* that ends in "Wrong" says what of the definition below it is changed.
\* Here there is no timer.
TimesOutNeverWrong(w) == FALSE

\* case <-time.After(duration): the timer wins if nothing was sent before it.
TimesOut(w) ==
    /\ wpc[w] = "select"
    /\ ~token[w]
    /\ wpc' = [wpc EXCEPT ![w] = "delete"]
    /\ UNCHANGED <<handlers, wslot, token, chClosed, woken, notifierVars,
                   panicked>>

\* All the slots of the device are deleted.
DeregistersDeviceWrong(w) ==
    /\ wpc[w] = "delete"
    /\ handlers' = [s \in Slots |->
                      IF s[1] = wslot[w][1] THEN Nobody ELSE handlers[s]]
    /\ wpc' = [wpc EXCEPT ![w] = "close"]
    /\ UNCHANGED <<wslot, token, chClosed, woken, notifierVars, panicked>>

\* o.data.Delete(deviceID) deletes the slot, whoever's handler it holds.
Deregisters(w) ==
    /\ wpc[w] = "delete"
    /\ handlers' = [handlers EXCEPT ![wslot[w]] = Nobody]
    /\ wpc' = [wpc EXCEPT ![w] = "close"]
    /\ UNCHANGED <<wslot, token, chClosed, woken, notifierVars, panicked>>

\* The deferred close(ch), as Register returns.
Closes(w) ==
    /\ wpc[w] = "close"
    /\ chClosed' = [chClosed EXCEPT ![w] = TRUE]
    /\ wpc' = [wpc EXCEPT ![w] = "returned"]
    /\ UNCHANGED <<handlers, wslot, token, woken, notifierVars, panicked>>

WaiterStep(w) ==
    /\ ~panicked
    /\ Woken(w) \/ TimesOut(w) \/ Deregisters(w) \/ Closes(w)

WaiterStarts(w) ==
    /\ ~panicked
    /\ \E d \in Devices, ms \in Millis : Register(w, d, ms)

-----------------------------------------------------------------------------
(* Notify: Range over the handlers *)

Present == {s \in Slots : handlers[s] # Nobody}

NotifyStarts(d) ==
    /\ npc = "idle"
    /\ npc' = "range"
    /\ ndev' = d
    /\ start' = {w \in Waiters : \E s \in Slots : s[1] = d /\ handlers[s] = w}
    /\ left' = Present
    /\ visited' = {}
    /\ UNCHANGED <<handlers, token, chClosed, waiterVars, nslot, nhandler,
                   panicked>>

\* The handler does not compare the device.
VisitAnyDeviceWrong(s) ==
    /\ npc = "range"
    /\ s \in Present \ visited
    /\ visited' = visited \cup {s}
    /\ left' = left \ {s}
    /\ npc' = "send" /\ nslot' = s /\ nhandler' = handlers[s]
    /\ UNCHANGED <<handlers, token, chClosed, waiterVars, ndev, start, panicked>>

\* The handler compares the device: on a match it will send.
Visit(s) ==
    /\ npc = "range"
    /\ s \in Present \ visited
    /\ visited' = visited \cup {s}
    /\ left' = left \ {s}
    /\ IF s[1] = ndev
       THEN npc' = "send" /\ nslot' = s /\ nhandler' = handlers[s]
       ELSE UNCHANGED <<npc, nslot, nhandler>>
    /\ UNCHANGED <<handlers, token, chClosed, waiterVars, ndev, start, panicked>>

\* ch <- struct{}{} of the handler that was loaded, which may since have been
\* deregistered.
Send ==
    /\ npc = "send"
    /\ ~chClosed[nhandler]
    /\ ~token[nhandler]
    /\ token' = [token EXCEPT ![nhandler] = TRUE]
    /\ npc' = "delete"
    /\ UNCHANGED <<handlers, chClosed, waiterVars, ndev, nslot, nhandler, start,
                   left, visited, panicked>>

SendPanics ==
    /\ npc = "send"
    /\ chClosed[nhandler]
    /\ panicked' = TRUE
    /\ UNCHANGED <<handlers, token, chClosed, waiterVars, notifierVars>>

\* The handler stays registered.
DeletesSlotForgottenWrong ==
    /\ npc = "delete"
    /\ npc' = "range"
    /\ nslot' = Nobody
    /\ nhandler' = Nobody
    /\ UNCHANGED <<handlers, token, chClosed, waiterVars, ndev, start, left,
                   visited, panicked>>

\* Range ends at the first match.
DeletesSlotAndStopsWrong ==
    /\ npc = "delete"
    /\ handlers' = [handlers EXCEPT ![nslot] = Nobody]
    /\ npc' = "range"
    /\ nslot' = Nobody
    /\ nhandler' = Nobody
    /\ left' = {}
    /\ visited' = Slots
    /\ UNCHANGED <<token, chClosed, waiterVars, ndev, start, panicked>>

\* o.data.Delete(key) after the handler returned true.
DeletesSlot ==
    /\ npc = "delete"
    /\ handlers' = [handlers EXCEPT ![nslot] = Nobody]
    /\ npc' = "range"
    /\ nslot' = Nobody
    /\ nhandler' = Nobody
    /\ UNCHANGED <<token, chClosed, waiterVars, ndev, start, left, visited,
                   panicked>>

NotifyEnds ==
    /\ npc = "range"
    /\ left \cap Present = {}
    /\ npc' = "idle"
    /\ ndev' = Nobody
    /\ start' = {}
    /\ left' = {}
    /\ visited' = {}
    /\ UNCHANGED <<handlers, token, chClosed, waiterVars, nslot, nhandler,
                   panicked>>

NotifierStep ==
    /\ ~panicked
    /\ (\E s \in Slots : Visit(s)) \/ Send \/ SendPanics \/ DeletesSlot

-----------------------------------------------------------------------------
(* Properties *)

\* A Notify tells every waiter that was registered for its device when it
\* started: when it ends such a waiter has its token, has left the select, or
\* has lost its slot to a waiter that registered in the same millisecond.
NotifyReachesAll ==
    npc = "range" /\ left \cap Present = {} =>
        \A w \in start :
            wpc[w] = "select" /\ ~token[w] => handlers[wslot[w]] # w

\* The notifier, and with it the collector, never blocks on a waiter: a
\* handler is called once, as its slot is deleted before the next visit.
NotifyNeverBlocks == npc = "send" => ~token[nhandler]

\* Whoever waits is registered, so that a Notify can find it, unless it shares
\* its slot with another waiter or was sent its token.
WaiterIsRegistered ==
    \A w \in Waiters :
        wpc[w] = "select" /\ (\A v \in Waiters \ {w} : wslot[v] # wslot[w])
            => handlers[wslot[w]] = w \/ token[w]

\* Every Wait returns.
WaitReturns == \A w \in Waiters :
    wpc[w] = "select" ~> (panicked \/ wpc[w] = "returned")

\* A waiter that timed out is deregistered ("supports deregistration by
\* timeout", obs.go:2): no Notify sends on its closed channel.
NoSendAfterTimeout == ~panicked
=================================================================================
