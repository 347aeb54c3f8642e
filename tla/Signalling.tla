------------------------------- MODULE Signalling -------------------------------
(***************************************************************************)
(* The signalling of a platform: what a device sends to it (Inbound) and   *)
(* what it sends to a device (Outbound).  The two share the modules of     *)
(* messages, headers, URIs and bodies and no state, so the platform makes  *)
(* its call only while the device is silent, and the states are the sum of *)
(* the two and not their product.                                          *)
(***************************************************************************)
EXTENDS Inbound, Outbound

ASSUME SignallingAssumption ==
    /\ MaxSent \in Nat /\ MaxDerived \in Nat
    /\ Numbers \subseteq Nat

sigvars == <<program, sent, current, wire, framed, txs, jobs, answers, book, queries, down,
             called, request, wrote, heard, given, response, derived, failed>>

SigInit == InInit /\ OutInit

\* The platform's own call; it does not depend on the program.
Silent == sent = <<>> /\ queries = {} /\ program = "plain"
DeviceTalks == called = Nil /\ InNext /\ UNCHANGED outvars
PlatformTalks == Silent /\ OutNext /\ UNCHANGED invars

SigNext == DeviceTalks \/ PlatformTalks

\* Whether a goroutine of the platform has a step to take: Goroutines is enabled.
Runnable ==
    /\ ~down
    /\ \/ Tcp /\ \E c \in Conns : PacketEnd(Arrived(c)) # 0
       \/ ~Tcp /\ wire[1] # <<>>
       \/ \E j \in DOMAIN jobs : jobs[j].stage # "done"

\* Weak fairness of Goroutines, whose steps are those that change framed, jobs
\* or down.  It is written out, for ENABLED would parse every packet without
\* remembering what it has parsed.
Scheduled == []<>~Runnable \/ []<><<TRUE>>_<<framed, jobs, down>>

\* The goroutines of the platform run, the one that probes a device too; the
\* device sends what it likes, and the application and the timers act when they
\* like.
Probing == \E j \in DOMAIN jobs : ProbeDevice(j) /\ UNCHANGED outvars
SigSpec == SigInit /\ [][SigNext]_sigvars /\ Scheduled /\ WF_sigvars(Probing)

-----------------------------------------------------------------------------

\* The states of both sides have the shape that their actions are written for.
TypeOK == InTypeOK /\ OutTypeOK
================================================================================
