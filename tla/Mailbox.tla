-------------------------------- MODULE Mailbox --------------------------------
(***************************************************************************)
(* What a Transaction promises to the callers of GetResponse, without the  *)
(* table, the listeners, the watch goroutine or the second channel: a      *)
(* mailbox of bounded size that is opened, shared by the callers that join *)
(* it while it is open, filled with responses none of which it was given   *)
(* before, and closed once.  A caller takes responses in the order of      *)
(* their delivery until one is final; it is told that there is none only   *)
(* when the mailbox is closed and empty.                                   *)
(***************************************************************************)
EXTENDS Naturals, Sequences, SequencesExt

CONSTANTS Boxes, Readers, Letters, Size, None

VARIABLES
    stage,    \* of a mailbox: "unborn", "open" or "closed"
    box,      \* the letters in it, oldest first
    joined,   \* the mailbox a reader reads, or None
    inbox,    \* the letters a reader took, oldest first
    verdict   \* of a reader: "waiting", "answered" or "nothing"

mailVars == <<stage, box, joined, inbox, verdict>>

Init ==
    /\ stage = [b \in Boxes |-> "unborn"]
    /\ box = [b \in Boxes |-> <<>>]
    /\ joined = [r \in Readers |-> None]
    /\ inbox = [r \in Readers |-> <<>>]
    /\ verdict = [r \in Readers |-> "waiting"]

Opens(b) == stage[b] = "unborn" /\ stage' = [stage EXCEPT ![b] = "open"]

Joins(r, b) == joined[r] = None /\ joined' = [joined EXCEPT ![r] = b]

\* For a peer's request, or for the reader that asks first.
Open(b) == Opens(b) /\ UNCHANGED <<box, joined, inbox, verdict>>

OpenAndJoin(r, b) ==
    Opens(b) /\ Joins(r, b) /\ UNCHANGED <<box, inbox, verdict>>

Join(r, b) ==
    /\ stage[b] = "open"
    /\ Joins(r, b)
    /\ UNCHANGED <<stage, box, inbox, verdict>>

\* Nobody was ever given this letter.
Fresh(letter) ==
    /\ \A b \in Boxes : \A i \in 1..Len(box[b]) : box[b][i].id # letter.id
    /\ \A r \in Readers : \A i \in 1..Len(inbox[r]) : inbox[r][i].id # letter.id

Deliver(b, letter) ==
    /\ stage[b] = "open"
    /\ Len(box[b]) < Size
    /\ Fresh(letter)
    /\ box' = [box EXCEPT ![b] = Append(@, letter)]
    /\ UNCHANGED <<stage, joined, inbox, verdict>>

Wants(r) ==
    /\ verdict[r] = "waiting"
    /\ inbox[r] = <<>> \/ Last(inbox[r]).kind = "trying"

Take(r, b) ==
    /\ joined[r] = b
    /\ Wants(r)
    /\ box[b] # <<>>
    /\ inbox' = [inbox EXCEPT ![r] = Append(@, Head(box[b]))]
    /\ box' = [box EXCEPT ![b] = Tail(@)]
    /\ UNCHANGED <<stage, joined, verdict>>

Answer(r) ==
    /\ verdict[r] = "waiting"
    /\ inbox[r] # <<>> /\ Last(inbox[r]).kind # "trying"
    /\ verdict' = [verdict EXCEPT ![r] = "answered"]
    /\ UNCHANGED <<stage, box, joined, inbox>>

Nothing(r, b) ==
    /\ joined[r] = b
    /\ Wants(r)
    /\ stage[b] = "closed" /\ box[b] = <<>>
    /\ verdict' = [verdict EXCEPT ![r] = "nothing"]
    /\ UNCHANGED <<stage, box, joined, inbox>>

\* What is in the mailbox stays there for its readers.
Close(b) ==
    /\ stage[b] = "open"
    /\ stage' = [stage EXCEPT ![b] = "closed"]
    /\ UNCHANGED <<box, joined, inbox, verdict>>

Next ==
    \/ \E b \in Boxes : Open(b) \/ Close(b)
    \/ \E b \in Boxes, letter \in Letters : Deliver(b, letter)
    \/ \E r \in Readers, b \in Boxes :
          OpenAndJoin(r, b) \/ Join(r, b) \/ Take(r, b) \/ Nothing(r, b)
    \/ \E r \in Readers : Answer(r)

Spec == Init /\ [][Next]_mailVars
==============================================================================
