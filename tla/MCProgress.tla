------------------------------- MODULE MCProgress -------------------------------
(***************************************************************************)
(* Whether everything that waits gets on: callers, listeners and watch     *)
(* goroutines of the transactions, and waiters, writers and the collector  *)
(* of the catalogs.  The two share no state, so that no interleaving of    *)
(* their steps matters: a behaviour is one of the transactions or one of   *)
(* the catalogs, and the fairness is that of their specifications.         *)
(***************************************************************************)
EXTENDS Transaction

CONSTANTS Devices, Items, Totals, CreateCap, MsgCap, MaxRuns, MaxWrites,
          NoContent, Millis, Waiters, Nobody

VARIABLES
    part,   \* which of the two it is
    data, createQ, msgQ, loop, todo, current, saved, runs, writes,
    handlers, wpc, wslot, token, chClosed, woken, npc, ndev, nslot, nhandler,
    start, left, visited, panicked, batches, before

catVars == <<data, createQ, msgQ, loop, todo, current, saved, runs, writes,
             handlers, wpc, wslot, token, chClosed, woken, npc, ndev, nslot,
             nhandler, start, left, visited, panicked, batches, before>>

Catalogs == INSTANCE Catalog WITH Keys <- Devices

OfTransactions(A) == part = "transactions" /\ A
OfCatalogs(A) == part = "catalogs" /\ A

MCInit ==
    /\ part \in {"transactions", "catalogs"}
    /\ Init
    /\ Catalogs!Init

MCNext ==
    \/ OfTransactions(Next) /\ UNCHANGED <<part, catVars>>
    \/ OfCatalogs(Catalogs!Next) /\ UNCHANGED <<part, vars>>

MCSpec ==
    /\ MCInit /\ [][MCNext]_<<part, vars, catVars>>
    /\ \A c \in Callers : WF_vars(OfTransactions(CallerStep(c)))
    /\ \A l \in Listeners : WF_vars(OfTransactions(ListenerStep(l)))
    /\ \A t \in Txs : WF_vars(OfTransactions(WatchStep(t)))
    /\ \A w \in Waiters : WF_catVars(OfCatalogs(Catalogs!WaiterGoes(w)))
    /\ \A d \in Devices : WF_catVars(OfCatalogs(Catalogs!TimePasses(d)))
    /\ SF_catVars(OfCatalogs(Catalogs!Collect))
    /\ WF_catVars(OfCatalogs(Catalogs!LoopGoes))

\* A catalog that stops growing is saved even when it is not complete.
EveryKeySaved == Catalogs!EveryKeySaved

\* A Wait returns, notified or timed out.
WaitReturns == Catalogs!WaitReturns

\* A Write that finds msg full gets room.
WriterGetsRoom == Catalogs!WriterGetsRoom
=================================================================================
