--------------------------- MODULE SignallingProofs ----------------------------
(***************************************************************************)
(* Theorems about Signalling: the type invariants of both sides, that the  *)
(* library's route shadows the example's own, that a device that guesses   *)
(* the password never gets into the book, and that no registration is      *)
(* answered with 200 but one that had the password. The invariants behind  *)
(* them: IInv and ShapeInv (jobs, book and queries have their shape),      *)
(* SentInv (what is recorded as sent is what a device writes), CarryInv    *)
(* (as long as only forms of F were sent, only their lines are on the wire *)
(* and only their headers in the requests of the jobs), MethodInv (a       *)
(* request that is no REGISTER is nowhere near the handlers of REGISTER),  *)
(* OutInv (the requests of the platform, their texts and what the device   *)
(* reads of them are well-formed) and LetInv (a wire holds whole requests, *)
(* a job's request is the one the device sent under its number, and a text *)
(* read as an answer of status 200 was written for such a job).            *)
(***************************************************************************)
EXTENDS Signalling, DeviceProofs

-----------------------------------------------------------------------------
(* Routes *)

\* The handlers that a route may lead to, and those of RegisterHandlers' routes.
HandlerNames == {"gate", "register", "own", "message"}
LibraryHandlers == {<<"register">>, <<"message">>, <<>>}

\* AddRoute changes no route but its own.
LEMMA AddedRoute ==
    ASSUME NEW routes, NEW key, NEW handlers,
           NEW k \in DOMAIN AddRoute(routes, key, handlers)
    PROVE  \/ AddRoute(routes, key, handlers)[k] = handlers
           \/ k \in DOMAIN routes \ {key} /\ AddRoute(routes, key, handlers)[k] = routes[k]
  BY DEF AddRoute

\* RegisterHandlers leaves no route to REGISTER but its own.
LEMMA RegisteredRoute ==
    ASSUME NEW routes, NEW k \in DOMAIN RegisterHandlers(routes)
    PROVE  \/ RegisterHandlers(routes)[k] \in LibraryHandlers
           \/ /\ k \in DOMAIN routes \ {<<"REGISTER">>}
              /\ RegisterHandlers(routes)[k] = routes[k]
<1> DEFINE own == AddRoute(routes, <<"REGISTER">>, <<"register">>)
           messages == AddRoute(own, <<"MESSAGE">>, <<>>)
           methods == AddRoute(messages, <<"NOTIFY">>, <<>>)
<1>1. \/ RegisterHandlers(routes)[k] = <<"message">>
      \/ k \in DOMAIN methods /\ RegisterHandlers(routes)[k] = methods[k]
  <2> HIDE DEF methods
  <2>1. RegisterHandlers(routes) = [x \in DOMAIN methods \cup CommandKeys |->
            IF x \in CommandKeys THEN <<"message">> ELSE methods[x]]
    BY DEF RegisterHandlers, methods
  <2> QED
    BY <2>1
<1>2. k \in DOMAIN methods => \/ methods[k] = <<>>
                              \/ k \in DOMAIN messages /\ methods[k] = messages[k]
  BY AddedRoute
<1>3. k \in DOMAIN messages => \/ messages[k] = <<>>
                               \/ k \in DOMAIN own /\ messages[k] = own[k]
  BY AddedRoute
<1>4. k \in DOMAIN own => \/ own[k] = <<"register">>
                          \/ k \in DOMAIN routes \ {<<"REGISTER">>} /\ own[k] = routes[k]
  BY AddedRoute
<1> HIDE DEF own, messages, methods
<1> QED
  BY <1>1, <1>2, <1>3, <1>4 DEF LibraryHandlers

\* Routes lead to handlers, in the example gateway to those of the library.
LEMMA RoutesHandlers ==
    /\ \A key \in DOMAIN Routes : Routes[key] \in Seq(HandlerNames)
    /\ program = "example" => \A key \in DOMAIN Routes : Routes[key] \in LibraryHandlers
<1>1. \A h \in LibraryHandlers : h \in Seq(HandlerNames)
  <2>1. <<>> \in Seq(HandlerNames)
    BY EmptySeq
  <2>2. <<"register">> \in Seq(HandlerNames) /\ <<"message">> \in Seq(HandlerNames)
    BY DEF HandlerNames
  <2> QED
    BY <2>1, <2>2 DEF LibraryHandlers
<1>2. \A key \in DOMAIN RegisterHandlers(<<>>) : RegisterHandlers(<<>>)[key] \in LibraryHandlers
  BY RegisteredRoute
<1>3. CASE program = "example"
  <2> DEFINE first == AddRoute(<<>>, <<"REGISTER">>, <<"own">>)
  <2>1. \A key \in DOMAIN first : key = <<"REGISTER">>
    BY DEF AddRoute
  <2>2. Routes = RegisterHandlers(first)
    BY <1>3 DEF Routes
  <2> HIDE DEF first
  <2> QED
    BY <1>1, <2>1, <2>2, RegisteredRoute
<1>4. CASE program = "custom"
  <2> DEFINE last == AddRoute(RegisterHandlers(<<>>), <<"REGISTER">>, <<"gate", "own">>)
  <2>1. <<"gate", "own">> \in Seq(HandlerNames)
    BY DEF HandlerNames
  <2>2. \A key \in DOMAIN last :
            \/ last[key] = <<"gate", "own">>
            \/ key \in DOMAIN RegisterHandlers(<<>>) /\ last[key] = RegisterHandlers(<<>>)[key]
    BY AddedRoute
  <2>3. Routes = last
    BY <1>4 DEF Routes
  <2> HIDE DEF last
  <2> QED
    BY <1>1, <1>2, <1>4, <2>1, <2>2, <2>3
<1>5. CASE program # "example" /\ program # "custom"
  <2>1. Routes = RegisterHandlers(<<>>)
    BY <1>5 DEF Routes
  <2> QED
    BY <1>1, <1>2, <1>5, <2>1
<1> QED
  BY <1>3, <1>4, <1>5

-----------------------------------------------------------------------------
(* Jobs *)

JobStages == HandlerNames \cup {"reply", "probe", "done"}
StatusCodes == {200, 400, 401, 403, 405, 500}
\* R holds the requests, of which nothing needs to be known.  A job that is about
\* to answer has a status.
JobRecord(R) == [req : R, conn : Conns, index : Nat, status : {0} \cup StatusCodes,
                 stage : JobStages, handlers : Seq(HandlerNames),
                 then : {"next", "probe", "done"}]
Job(R) == {job \in JobRecord(R) : job.stage = "reply" => job.status \in StatusCodes}

\* It is not in a handler of the application's and will not come to one.
InLibrary(job) ==
    /\ job.stage \notin {"gate", "own", "probe"}
    /\ job.then # "probe"
    /\ job.status # 401
    /\ job.handlers \in LibraryHandlers

\* To go on to the next handler keeps a job in shape and in the library.
LEMMA NextJob ==
    ASSUME NEW R, NEW job \in Job(R)
    PROVE  Next(job) \in Job(R) /\ (InLibrary(job) => InLibrary(Next(job)))
<1> DEFINE index == job.index + 1
           stage == IF index > Len(job.handlers) THEN "done" ELSE job.handlers[index]
<1>1. job \in JobRecord(R) /\ job.handlers \in Seq(HandlerNames) /\ index \in Nat \ {0}
  BY DEF Job, JobRecord
<1>2. Len(job.handlers) \in Nat
      /\ \A i \in 1..Len(job.handlers) : job.handlers[i] \in HandlerNames
  BY <1>1, LenProperties, ElementOfSeq
<1>3. stage \in HandlerNames \cup {"done"}
  BY <1>1, <1>2
<1>4. job.handlers \in LibraryHandlers => stage \in {"register", "message", "done"}
  BY <1>1, <1>2 DEF LibraryHandlers
<1>5. Next(job) = [job EXCEPT !.index = index, !.stage = stage]
  BY DEF Next
<1> HIDE DEF index, stage
<1>6. Next(job) \in Job(R)
  <2>1. Next(job) \in JobRecord(R) /\ Next(job).stage = stage
    BY <1>1, <1>3, <1>5 DEF JobRecord, JobStages
  <2>2. stage # "reply"
    BY <1>3 DEF HandlerNames
  <2> QED
    BY <2>1, <2>2 DEF Job
<1>7. ASSUME InLibrary(job)
      PROVE  InLibrary(Next(job))
  <2>1. /\ Next(job).stage = stage /\ Next(job).then = job.then
        /\ Next(job).status = job.status /\ Next(job).handlers = job.handlers
    BY <1>1, <1>5 DEF JobRecord
  <2> QED
    BY <1>4, <1>7, <2>1 DEF InLibrary
<1> QED
  BY <1>6, <1>7

\* So does an answer, if it is none of the gate's.
LEMMA ReplyingJob ==
    ASSUME NEW R, NEW job \in Job(R), NEW status \in StatusCodes,
           NEW then \in {"next", "probe", "done"}
    PROVE  /\ Replying(job, status, then) \in Job(R)
           /\ InLibrary(job) /\ then # "probe" /\ status # 401
                => InLibrary(Replying(job, status, then))
  BY DEF Replying, Job, JobRecord, InLibrary, JobStages

\* A new goroutine has a job in shape, in the example gateway in the library.
LEMMA GoroutineJob ==
    ASSUME NEW R, NEW req \in R, NEW conn \in Conns, NEW key
    PROVE  /\ Goroutine(req, conn, key) \in Job(R)
           /\ program = "example" => InLibrary(Goroutine(req, conn, key))
<1> DEFINE handlers == IF key \in DOMAIN Routes THEN Routes[key] ELSE <<>>
           job == [req |-> req, conn |-> conn, index |-> 0, status |-> 0, stage |-> "done",
                   handlers |-> handlers, then |-> "done"]
<1>1. /\ handlers \in Seq(HandlerNames)
      /\ program = "example" => handlers \in LibraryHandlers
  BY RoutesHandlers, EmptySeq DEF LibraryHandlers
<1>2. Goroutine(req, conn, key) = IF key \in DOMAIN Routes THEN Next(job)
                                  ELSE Replying(job, 405, "done")
  BY DEF Goroutine
<1> HIDE DEF handlers
<1>3. job \in Job(R) /\ (program = "example" => InLibrary(job))
  BY <1>1 DEF Job, JobRecord, JobStages, InLibrary
<1>4. 405 \in StatusCodes
  BY DEF StatusCodes
<1> HIDE DEF job
<1> QED
  BY <1>2, <1>3, <1>4, NextJob, ReplyingJob

-----------------------------------------------------------------------------
(* The inductive invariant *)

JobsInv == \E R : jobs \in Seq(Job(R))
BookInv == \E C : book \in [known : BOOLEAN, online : BOOLEAN, catalogs : C]

\* In the example no job is in the application's REGISTER handler or on the way
\* to it, so that nothing is ever put in the record.
Shadowed ==
    program = "example" =>
        /\ \A j \in DOMAIN jobs : InLibrary(jobs[j])
        /\ ~book.known
        /\ "sent" \notin queries

IInv == JobsInv /\ BookInv /\ Shadowed

\* Which connections there are, and what became of the queries.
ShapeInv ==
    /\ program \in Programs /\ current \in Conns /\ down \in BOOLEAN
    /\ \A call \in DOMAIN txs : txs[call] \in Conns
    /\ queries \subseteq {"sent", "refused"}

\* Jobs of some requests are jobs of more requests.
LEMMA WiderJobs ==
    ASSUME NEW R, NEW T, R \subseteq T, jobs \in Seq(Job(R))
    PROVE  jobs \in Seq(Job(T))
<1>1. Job(R) \subseteq Job(T)
  BY DEF Job, JobRecord
<1> QED
  BY <1>1, SeqMonotonic

\* One job is replaced.
LEMMA SetJob ==
    ASSUME JobsInv, Shadowed, NEW R, jobs \in Seq(Job(R)), NEW j \in DOMAIN jobs,
           NEW job \in Job(R), program = "example" => InLibrary(job),
           jobs' = [jobs EXCEPT ![j] = job]
    PROVE  /\ JobsInv'
           /\ program = "example" => \A i \in DOMAIN jobs' : InLibrary(jobs'[i])
<1>1. jobs' \in Seq(Job(R))
  BY ExceptSeq
<1>2. DOMAIN jobs' = DOMAIN jobs /\ \A i \in DOMAIN jobs : jobs'[i] = IF i = j THEN job ELSE jobs[i]
  OBVIOUS
<1> HIDE DEF Job
<1> QED
  BY <1>1, <1>2 DEF JobsInv, Shadowed

-----------------------------------------------------------------------------
(* The steps *)

\* No jobs, no device and no query at the start.
LEMMA InitIInv == InInit => IInv
<1> SUFFICES ASSUME InInit PROVE IInv
  OBVIOUS
<1>1. JobsInv
  BY EmptySeq DEF InInit, JobsInv
<1>2. BookInv
  <2>1. book \in [known : BOOLEAN, online : BOOLEAN, catalogs : {<<>>}]
    BY DEF InInit
  <2> QED
    BY <2>1 DEF BookInv
<1>3. Shadowed
  BY DEF InInit, Shadowed
<1> QED
  BY <1>1, <1>2, <1>3 DEF IInv

\* Steps that move no job and change neither the book nor the queries.
LEMMA SilentSteps ==
    ASSUME IInv, UNCHANGED <<program, jobs, book, queries>>
    PROVE  IInv'
  BY DEF IInv, JobsInv, BookInv, Shadowed

\* A request is received, and its goroutine started.
LEMMA ReceiveStep ==
    ASSUME IInv, ShapeInv, NEW c \in Conns, NEW packet, NEW rest, Receive(c, packet, rest)
    PROVE  IInv'
<1>1. UNCHANGED <<program, book, queries>>
  BY DEF Receive
<1>2. CASE UNCHANGED jobs
  BY <1>1, <1>2, SilentSteps
<1>3. ASSUME NEW req, NEW conn \in Conns, NEW key, jobs' = Append(jobs, Goroutine(req, conn, key))
      PROVE  IInv'
  <2>1. PICK R : jobs \in Seq(Job(R))
    BY DEF IInv, JobsInv
  <2> DEFINE T == R \cup {req}
             job == Goroutine(req, conn, key)
  <2>2. jobs \in Seq(Job(T))
    BY <2>1, WiderJobs
  <2>3. job \in Job(T) /\ (program = "example" => InLibrary(job))
    BY GoroutineJob
  <2>4. jobs' = Append(jobs, job)
    BY <1>3
  <2> HIDE DEF T, job, Job
  <2>5. /\ jobs' \in Seq(Job(T))
        /\ \A j \in DOMAIN jobs' : jobs'[j] = job \/ (j \in DOMAIN jobs /\ jobs'[j] = jobs[j])
    BY <2>2, <2>3, <2>4, AppendProperties, LenProperties
  <2> QED
    BY <1>1, <2>3, <2>5 DEF IInv, JobsInv, BookInv, Shadowed
<1>4. \A call : Connection(c, call) \in Conns
  BY DEF Connection, ShapeInv
<1> QED
  BY <1>2, <1>3, <1>4 DEF Receive, Listen, Dispatch

\* A step of a job that leaves what the record says of the device.
LEMMA JobStep ==
    ASSUME IInv, NEW j \in DOMAIN jobs, NEW job, NEW record, Step(j, job, record),
           \A R : jobs[j] \in Job(R) => job \in Job(R),
           InLibrary(jobs[j]) /\ program = "example" => InLibrary(job),
           \E C : record \in [known : BOOLEAN, online : BOOLEAN, catalogs : C],
           program = "example" => record.known = book.known
    PROVE  IInv'
<1>1. PICK R : jobs \in Seq(Job(R))
  BY DEF IInv, JobsInv
<1>2. jobs[j] \in Job(R)
  BY <1>1, LenProperties, ElementOfSeq
<1>3. job \in Job(R) /\ (program = "example" => InLibrary(job))
  BY <1>2 DEF IInv, Shadowed
<1>4. jobs' = [jobs EXCEPT ![j] = job] /\ book' = record /\ UNCHANGED <<program, queries>>
  BY DEF Step
<1>5. JobsInv' /\ (program = "example" => \A i \in DOMAIN jobs' : InLibrary(jobs'[i]))
  BY <1>1, <1>3, <1>4, SetJob DEF IInv
<1> QED
  BY <1>4, <1>5 DEF IInv, BookInv, Shadowed

\* What the invariant says of one job.
LEMMA JobOf ==
    ASSUME IInv, NEW j \in DOMAIN jobs
    PROVE  /\ \E R : jobs[j] \in Job(R)
           /\ program = "example" => InLibrary(jobs[j])
<1>1. PICK R : jobs \in Seq(Job(R))
  BY DEF IInv, JobsInv
<1>2. jobs[j] \in Job(R)
  BY <1>1, LenProperties, ElementOfSeq
<1> QED
  BY <1>2 DEF IInv, Shadowed

\* The gate's handler.
LEMMA GateStep ==
    ASSUME IInv, NEW j \in DOMAIN jobs, Gate(j)
    PROVE  IInv'
<1>1. jobs[j].stage = "gate"
  BY DEF Gate, At
<1>2. program # "example"
  BY <1>1, JobOf DEF InLibrary
<1> DEFINE aborted == [jobs[j] EXCEPT !.index = AbortIndex]
<1>3. \A R : jobs[j] \in Job(R) => /\ Next(jobs[j]) \in Job(R)
                                   /\ Replying(aborted, 403, "next") \in Job(R)
  <2> SUFFICES ASSUME NEW R, jobs[j] \in Job(R)
               PROVE  Next(jobs[j]) \in Job(R) /\ Replying(aborted, 403, "next") \in Job(R)
    OBVIOUS
  <2>1. aborted \in Job(R)
    BY DEF Job, JobRecord, AbortIndex
  <2>2. 403 \in StatusCodes
    BY DEF StatusCodes
  <2> HIDE DEF aborted
  <2> QED
    BY <2>1, <2>2, NextJob, ReplyingJob
<1> HIDE DEF aborted
<1>4. \E C : book \in [known : BOOLEAN, online : BOOLEAN, catalogs : C]
  BY DEF IInv, BookInv
<1>5. CASE Authorization(jobs[j].req) = <<>>
  <2>1. Step(j, Replying(aborted, 403, "next"), book)
    BY <1>5 DEF Gate, aborted
  <2> QED
    BY <1>2, <1>3, <1>4, <2>1, JobStep
<1>6. CASE Authorization(jobs[j].req) # <<>>
  <2>1. Step(j, Next(jobs[j]), book)
    BY <1>6 DEF Gate
  <2> QED
    BY <1>2, <1>3, <1>4, <2>1, JobStep
<1> QED
  BY <1>5, <1>6

\* SipRegister's book is a book.
LEMMA SavedBook ==
    ASSUME IInv, NEW req
    PROVE  \E C : Saved(req) \in [known : BOOLEAN, online : BOOLEAN, catalogs : C]
<1>1. PICK C : book \in [known : BOOLEAN, online : BOOLEAN, catalogs : C]
  BY DEF IInv, BookInv
<1>2. Saved(req) \in [known : BOOLEAN, online : BOOLEAN, catalogs : C]
  BY <1>1 DEF Saved
<1> QED
  BY <1>2

\* Whatever a handler answers, the goroutine goes on to the answer.
LEMMA RepliesNext ==
    ASSUME IInv, NEW j \in DOMAIN jobs, NEW status \in StatusCodes, NEW record,
           Step(j, Replying(jobs[j], status, "next"), record),
           \E C : record \in [known : BOOLEAN, online : BOOLEAN, catalogs : C],
           program = "example" => record.known = book.known /\ status # 401
    PROVE  IInv'
<1>1. /\ \A R : jobs[j] \in Job(R) => Replying(jobs[j], status, "next") \in Job(R)
      /\ InLibrary(jobs[j]) /\ program = "example" => InLibrary(Replying(jobs[j], status, "next"))
  BY JobOf, ReplyingJob
<1> QED
  BY <1>1, JobStep

\* The library's handler of REGISTER.
LEMMA RegisterStep ==
    ASSUME IInv, NEW j \in DOMAIN jobs, Register(j)
    PROVE  IInv'
<1>1. PICK status \in {400, 401, 500, 200}, record \in {book, Saved(jobs[j].req)} :
          /\ Step(j, Replying(jobs[j], status, "next"), record)
          /\ program # "hooks" => record = book /\ status = 200
  BY DEF Register
<1>2. \E C : record \in [known : BOOLEAN, online : BOOLEAN, catalogs : C]
  BY SavedBook DEF IInv, BookInv
<1>3. status \in StatusCodes
  BY DEF StatusCodes
<1> QED
  BY <1>1, <1>2, <1>3, RepliesNext

\* The gateway's handler of REGISTER.
LEMMA SipRegisterStep ==
    ASSUME IInv, NEW j \in DOMAIN jobs, SipRegister(j)
    PROVE  IInv'
<1>1. program # "example"
  BY JobOf DEF SipRegister, At, InLibrary
<1>2. PICK status \in {400, 401, 200}, then \in {"next", "probe"},
          record \in {book, Saved(jobs[j].req)} :
          Step(j, Replying(jobs[j], status, then), record)
  BY DEF SipRegister
<1>3. \E C : record \in [known : BOOLEAN, online : BOOLEAN, catalogs : C]
  BY SavedBook DEF IInv, BookInv
<1>4. \A R : jobs[j] \in Job(R) => Replying(jobs[j], status, then) \in Job(R)
  BY ReplyingJob DEF StatusCodes
<1> QED
  BY <1>1, <1>2, <1>3, <1>4, JobStep

\* The handler of messages.
LEMMA HandleStep ==
    ASSUME IInv, NEW j \in DOMAIN jobs, Handle(j)
    PROVE  IInv'
<1>1. PICK C : book \in [known : BOOLEAN, online : BOOLEAN, catalogs : C]
  BY DEF IInv, BookInv
<1>2. ASSUME NEW v, NEW call
      PROVE  /\ Told(v, call).known = book.known
             /\ \E D : Told(v, call) \in [known : BOOLEAN, online : BOOLEAN, catalogs : D]
  <2> DEFINE more == Append(book.catalogs, [call |-> call, items |-> v.Item])
  <2>1. \/ Told(v, call) = [book EXCEPT !.catalogs = more]
        \/ Told(v, call) = [book EXCEPT !.online = @ \/ (book.known /\ ~Tcp)]
        \/ Told(v, call) = book
    BY DEF Told
  <2> HIDE DEF more
  <2> DEFINE D == C \cup {more}
  <2>2. Told(v, call) \in [known : BOOLEAN, online : BOOLEAN, catalogs : D]
    BY <1>1, <2>1
  <2>3. Told(v, call).known = book.known
    BY <1>1, <2>1
  <2> QED
    BY <2>2, <2>3
<1>3. PICK status \in {200, 400, 500} : \E record :
          /\ Step(j, Replying(jobs[j], status, "next"), record)
          /\ record = book \/ \E v, call : record = Told(v, call)
  BY DEF Handle
<1>4. PICK record :
          /\ Step(j, Replying(jobs[j], status, "next"), record)
          /\ record = book \/ \E v, call : record = Told(v, call)
  BY <1>3
<1>5. /\ record.known = book.known
      /\ \E D : record \in [known : BOOLEAN, online : BOOLEAN, catalogs : D]
  BY <1>1, <1>2, <1>4
<1>6. status \in StatusCodes
  BY DEF StatusCodes
<1> QED
  BY <1>4, <1>5, <1>6, RepliesNext

\* An answer is written.
LEMMA ReplyStep ==
    ASSUME IInv, NEW j \in DOMAIN jobs, Reply(j)
    PROVE  IInv'
<1> DEFINE made == NewResponseFromRequest(jobs[j].req, jobs[j].status, Reasons[jobs[j].status],
                                          ServerTag(j))
           asked == made.request
           after == [jobs[j] EXCEPT !.req = asked]
           job == IF jobs[j].then = "next" THEN Next(after)
                  ELSE [after EXCEPT !.stage = jobs[j].then]
<1>1. UNCHANGED <<program, book, queries>>
  BY DEF Reply
<1>2. \/ UNCHANGED jobs
      \/ jobs' = [jobs EXCEPT ![j] = job]
  BY DEF Reply
<1>3. CASE UNCHANGED jobs
  BY <1>1, <1>3, SilentSteps
<1>4. CASE jobs' = [jobs EXCEPT ![j] = job]
  <2>1. PICK R : jobs \in Seq(Job(R))
    BY DEF IInv, JobsInv
  <2> DEFINE T == R \cup {asked}
  <2> HIDE DEF asked
  <2>2. jobs \in Seq(Job(T))
    BY <2>1, WiderJobs
  <2>3. jobs[j] \in Job(T)
    BY <2>2, LenProperties, ElementOfSeq
  <2>4. after \in Job(T) /\ (InLibrary(jobs[j]) => InLibrary(after))
    <3>1. asked \in T
      OBVIOUS
    <3> HIDE DEF T
    <3> QED
      BY <2>3, <3>1 DEF Job, JobRecord, InLibrary
  <2>5. jobs[j].then \in {"next", "probe", "done"}
    BY <2>3 DEF Job, JobRecord
  <2> HIDE DEF T, after
  <2>6. job \in Job(T) /\ (InLibrary(jobs[j]) => InLibrary(job))
    <3>1. CASE jobs[j].then = "next"
      BY <2>4, <3>1, NextJob
    <3>2. CASE jobs[j].then # "next"
      <4>1. [after EXCEPT !.stage = jobs[j].then] \in Job(T)
        BY <2>4, <2>5, <3>2 DEF Job, JobRecord, JobStages
      <4>2. InLibrary(jobs[j]) => InLibrary([after EXCEPT !.stage = jobs[j].then])
        BY <2>4, <2>5, <3>2 DEF InLibrary, Job, JobRecord
      <4> QED
        BY <3>2, <4>1, <4>2
    <3> QED
      BY <3>1, <3>2
  <2> HIDE DEF job
  <2>7. JobsInv' /\ (program = "example" => \A i \in DOMAIN jobs' : InLibrary(jobs'[i]))
    <3>1. program = "example" => InLibrary(job)
      BY <2>6, JobOf
    <3> QED
      BY <1>4, <2>2, <2>6, <3>1, SetJob DEF IInv
  <2> QED
    BY <1>1, <2>7 DEF IInv, BookInv, Shadowed
<1> QED
  BY <1>2, <1>3, <1>4

\* The gateway asks a new device for its catalog.
LEMMA ProbeStep ==
    ASSUME IInv, NEW j \in DOMAIN jobs, ProbeDevice(j)
    PROVE  IInv'
<1>1. program # "example"
  BY JobOf DEF ProbeDevice, At, InLibrary
<1>2. PICK R : jobs \in Seq(Job(R))
  BY DEF IInv, JobsInv
<1>3. Next(jobs[j]) \in Job(R)
  BY <1>2, NextJob, LenProperties, ElementOfSeq
<1>4. jobs' = [jobs EXCEPT ![j] = Next(jobs[j])] /\ UNCHANGED <<program, book>>
  BY DEF ProbeDevice
<1>5. JobsInv'
  BY <1>1, <1>2, <1>3, <1>4, SetJob DEF IInv
<1> QED
  BY <1>1, <1>4, <1>5 DEF IInv, BookInv, Shadowed

\* The operator asks for the catalog of a device.
LEMMA OperatorStep ==
    ASSUME IInv, OperatorAsks
    PROVE  IInv'
<1>1. UNCHANGED <<program, jobs, book>>
  BY DEF OperatorAsks
<1>2. program = "example" => "sent" \notin queries'
  BY DEF OperatorAsks, Query, IInv, Shadowed
<1> QED
  BY <1>1, <1>2 DEF IInv, JobsInv, BookInv, Shadowed

\* Every step keeps the invariant.
LEMMA NextIInv ==
    ASSUME IInv, ShapeInv, [SigNext]_sigvars
    PROVE  IInv'
<1>1. CASE DeviceSends \/ DeviceRetries \/ DeviceReconnects \/ TxExpires
  <2>1. UNCHANGED <<program, jobs, book, queries>>
    BY <1>1 DEF DeviceSends, DeviceRetries, DeviceReconnects, TxExpires, Write
  <2> QED
    BY <2>1, SilentSteps
<1>2. CASE OperatorAsks
  BY <1>2, OperatorStep
<1>3. CASE (\E c \in Conns : ReadFrame(c)) \/ ReadDatagram
  <2>1. PICK c \in Conns : \E packet, rest : Receive(c, packet, rest)
    BY <1>3 DEF ReadFrame, ReadDatagram, Conns
  <2>2. PICK packet, rest : Receive(c, packet, rest)
    BY <2>1
  <2> QED
    BY <2>2, ReceiveStep
<1>4. ASSUME NEW j \in DOMAIN jobs,
             Gate(j) \/ Register(j) \/ SipRegister(j) \/ Handle(j) \/ Reply(j) \/ ProbeDevice(j)
      PROVE  IInv'
  BY <1>4, GateStep, RegisterStep, SipRegisterStep, HandleStep, ReplyStep, ProbeStep
<1>5. CASE PlatformTalks \/ UNCHANGED sigvars
  <2>1. UNCHANGED <<program, jobs, book, queries>>
    BY <1>5 DEF PlatformTalks, invars, sigvars
  <2> QED
    BY <2>1, SilentSteps
<1> QED
  BY <1>1, <1>2, <1>3, <1>4, <1>5 DEF SigNext, DeviceTalks, InNext, Goroutines

\* The rest of the state at the start.
LEMMA InitShape == InInit => ShapeInv
<1> SUFFICES ASSUME InInit PROVE ShapeInv
  OBVIOUS
<1>1. DOMAIN txs = {}
  BY DEF InInit
<1>2. program \in Programs /\ current \in Conns /\ down \in BOOLEAN
  BY DEF InInit, Conns
<1>3. queries \subseteq {"sent", "refused"}
  BY DEF InInit
<1> QED
  BY <1>1, <1>2, <1>3 DEF ShapeInv

\* A request received keeps the rest of the state in shape.
LEMMA ReceiveShape ==
    ASSUME ShapeInv, NEW c \in Conns, NEW packet, NEW rest, Receive(c, packet, rest)
    PROVE  ShapeInv'
<1>1. UNCHANGED <<program, current, down, queries>>
  BY DEF Receive
<1>2. \A call : Connection(c, call) \in Conns
  BY DEF Connection, ShapeInv
<1>3. CASE UNCHANGED txs
  BY <1>1, <1>3 DEF ShapeInv
<1>4. ASSUME NEW key, NEW conn \in Conns, txs' = [k \in DOMAIN txs
            \cup {key} |-> IF k = key THEN conn ELSE txs[k]]
      PROVE  ShapeInv'
  <2>1. \A call \in DOMAIN txs' :
            \/ txs'[call] = conn
            \/ call \in DOMAIN txs /\ txs'[call] = txs[call]
    BY <1>4
  <2> QED
    BY <1>1, <2>1 DEF ShapeInv
<1> QED
  BY <1>2, <1>3, <1>4 DEF Receive, Listen, Dispatch

\* Every step keeps it in shape.
LEMMA NextShape ==
    ASSUME ShapeInv, [SigNext]_sigvars
    PROVE  ShapeInv'
<1>1. CASE DeviceSends \/ DeviceRetries
  BY <1>1 DEF DeviceSends, DeviceRetries, Write, ShapeInv
<1>2. CASE DeviceReconnects
  BY <1>2 DEF DeviceReconnects, ShapeInv, Conns
<1>3. CASE TxExpires
  BY <1>3 DEF TxExpires, Restrict, ShapeInv
<1>4. CASE OperatorAsks
  BY <1>4 DEF OperatorAsks, Query, ShapeInv
<1>5. CASE (\E c \in Conns : ReadFrame(c)) \/ ReadDatagram
  <2>1. PICK c \in Conns : \E packet, rest : Receive(c, packet, rest)
    BY <1>5 DEF ReadFrame, ReadDatagram, Conns
  <2>2. PICK packet, rest : Receive(c, packet, rest)
    BY <2>1
  <2> QED
    BY <2>2, ReceiveShape
<1>6. ASSUME NEW j \in DOMAIN jobs, Gate(j) \/ Register(j) \/ SipRegister(j) \/ Handle(j)
      PROVE  ShapeInv'
  <2>1. UNCHANGED <<program, current, down, txs, queries>>
    BY <1>6 DEF Gate, Register, SipRegister, Handle, Step
  <2> QED
    BY <2>1 DEF ShapeInv
<1>7. ASSUME NEW j \in DOMAIN jobs, Reply(j)
      PROVE  ShapeInv'
  <2>1. UNCHANGED <<program, current, txs, queries>> /\ (down' = TRUE \/ UNCHANGED down)
    BY <1>7 DEF Reply
  <2> QED
    BY <2>1 DEF ShapeInv
<1>8. ASSUME NEW j \in DOMAIN jobs, ProbeDevice(j)
      PROVE  ShapeInv'
  BY <1>8 DEF ProbeDevice, Query, ShapeInv
<1>9. CASE PlatformTalks \/ UNCHANGED sigvars
  BY <1>9 DEF PlatformTalks, invars, sigvars, ShapeInv
<1> QED
  BY <1>1, <1>2, <1>3, <1>4, <1>5, <1>6, <1>7, <1>8, <1>9
        DEF SigNext, DeviceTalks, InNext, Goroutines

\* RegisterHandlers replaces the route of REGISTER that the example registered
\* before it (example.go:308, 309): its gateway knows no device, no query leaves
\* the platform and nobody is asked for the password.
ShadowedRoute ==
    program = "example" =>
        /\ ~book.known /\ "sent" \notin queries
        /\ \A j \in DOMAIN jobs : jobs[j].status # 401

\* The example never reaches its own REGISTER handler, whatever a device sends,
\* however often and in whatever order it is handled. README.md:13 and 24 and the
\* head of example.go promise the Digest and the queries of that handler.
THEOREM RouteIsShadowed == SigSpec => []ShadowedRoute
<1>1. SigInit => IInv /\ ShapeInv
  BY InitIInv, InitShape DEF SigInit
<1>2. IInv /\ ShapeInv /\ [SigNext]_sigvars => IInv' /\ ShapeInv'
  BY NextIInv, NextShape
<1>3. IInv => ShadowedRoute
  BY DEF IInv, Shadowed, InLibrary, ShadowedRoute
<1> QED
  BY <1>1, <1>2, <1>3, PTL DEF SigSpec

-----------------------------------------------------------------------------
(* What was sent *)

\* What the device writes, as its n-th request for some n.
SentRecords ==
    {s \in [form : Forms, lines : {DeviceLines(form, k) : form \in Forms, k \in 1..MaxSent},
            conn : Conns, early : BOOLEAN] :
        \E k \in 1..MaxSent : s.lines = DeviceLines(s.form, k)}
SentInv == sent \in Seq(SentRecords) /\ Len(sent) <= MaxSent

\* A device writes a start line at least.
LEMMA LinesNotEmpty ==
    ASSUME NEW form, NEW n
    PROVE  DeviceLines(form, n) # <<>>
  BY DEF DeviceLines

\* What is written is recorded in shape.
LEMMA WriteSent ==
    ASSUME SentInv, ShapeInv, NEW form \in Forms, NEW lines, NEW k \in 1..MaxSent,
           lines = DeviceLines(form, k), Len(sent) < MaxSent, Write(form, lines)
    PROVE  SentInv'
<1> DEFINE early == \E n \in DOMAIN sent : IsRegistration(n) /\ ~Answered(n)
           s == [form |-> form, lines |-> lines, conn |-> current, early |-> early]
<1>1. early \in BOOLEAN
  OBVIOUS
<1>2. sent' = Append(sent, s)
  BY DEF Write
<1> HIDE DEF early
<1>3. s \in SentRecords
  BY <1>1 DEF SentRecords, ShapeInv
<1> HIDE DEF s
<1>4. sent \in Seq(SentRecords) /\ Len(sent) \in Nat
  BY DEF SentInv
<1>5. sent' \in Seq(SentRecords) /\ Len(sent') = Len(sent) + 1
  BY <1>2, <1>3, <1>4
<1> QED
  BY <1>4, <1>5, SignallingAssumption DEF SentInv

\* Nothing is sent at the start.
LEMMA InitSent == InInit => SentInv
<1>1. <<>> \in Seq(SentRecords) /\ Len(<<>>) = 0
  OBVIOUS
<1> QED
  BY <1>1, SignallingAssumption DEF InInit, SentInv

\* Every step keeps the record of what was sent.
LEMMA NextSent ==
    ASSUME SentInv, ShapeInv, [SigNext]_sigvars
    PROVE  SentInv'
<1>0. sent \in Seq(SentRecords) /\ Len(sent) \in Nat /\ MaxSent \in Nat
  BY SignallingAssumption DEF SentInv
<1>1. CASE DeviceSends
  <2>1. Len(sent) < MaxSent /\ Len(sent) + 1 \in 1..MaxSent
    BY <1>0, <1>1 DEF DeviceSends
  <2>2. PICK form \in Forms : Write(form, DeviceLines(form, Len(sent) + 1))
    BY <1>1 DEF DeviceSends
  <2> QED
    BY <2>1, <2>2, WriteSent
<1>2. CASE DeviceRetries
  <2>1. sent # <<>> /\ Len(sent) < MaxSent /\ Write(sent[Len(sent)].form, sent[Len(sent)].lines)
    BY <1>2 DEF DeviceRetries, Last
  <2>2. sent[Len(sent)] \in SentRecords
    BY <1>0, <2>1
  <2>3. PICK k \in 1..MaxSent : sent[Len(sent)].lines = DeviceLines(sent[Len(sent)].form, k)
    BY <2>2 DEF SentRecords
  <2>4. sent[Len(sent)].form \in Forms
    BY <2>2 DEF SentRecords
  <2> QED
    BY <2>1, <2>3, <2>4, WriteSent
<1>3. CASE UNCHANGED sent
  BY <1>3 DEF SentInv
<1>4. CASE DeviceReconnects \/ TxExpires \/ OperatorAsks
  <2>1. UNCHANGED sent
    BY <1>4 DEF DeviceReconnects, TxExpires, OperatorAsks
  <2> QED
    BY <1>3, <2>1
<1>5. CASE (\E c \in Conns : ReadFrame(c)) \/ ReadDatagram
  <2>1. UNCHANGED sent
    BY <1>5 DEF ReadFrame, ReadDatagram, Receive
  <2> QED
    BY <1>3, <2>1
<1>6. ASSUME NEW j \in DOMAIN jobs,
             Gate(j) \/ Register(j) \/ SipRegister(j) \/ Handle(j) \/ Reply(j) \/ ProbeDevice(j)
      PROVE  SentInv'
  <2>1. UNCHANGED sent
    BY <1>6 DEF Gate, Register, SipRegister, Handle, Step, Reply, ProbeDevice
  <2> QED
    BY <1>3, <2>1
<1>7. CASE PlatformTalks \/ UNCHANGED sigvars
  <2>1. UNCHANGED sent
    BY <1>7 DEF PlatformTalks, invars, sigvars
  <2> QED
    BY <1>3, <2>1
<1> QED
  BY <1>1, <1>2, <1>4, <1>5, <1>6, <1>7 DEF SigNext, DeviceTalks, InNext, Goroutines

\* The three invariants give the type invariant of Inbound.
LEMMA ShapesTyped == IInv /\ ShapeInv /\ SentInv => InTypeOK
<1> SUFFICES ASSUME IInv, ShapeInv, SentInv PROVE InTypeOK
  OBVIOUS
<1>1. ASSUME NEW n \in DOMAIN sent
      PROVE  sent[n].conn \in Conns /\ sent[n].lines # <<>>
  <2>1. sent[n] \in SentRecords
    BY DEF SentInv
  <2>2. sent[n].conn \in Conns /\ \E k : sent[n].lines = DeviceLines(sent[n].form, k)
    BY <2>1 DEF SentRecords
  <2> QED
    BY <2>2, LinesNotEmpty
<1>2. ASSUME NEW j \in DOMAIN jobs
      PROVE  /\ jobs[j].conn \in Conns
             /\ jobs[j].stage \in {"gate", "register", "own", "message", "reply", "probe", "done"}
             /\ jobs[j].stage = "reply" => jobs[j].status \in DOMAIN Reasons
  <2>1. PICK R : jobs[j] \in Job(R)
    BY JobOf
  <2>2. DOMAIN Reasons = StatusCodes
    BY DEF Reasons, StatusCodes
  <2> QED
    BY <2>1, <2>2 DEF Job, JobRecord, JobStages, HandlerNames
<1>3. book.known \in BOOLEAN /\ book.online \in BOOLEAN
  BY DEF IInv, BookInv
<1>4. Len(sent) <= MaxSent
  BY DEF SentInv
<1> QED
  BY <1>1, <1>2, <1>3, <1>4 DEF InTypeOK, ShapeInv

\* What is on the device's side of the wire and on the platform's is always of the
\* shape that the handlers read: no goroutine is ever about to answer without a
\* status, and none is in a stage that no handler runs.
THEOREM InboundTyped == SigSpec => []InTypeOK
<1>1. SigInit => IInv /\ ShapeInv /\ SentInv
  BY InitIInv, InitShape, InitSent DEF SigInit
<1>2. IInv /\ ShapeInv /\ SentInv /\ [SigNext]_sigvars => IInv' /\ ShapeInv' /\ SentInv'
  BY NextIInv, NextShape, NextSent
<1>3. IInv /\ ShapeInv /\ SentInv => InTypeOK
  BY ShapesTyped
<1> QED
  BY <1>1, <1>2, <1>3, PTL DEF SigSpec

-----------------------------------------------------------------------------
(* The framing *)

\* A packet ends within what has arrived.
LEMMA PacketEndIn ==
    ASSUME NEW T, NEW lines \in Seq(T)
    PROVE  PacketEnd(lines) \in 0..Len(lines)
<1> DEFINE len == Len(lines)
           isStop(i) == \/ lines[i] = <<>>
                        \/ NamesLength(lines[i]) /\ ~IsNumber(LengthText(lines[i]))
           stops == {i \in DOMAIN lines : isStop(i)}
           stop == Min(stops)
           lengths == {i \in 1..(stop - 1) : NamesLength(lines[i])}
           bodyLen == IF lines[stop] # <<>> \/ lengths = {} THEN 0
                      ELSE NumberOf(LengthText(lines[Max(lengths)]))
           end == PacketEnd(lines)
<1>1. end = IF stops = {} \/ stop + bodyLen > len THEN 0 ELSE stop + bodyLen
  BY DEF PacketEnd
<1>2. DOMAIN lines = 1..len /\ len \in Nat
  OBVIOUS
<1> HIDE DEF isStop, end
<1>3. ASSUME stops # {}
      PROVE  stop \in 1..len /\ bodyLen \in Nat
  <2>1. stops \in SUBSET Nat
    BY <1>2
  <2>2. stop \in stops /\ \A y \in stops : stop <= y
    <3> HIDE DEF stops
    <3> QED
      BY <1>3, <2>1, MinIn
  <2>3. stop \in 1..len
    BY <1>2, <2>2
  <2>4. \A i \in 1..(stop - 1) : ~isStop(i)
    <3>1. ASSUME NEW i \in 1..(stop - 1), isStop(i)
          PROVE  FALSE
      <4> HIDE DEF stop
      <4>1. i \in DOMAIN lines
        BY <1>2, <2>3
      <4>2. i \in stops
        BY <3>1, <4>1
      <4> HIDE DEF stops
      <4>3. stop <= i
        BY <2>2, <4>2
      <4> QED
        BY <2>3, <4>3
    <3> QED
      BY <3>1
  <2> HIDE DEF stop, stops
  <2>5. ASSUME lengths # {}
        PROVE  NumberOf(LengthText(lines[Max(lengths)])) \in Nat
    <3>1. lengths \in SUBSET (0..(stop - 1)) /\ stop - 1 \in Nat
      BY <2>3
    <3>2. Max(lengths) \in lengths
      <4> DEFINE N == stop - 1
      <4>1. N \in Nat /\ lengths \in SUBSET (0..N)
        BY <3>1
      <4> HIDE DEF lengths, N
      <4> QED
        BY <2>5, <4>1, MaxIn
    <3> DEFINE i == Max(lengths)
    <3> HIDE DEF i
    <3>3. i \in 1..(stop - 1) /\ NamesLength(lines[i])
      BY <3>2 DEF i
    <3>4. IsNumber(LengthText(lines[i]))
      BY <2>4, <3>3 DEF isStop
    <3>5. NumberOf(LengthText(lines[i])) \in Numbers
      BY <3>4 DEF IsNumber, NumberOf
    <3> QED
      BY <3>5, SignallingAssumption DEF i
  <2> HIDE DEF lengths
  <2> QED
    BY <2>3, <2>5
<1> HIDE DEF stops, stop, bodyLen
<1>4. CASE stops = {} \/ stop + bodyLen > len
  BY <1>1, <1>2, <1>4 DEF end
<1>5. CASE stops # {} /\ ~(stop + bodyLen > len)
  BY <1>1, <1>2, <1>3, <1>5 DEF end
<1> QED
  BY <1>4, <1>5

-----------------------------------------------------------------------------
(* What the device's requests carry stays with them *)

FormsIn(F) == \A n \in DOMAIN sent : sent[n].form \in F
Chunks(F) == Seq(LinesOf(F)) \ {<<>>}
WireInv(F) == wire \in [Conns -> Seq(Chunks(F))]
RequestsInv(F) == \A j \in DOMAIN jobs : RequestOf(F, jobs[j].req)
\* As long as the device has sent only these forms, only their lines are on the
\* wire and only their headers in the requests that are being handled.
CarryInv(F) == FormsIn(F) => WireInv(F) /\ RequestsInv(F)

\* Nothing is on the wire at the start.
LEMMA InitCarry ==
    ASSUME NEW F, InInit
    PROVE  CarryInv(F)
<1> DEFINE C == Chunks(F)
<1>1. <<>> \in Seq(C)
  OBVIOUS
<1> HIDE DEF C
<1>2. [c \in Conns |-> <<>>] \in [Conns -> Seq(C)]
  BY <1>1
<1>3. DOMAIN jobs = {}
  BY DEF InInit
<1> QED
  BY <1>2, <1>3 DEF InInit, CarryInv, WireInv, RequestsInv, C

\* Steps that touch neither the wire nor the jobs.
LEMMA StillCarried ==
    ASSUME NEW F, CarryInv(F), UNCHANGED <<sent, wire, jobs>>
    PROVE  CarryInv(F)'
  BY DEF CarryInv, FormsIn, WireInv, RequestsInv

\* What a device writes are lines of its form.
LEMMA WriteCarry ==
    ASSUME NEW F \in SUBSET Forms, CarryInv(F), SentInv, ShapeInv, NEW form \in Forms, NEW lines,
           NEW k \in 1..MaxSent, lines = DeviceLines(form, k), Write(form, lines)
    PROVE  CarryInv(F)'
<1> SUFFICES ASSUME FormsIn(F)'
             PROVE  WireInv(F)' /\ RequestsInv(F)'
  BY DEF CarryInv
<1> DEFINE early == \E n \in DOMAIN sent : IsRegistration(n) /\ ~Answered(n)
           s == [form |-> form, lines |-> lines, conn |-> current, early |-> early]
<1>1. sent' = Append(sent, s)
  BY DEF Write
<1>2. s.form = form
  OBVIOUS
<1> HIDE DEF s
<1>3. sent \in Seq(SentRecords)
  BY DEF SentInv
<1>4. Len(sent) + 1 \in DOMAIN sent' /\ sent'[Len(sent) + 1] = s
  BY <1>1, <1>3, AppendProperties, LenProperties
<1>5. form \in F
  BY <1>2, <1>4 DEF FormsIn
<1>6. \A n \in DOMAIN sent : n \in DOMAIN sent' /\ sent'[n] = sent[n]
  BY <1>1, <1>3, AppendProperties, LenProperties
<1>7. FormsIn(F)
  BY <1>6 DEF FormsIn
<1>8. WireInv(F) /\ RequestsInv(F)
  BY <1>7 DEF CarryInv
<1>9. lines \in Chunks(F)
  BY <1>5, DeviceLinesIn DEF Chunks
<1>10. wire' = [wire EXCEPT ![current] = Append(@, lines)] /\ UNCHANGED jobs
  BY DEF Write
<1>11. current \in Conns
  BY DEF ShapeInv
<1>12. WireInv(F)'
  <2> DEFINE C == Chunks(F)
  <2> HIDE DEF C
  <2>1. wire \in [Conns -> Seq(C)] /\ lines \in C
    BY <1>8, <1>9 DEF WireInv, C
  <2>2. wire' \in [Conns -> Seq(C)]
    BY <1>10, <1>11, <2>1
  <2> QED
    BY <2>2 DEF WireInv, C
<1> QED
  BY <1>8, <1>10, <1>12 DEF RequestsInv

\* What ReadFrame and ReadDatagram hand to the parser, and what they leave.
LEMMA ReadParts ==
    ASSUME NEW F \in SUBSET Forms, WireInv(F),
           (\E c \in Conns : ReadFrame(c)) \/ ReadDatagram
    PROVE  \E c \in Conns, packet \in Chunks(F), rest \in Seq(Chunks(F)) : Receive(c, packet, rest)
<1> DEFINE L == LinesOf(F)
           C == Chunks(F)
<1>0. wire \in [Conns -> Seq(C)] /\ C = Seq(L) \ {<<>>}
  BY DEF WireInv, Chunks
<1> HIDE DEF L
<1>1. ASSUME NEW c \in Conns, ReadFrame(c)
      PROVE  \E packet \in C, rest \in Seq(C) : Receive(c, packet, rest)
  <2> DEFINE all == Arrived(c)
             end == PacketEnd(all)
             packet == Upto(all, end)
             rest == IF end = Len(all) THEN <<>> ELSE <<After(all, end)>>
  <2>1. end # 0 /\ Receive(c, packet, rest)
    BY <1>1 DEF ReadFrame
  <2>2. wire[c] \in Seq(Seq(L))
    <3>1. C \subseteq Seq(L)
      BY <1>0
    <3> HIDE DEF C
    <3>2. wire[c] \in Seq(C)
      BY <1>0
    <3> QED
      BY <3>1, <3>2, SeqMonotonic
  <2>3. all \in Seq(L)
    BY <2>2, FlatType DEF Arrived
  <2> HIDE DEF all
  <2>4. end \in 0..Len(all)
    BY <2>3, PacketEndIn
  <2> HIDE DEF end, C
  <2>5. /\ 1 \in 1..(Len(all) + 1) /\ end \in (1 - 1)..Len(all) /\ end - 1 + 1 = end
        /\ Len(all) \in Nat
    BY <2>3, <2>4
  <2>6. SubSeq(all, 1, end) \in Seq(L) /\ Len(SubSeq(all, 1, end)) = end
    BY <2>3, <2>5, SubType
  <2>7. packet = SubSeq(all, 1, end)
    BY DEF Upto
  <2>8. packet \in C
    <3> HIDE DEF packet
    <3>1. Len(packet) # 0
      BY <2>1, <2>6, <2>7
    <3>2. packet # <<>>
      BY <3>1
    <3> QED
      BY <1>0, <2>6, <2>7, <3>2
  <2>9. rest \in Seq(C)
    <3>1. CASE end = Len(all)
      <4>1. rest = <<>>
        BY <3>1
      <4> HIDE DEF rest
      <4> QED
        BY <4>1, EmptySeq
    <3>2. CASE end # Len(all)
      <4> DEFINE a == After(all, end)
      <4>1. rest = <<a>>
        BY <3>2
      <4>2. /\ end + 1 \in 1..(Len(all) + 1) /\ Len(all) \in ((end + 1) - 1)..Len(all)
            /\ Len(all) - (end + 1) + 1 # 0
        BY <2>4, <2>5, <3>2
      <4>3. a \in Seq(L) /\ Len(a) = Len(all) - (end + 1) + 1
        BY <2>3, <4>2, SubType DEF After
      <4> HIDE DEF a, rest
      <4>4. Len(a) # 0
        BY <4>2, <4>3
      <4>5. a # <<>>
        BY <4>4
      <4>6. a \in C
        BY <1>0, <4>3, <4>5
      <4> QED
        BY <4>1, <4>6, OneIn
    <3> QED
      BY <3>1, <3>2
  <2> HIDE DEF packet, rest
  <2> QED
    BY <2>1, <2>8, <2>9
<1>2. ASSUME ReadDatagram
      PROVE  \E c \in Conns, packet \in C, rest \in Seq(C) : Receive(c, packet, rest)
  <2> DEFINE w == wire[1]
  <2>1. PICK i \in DOMAIN w : Receive(1, w[i], RemoveAt(w, i))
    BY <1>2 DEF ReadDatagram
  <2> HIDE DEF C
  <2>2. w \in Seq(C)
    BY <1>0 DEF Conns
  <2> HIDE DEF w
  <2>3. i \in 1..Len(w) /\ Len(w) \in Nat /\ w[i] \in C
    BY <2>1, <2>2
  <2>4. /\ 1 \in 1..(Len(w) + 1) /\ i - 1 \in (1 - 1)..Len(w)
        /\ i + 1 \in 1..(Len(w) + 1) /\ Len(w) \in ((i + 1) - 1)..Len(w)
    BY <2>3
  <2>5. SubSeq(w, 1, i - 1) \in Seq(C)
    BY <2>2, <2>4, SubType
  <2>6. SubSeq(w, i + 1, Len(w)) \in Seq(C)
    BY <2>2, <2>4, SubType
  <2>7. RemoveAt(w, i) = SubSeq(w, 1, i - 1) \o SubSeq(w, i + 1, Len(w))
    BY DEF RemoveAt
  <2>8. RemoveAt(w, i) \in Seq(C)
    BY <2>5, <2>6, <2>7, CatType
  <2>9. 1 \in Conns
    BY DEF Conns
  <2> QED
    BY <2>1, <2>3, <2>8, <2>9
<1> QED
  BY <1>1, <1>2

\* A packet read leaves lines of F behind and its request carries headers of F.
LEMMA ReceiveCarry ==
    ASSUME NEW F \in SUBSET Forms, IInv, FormsIn(F), WireInv(F), RequestsInv(F),
           NEW c \in Conns, NEW packet \in Chunks(F), NEW rest \in Seq(Chunks(F)),
           Receive(c, packet, rest)
    PROVE  WireInv(F)' /\ RequestsInv(F)'
<1>1. WireInv(F)'
  <2> DEFINE C == Chunks(F)
  <2> HIDE DEF C
  <2>1. wire \in [Conns -> Seq(C)] /\ rest \in Seq(C)
    BY DEF WireInv, C
  <2>2. wire' = [wire EXCEPT ![c] = rest]
    BY DEF Receive
  <2> QED
    BY <2>1, <2>2 DEF WireInv, C
<1>2. packet \in Seq(LinesOf(F)) /\ packet # <<>>
  BY DEF Chunks
<1>3. CASE UNCHANGED jobs
  BY <1>1, <1>3 DEF RequestsInv
<1>4. ASSUME NEW req, RequestOf(F, req), NEW conn, NEW key,
            jobs' = Append(jobs, Goroutine(req, conn, key))
      PROVE  RequestsInv(F)'
  <2> DEFINE job == Goroutine(req, conn, key)
  <2>1. job.req = req
    BY DEF Goroutine, Next, Replying
  <2>2. PICK R : jobs \in Seq(Job(R))
    BY DEF IInv, JobsInv
  <2> DEFINE J == Job(R) \cup {job}
  <2>3. jobs' = Append(jobs, job)
    BY <1>4
  <2>4. jobs \in Seq(J)
    <3>1. Job(R) \subseteq J
      OBVIOUS
    <3> HIDE DEF J
    <3> QED
      BY <2>2, <3>1, SeqMonotonic
  <2>5. job \in J
    OBVIOUS
  <2> HIDE DEF job, J
  <2>6. \A j \in DOMAIN jobs' : jobs'[j] = job \/ (j \in DOMAIN jobs /\ jobs'[j] = jobs[j])
    BY <2>3, <2>4, <2>5, AppendProperties, LenProperties
  <2> QED
    BY <1>4, <2>1, <2>6 DEF RequestsInv
<1> DEFINE msg == ParseMessage(packet)
<1>5. msg = Nil \/ \E req : msg = Some(req) /\ RequestOf(F, req)
  BY <1>2, PacketGives
<1>6. Listen(c, msg)
  BY DEF Receive
<1> HIDE DEF msg
<1>7. CASE msg = Nil
  BY <1>1, <1>3, <1>6, <1>7 DEF Listen
<1>8. ASSUME NEW req, msg = Some(req), RequestOf(F, req)
      PROVE  RequestsInv(F)'
  <2>1. msg[1] = req /\ msg # Nil
    BY <1>8 DEF Some, Nil
  <2>2. Dispatch(msg, CallIDOf(msg), Connection(c, CallIDOf(msg)))
    BY <1>6, <2>1 DEF Listen
  <2>3. UNCHANGED jobs \/ \E conn, key : jobs' = Append(jobs, Goroutine(req, conn, key))
    BY <2>1, <2>2 DEF Dispatch
  <2>4. UNCHANGED jobs => RequestsInv(F)'
    BY DEF RequestsInv
  <2> QED
    BY <1>4, <1>8, <2>3, <2>4
<1>9. RequestsInv(F)'
  BY <1>3, <1>5, <1>7, <1>8
<1> QED
  BY <1>1, <1>9

\* The To header y of an answer is that of its request or has the tag as well.
Retagged(h, y, tag) ==
    /\ h.kind = ToName /\ y.kind = ToName /\ IsHeader(y)
    /\ y = h \/ y = [h EXCEPT !.val.params[1] = Add(h.val.params[1], <<"tag">>, Some(tag))]

Tagged(to, tag) ==
    IF to = Nil \/ Has(to[1].val.params[1], <<"tag">>) THEN to
    ELSE [to EXCEPT ![1].val.params[1] = Add(to[1].val.params[1], <<"tag">>, Some(tag))]

\* The first To header of a request and what the answer makes of it.
LEMMA TaggedIs ==
    ASSUME NEW H, NEW headers \in Seq(Grouped(H)), \A h \in H : IsHeader(h), NEW tag, NEW to,
           to = FirstHeader(headers, ToName)
    PROVE  \/ to = Nil /\ Tagged(to, tag) = Nil
           \/ /\ to # Nil /\ GetHeaders(headers, ToName) # <<>>
              /\ \E h \in H : \E y : Tagged(to, tag) = <<y>> /\ Retagged(h, y, tag)
<1> DEFINE list == GetHeaders(headers, ToName)
           h == list[1]
           added == Add(to[1].val.params[1], <<"tag">>, Some(tag))
           tagged == Tagged(to, tag)
           y == tagged[1]
<1>1. to = IF list = <<>> \/ h.kind # ToName THEN Nil ELSE Some(h)
  BY DEF FirstHeader
<1>2. to = Nil => tagged = Nil
  BY DEF Tagged
<1>3. ASSUME to # Nil
      PROVE  list # <<>> /\ h \in H /\ tagged = <<y>> /\ Retagged(h, y, tag)
  <2>1. list # <<>> /\ h.kind = ToName /\ to = <<h>>
    BY <1>1, <1>3 DEF Some
  <2>2. list \in Seq(Named(H, ToName))
    BY GroupedGet
  <2>3. h \in H
    <3>1. 1 \in 1..Len(list)
      BY <2>1, <2>2
    <3> HIDE DEF list
    <3>2. list[1] \in Named(H, ToName)
      BY <2>2, <3>1, ElementOfSeq
    <3> QED
      BY <3>2 DEF Named
  <2>4. h = [kind |-> h.kind, ptr |-> h.ptr, val |-> h.val]
    BY <2>3 DEF IsHeader
  <2>5. tagged = to \/ tagged = [to EXCEPT ![1].val.params[1] = added]
    BY DEF Tagged
  <2> HIDE DEF list, h, added, tagged
  <2>6. to[1] = h
    BY <2>1
  <2>7. tagged = <<y>> /\ (y = h \/ y = [h EXCEPT !.val.params[1] = added])
    BY <2>1, <2>5
  <2>8. y.kind = ToName /\ IsHeader(y)
    <3> HIDE DEF y
    <3>1. CASE y = h
      BY <2>1, <2>4, <3>1 DEF IsHeader
    <3>2. CASE y = [h EXCEPT !.val.params[1] = added]
      <4> DEFINE v == [h.val EXCEPT !.params[1] = added]
      <4>1. y = [kind |-> h.kind, ptr |-> h.ptr, val |-> v]
        BY <2>4, <3>2
      <4> HIDE DEF v
      <4> QED
        BY <2>1, <4>1 DEF IsHeader
    <3> QED
      BY <2>7, <3>1, <3>2
  <2>9. Retagged(h, y, tag)
    BY <2>1, <2>6, <2>7, <2>8 DEF Retagged, added
  <2> QED
    BY <2>1, <2>3, <2>7, <2>9
<1> HIDE DEF h, y, tagged
<1>4. to # Nil => list # <<>> /\ \E x \in H : \E z : tagged = <<z>> /\ Retagged(x, z, tag)
  BY <1>3
<1> HIDE DEF list
<1> QED
  BY <1>2, <1>4 DEF list, tagged

\* The answer leaves the request as it was but for its first To header.
LEMMA TaggedParts ==
    ASSUME NEW H, NEW req, IsReq(req), req.headers \in Seq(Grouped(H)), \A h \in H : IsHeader(h),
           NEW status, NEW reason, NEW tag,
           NEW asked, asked = NewResponseFromRequest(req, status, reason, tag).request
    PROVE  /\ IsReq(asked) /\ asked.method = req.method
           /\ \E T : /\ asked.headers \in Seq(Grouped(T))
                     /\ \A y \in T : y \in H \/ \E h \in H : Retagged(h, y, tag)
<1> DEFINE to == FirstHeader(req.headers, ToName)
           tagged == Tagged(to, tag)
<1>1. asked = IF to = Nil THEN req ELSE [req EXCEPT !.headers = ReplaceFirst(@, tagged[1])]
  BY DEF NewResponseFromRequest, ToName, Tagged
<1>2. CASE to = Nil
  <2>1. asked = req
    BY <1>1, <1>2
  <2> QED
    BY <2>1
<1>3. CASE to # Nil
  <2>1. GetHeaders(req.headers, ToName) # <<>>
    BY <1>3, TaggedIs
  <2>2. PICK h \in H : \E z : tagged = <<z>> /\ Retagged(h, z, tag)
    BY <1>3, TaggedIs
  <2>3. PICK x : tagged = <<x>> /\ Retagged(h, x, tag)
    BY <2>2
  <2> DEFINE T == H \cup {x}
             headers == ReplaceFirst(req.headers, x)
  <2>4. NameOf(x) = ToName
    BY <2>3, NamesDiffer DEF NameOf, Retagged
  <2>5. \A y \in T : y \in H \/ \E g \in H : Retagged(g, y, tag)
    BY <2>3
  <2>6. req.headers \in Seq(Grouped(T)) /\ x \in T
    <3>1. H \subseteq T /\ x \in T
      OBVIOUS
    <3> HIDE DEF T
    <3> QED
      BY <3>1, WiderGroups
  <2> HIDE DEF T
  <2>7. headers \in Seq(Grouped(T))
    BY <2>1, <2>4, <2>6, GroupedReplace
  <2>8. tagged[1] = x
    BY <2>3
  <2> HIDE DEF to, tagged
  <2>9. asked = [req EXCEPT !.headers = headers]
    BY <1>1, <1>3, <2>8
  <2> HIDE DEF headers
  <2>10. IsReq(asked) /\ asked.headers = headers /\ asked.method = req.method
    BY <2>9 DEF IsReq
  <2> QED
    BY <2>5, <2>7, <2>10
<1> QED
  BY <1>2, <1>3

\* What F carries stays what it was: a To header carries nothing of it.
LEMMA TaggedRequest ==
    ASSUME NEW F, NEW req, RequestOf(F, req), NEW status, NEW reason, NEW tag,
           NEW asked, asked = NewResponseFromRequest(req, status, reason, tag).request
    PROVE  RequestOf(F, asked) /\ asked.method = req.method
<1>1. IsReq(req) /\ CarriedBy(F, req.headers)
  BY DEF RequestOf
<1>2. PICK H : (\A x \in H : Carries(F, x)) /\ req.headers \in Seq(Grouped(H))
  BY <1>1 DEF CarriedBy
<1>3. \A x \in H : IsHeader(x)
  BY <1>2 DEF Carries
<1>4. IsReq(asked) /\ asked.method = req.method
  BY <1>1, <1>2, <1>3, TaggedParts
<1>5. PICK T : /\ asked.headers \in Seq(Grouped(T))
               /\ \A y \in T : y \in H \/ \E h \in H : Retagged(h, y, tag)
  BY <1>1, <1>2, <1>3, TaggedParts
<1>6. ASSUME NEW y \in T
      PROVE  Carries(F, y)
  <2>1. CASE y \in H
    BY <1>2, <2>1
  <2>2. ASSUME NEW h \in H, Retagged(h, y, tag)
        PROVE  Carries(F, y)
    <3>1. y.kind = ToName /\ IsHeader(y)
      BY <2>2 DEF Retagged
    <3>2. NameOf(y) = ToName
      BY <3>1, NamesDiffer DEF NameOf
    <3> QED
      BY <3>1, <3>2, NamesDiffer DEF Carries
  <2> QED
    BY <1>5, <2>1, <2>2
<1> QED
  BY <1>4, <1>5, <1>6 DEF RequestOf, CarriedBy

\* A step of a job that leaves its request.
LEMMA JobCarry ==
    ASSUME NEW F, IInv, RequestsInv(F), WireInv(F), NEW j \in DOMAIN jobs, NEW job,
           RequestOf(F, job.req), jobs' = [jobs EXCEPT ![j] = job], UNCHANGED wire
    PROVE  WireInv(F)' /\ RequestsInv(F)'
<1>1. DOMAIN jobs' = DOMAIN jobs /\ \A i \in DOMAIN jobs : jobs'[i] = IF i = j THEN job ELSE jobs[i]
  OBVIOUS
<1>2. RequestsInv(F)'
  BY <1>1 DEF RequestsInv
<1>3. WireInv(F)'
  BY DEF WireInv
<1> QED
  BY <1>2, <1>3

\* What a handler leaves of the request of its job.
LEMMA SameRequest ==
    ASSUME NEW R, NEW job \in Job(R)
    PROVE  /\ Next(job).req = job.req
           /\ \A status, then : Replying(job, status, then).req = job.req
           /\ \A status, then : Replying([job EXCEPT !.index = AbortIndex], status, then).req = job.req
  BY DEF Job, JobRecord, Next, Replying

\* What a handler makes of its job.
Moved(old, job) ==
    \/ job = Next(old)
    \/ \E status, then : job \in {Replying(old, status, then),
                                  Replying([old EXCEPT !.index = AbortIndex], status, then)}

\* A handler moves its own job only, keeps its request and leaves the wire alone.
LEMMA HandlerKeeps ==
    ASSUME IInv, NEW j \in DOMAIN jobs,
           Gate(j) \/ Register(j) \/ SipRegister(j) \/ Handle(j) \/ ProbeDevice(j)
    PROVE  \E job : /\ job.req = jobs[j].req /\ Moved(jobs[j], job)
                    /\ jobs' = [jobs EXCEPT ![j] = job] /\ UNCHANGED wire
<1>1. PICK R : jobs[j] \in Job(R)
  BY JobOf
<1> DEFINE old == jobs[j]
<1>2. /\ Next(old).req = old.req
      /\ \A status, then : Replying(old, status, then).req = old.req
      /\ \A status, then : Replying([old EXCEPT !.index = AbortIndex], status, then).req = old.req
  BY <1>1, SameRequest
<1>3. ASSUME NEW job, job.req = old.req, Moved(old, job), NEW record, Step(j, job, record)
      PROVE  \E x : /\ x.req = jobs[j].req /\ Moved(jobs[j], x)
                    /\ jobs' = [jobs EXCEPT ![j] = x] /\ UNCHANGED wire
  BY <1>3 DEF Step
<1>4. CASE Gate(j)
  <2>1. \/ Step(j, Next(old), book)
        \/ Step(j, Replying([old EXCEPT !.index = AbortIndex], 403, "next"), book)
    BY <1>4 DEF Gate
  <2>2. /\ Moved(old, Next(old))
        /\ Moved(old, Replying([old EXCEPT !.index = AbortIndex], 403, "next"))
    BY DEF Moved
  <2> QED
    BY <1>2, <1>3, <2>1, <2>2
<1>5. CASE Register(j) \/ SipRegister(j) \/ Handle(j)
  <2>1. \E status, then, record : Step(j, Replying(old, status, then), record)
    <3>1. CASE Register(j)
      BY <3>1 DEF Register
    <3>2. CASE SipRegister(j)
      BY <3>2 DEF SipRegister
    <3>3. CASE Handle(j)
      BY <3>3 DEF Handle
    <3> QED
      BY <1>5, <3>1, <3>2, <3>3
  <2>2. PICK status, then, record : Step(j, Replying(old, status, then), record)
    BY <2>1
  <2> DEFINE x == Replying(old, status, then)
  <2>3. x.req = old.req /\ Moved(old, x)
    BY <1>2 DEF Moved
  <2> HIDE DEF x
  <2>4. Step(j, x, record)
    BY <2>2 DEF x
  <2> QED
    BY <1>3, <2>3, <2>4
<1>6. CASE ProbeDevice(j)
  <2>1. jobs' = [jobs EXCEPT ![j] = Next(old)] /\ UNCHANGED wire
    BY <1>6 DEF ProbeDevice
  <2>2. Moved(old, Next(old))
    BY DEF Moved
  <2> QED
    BY <1>2, <2>1, <2>2
<1> QED
  BY <1>4, <1>5, <1>6

\* The answer replaces the To header of its request by one that F carries.
LEMMA ReplyCarry ==
    ASSUME NEW F, IInv, RequestsInv(F), WireInv(F), NEW j \in DOMAIN jobs, Reply(j)
    PROVE  WireInv(F)' /\ RequestsInv(F)'
<1> DEFINE made == NewResponseFromRequest(jobs[j].req, jobs[j].status, Reasons[jobs[j].status],
                                          ServerTag(j))
           asked == made.request
           after == [jobs[j] EXCEPT !.req = asked]
           job == IF jobs[j].then = "next" THEN Next(after)
                  ELSE [after EXCEPT !.stage = jobs[j].then]
<1>1. UNCHANGED wire /\ (UNCHANGED jobs \/ jobs' = [jobs EXCEPT ![j] = job])
  BY DEF Reply
<1>2. RequestOf(F, jobs[j].req)
  BY DEF RequestsInv
<1>3. RequestOf(F, asked)
  BY <1>2, TaggedRequest
<1>4. job.req = asked
  <2>1. PICK R : jobs[j] \in Job(R)
    BY JobOf
  <2> HIDE DEF asked
  <2> QED
    BY <2>1 DEF Job, JobRecord, Next
<1> HIDE DEF asked, job
<1>5. CASE UNCHANGED jobs
  BY <1>1, <1>5 DEF RequestsInv, WireInv
<1>6. CASE jobs' = [jobs EXCEPT ![j] = job]
  BY <1>1, <1>3, <1>4, <1>6, JobCarry
<1> QED
  BY <1>1, <1>5, <1>6

\* Every step keeps the invariant of what is carried.
LEMMA NextCarry ==
    ASSUME NEW F \in SUBSET Forms, IInv, ShapeInv, SentInv, CarryInv(F), [SigNext]_sigvars
    PROVE  CarryInv(F)'
<1>0. sent \in Seq(SentRecords) /\ Len(sent) \in Nat /\ MaxSent \in Nat
  BY SignallingAssumption DEF SentInv
<1>1. CASE DeviceSends
  <2>1. Len(sent) < MaxSent /\ Len(sent) + 1 \in 1..MaxSent
    BY <1>0, <1>1 DEF DeviceSends
  <2>2. PICK form \in Forms : Write(form, DeviceLines(form, Len(sent) + 1))
    BY <1>1 DEF DeviceSends
  <2> QED
    BY <2>1, <2>2, WriteCarry
<1>2. CASE DeviceRetries
  <2>1. sent # <<>> /\ Len(sent) < MaxSent /\ Write(sent[Len(sent)].form, sent[Len(sent)].lines)
    BY <1>2 DEF DeviceRetries, Last
  <2>2. sent[Len(sent)] \in SentRecords
    BY <1>0, <2>1
  <2>3. PICK k \in 1..MaxSent : sent[Len(sent)].lines = DeviceLines(sent[Len(sent)].form, k)
    BY <2>2 DEF SentRecords
  <2>4. sent[Len(sent)].form \in Forms
    BY <2>2 DEF SentRecords
  <2> QED
    BY <2>1, <2>3, <2>4, WriteCarry
<1>3. CASE DeviceReconnects \/ TxExpires \/ OperatorAsks
  <2>1. UNCHANGED <<sent, wire, jobs>>
    BY <1>3 DEF DeviceReconnects, TxExpires, OperatorAsks
  <2> QED
    BY <2>1, StillCarried
<1>4. ASSUME (\E c \in Conns : ReadFrame(c)) \/ ReadDatagram
      PROVE  CarryInv(F)'
  <2>1. UNCHANGED sent
    BY <1>4 DEF ReadFrame, ReadDatagram, Receive
  <2>2. ASSUME FormsIn(F)
        PROVE  WireInv(F)' /\ RequestsInv(F)'
    <3>1. WireInv(F) /\ RequestsInv(F)
      BY <2>2 DEF CarryInv
    <3>2. PICK c \in Conns, packet \in Chunks(F), rest \in Seq(Chunks(F)) : Receive(c, packet, rest)
      BY <1>4, <3>1, ReadParts
    <3> QED
      BY <2>2, <3>1, <3>2, ReceiveCarry
  <2> QED
    BY <2>1, <2>2 DEF CarryInv, FormsIn
<1>5. ASSUME NEW j \in DOMAIN jobs,
             Gate(j) \/ Register(j) \/ SipRegister(j) \/ Handle(j) \/ ProbeDevice(j) \/ Reply(j)
      PROVE  CarryInv(F)'
  <2>1. UNCHANGED sent
    BY <1>5 DEF Gate, Register, SipRegister, Handle, Step, Reply, ProbeDevice
  <2>2. ASSUME FormsIn(F)
        PROVE  WireInv(F)' /\ RequestsInv(F)'
    <3>1. WireInv(F) /\ RequestsInv(F)
      BY <2>2 DEF CarryInv
    <3>2. CASE Reply(j)
      BY <3>1, <3>2, ReplyCarry
    <3>3. CASE ~Reply(j)
      <4>1. PICK job : job.req = jobs[j].req /\ jobs' = [jobs EXCEPT ![j] = job] /\ UNCHANGED wire
        BY <1>5, <3>3, HandlerKeeps
      <4>2. RequestOf(F, job.req)
        BY <3>1, <4>1 DEF RequestsInv
      <4> QED
        BY <3>1, <4>1, <4>2, JobCarry
    <3> QED
      BY <3>2, <3>3
  <2> QED
    BY <2>1, <2>2 DEF CarryInv, FormsIn
<1>6. CASE PlatformTalks \/ UNCHANGED sigvars
  <2>1. UNCHANGED <<sent, wire, jobs>>
    BY <1>6 DEF PlatformTalks, invars, sigvars
  <2> QED
    BY <2>1, StillCarried
<1> QED
  BY <1>1, <1>2, <1>3, <1>4, <1>5, <1>6 DEF SigNext, DeviceTalks, InNext, Goroutines

\* What was sent stays on record.
LEMMA SentGrows ==
    ASSUME SentInv, [SigNext]_sigvars
    PROVE  \A n \in DOMAIN sent : n \in DOMAIN sent' /\ sent'[n] = sent[n]
<1>1. sent \in Seq(SentRecords)
  BY DEF SentInv
<1>2. CASE UNCHANGED sent
  BY <1>2
<1>3. ASSUME NEW s, sent' = Append(sent, s)
      PROVE  \A n \in DOMAIN sent : n \in DOMAIN sent' /\ sent'[n] = sent[n]
  <2> DEFINE T == SentRecords \cup {s}
  <2>1. SentRecords \subseteq T /\ s \in T
    OBVIOUS
  <2> HIDE DEF T
  <2>2. sent \in Seq(T)
    BY <1>1, <2>1, SeqMonotonic
  <2> QED
    BY <1>3, <2>1, <2>2, AppendProperties, LenProperties
<1>4. UNCHANGED sent \/ \E s : sent' = Append(sent, s)
  <2>1. CASE DeviceSends \/ DeviceRetries
    BY <2>1 DEF DeviceSends, DeviceRetries, Write
  <2>2. CASE DeviceReconnects \/ TxExpires \/ OperatorAsks
    BY <2>2 DEF DeviceReconnects, TxExpires, OperatorAsks
  <2>3. CASE (\E c \in Conns : ReadFrame(c)) \/ ReadDatagram
    BY <2>3 DEF ReadFrame, ReadDatagram, Receive
  <2>4. ASSUME NEW j \in DOMAIN jobs,
               Gate(j) \/ Register(j) \/ SipRegister(j) \/ Handle(j) \/ Reply(j) \/ ProbeDevice(j)
        PROVE  UNCHANGED sent
    BY <2>4 DEF Gate, Register, SipRegister, Handle, Step, Reply, ProbeDevice
  <2>5. CASE PlatformTalks \/ UNCHANGED sigvars
    BY <2>5 DEF PlatformTalks, invars, sigvars
  <2> QED
    BY <2>1, <2>2, <2>3, <2>4, <2>5 DEF SigNext, DeviceTalks, InNext, Goroutines
<1> QED
  BY <1>2, <1>3, <1>4

-----------------------------------------------------------------------------
(* Who is let in *)

Guesses == {form \in Forms : form.auth # "right"}

\* The device of a request is the user of a form, or nobody.
LEMMA DeviceIDIs ==
    ASSUME NEW F \in SUBSET Forms, NEW req, RequestOf(F, req)
    PROVE  DeviceID(req) \in {<<>>} \cup {<<form.user>> : form \in Forms}
<1> DEFINE list == GetHeaders(req.headers, FromName)
           from == FirstHeader(req.headers, FromName)
           h == list[1]
<1>1. from = IF list = <<>> \/ h.kind # FromName THEN Nil ELSE Some(h)
  BY DEF FirstHeader
<1>2. DeviceID(req) = IF from = Nil \/ from[1].val.uri.user = Nil THEN <<>>
                      ELSE from[1].val.uri.user[1]
  BY DEF DeviceID, FromName
<1>3. CASE from = Nil
  BY <1>2, <1>3
<1>4. CASE from # Nil
  <2>1. list # <<>> /\ from[1] = h
    BY <1>1, <1>4 DEF Some
  <2>2. PICK H : (\A x \in H : Carries(F, x)) /\ req.headers \in Seq(Grouped(H))
    BY DEF RequestOf, CarriedBy
  <2>3. list \in Seq(Named(H, FromName))
    BY <2>2, GroupedGet
  <2>4. h \in Named(H, FromName)
    <3>1. 1 \in 1..Len(list)
      BY <2>1, <2>3
    <3> HIDE DEF list
    <3> QED
      BY <2>3, <3>1, ElementOfSeq
  <2> HIDE DEF h, from, list
  <2>5. PICK form \in F : h.val.uri.user \in {Nil, Some(<<form.user>>)}
    BY <2>2, <2>4 DEF Named, Carries
  <2>6. DeviceID(req) = IF h.val.uri.user = Nil THEN <<>> ELSE h.val.uri.user[1]
    BY <1>2, <1>4, <2>1
  <2> DEFINE u == <<form.user>>
  <2>7. u \in {<<g.user>> : g \in Forms}
    OBVIOUS
  <2> HIDE DEF u
  <2>8. Some(u)[1] = u
    BY DEF Some
  <2>9. h.val.uri.user \in {Nil, Some(u)}
    BY <2>5 DEF u
  <2>10. DeviceID(req) \in {<<>>, u}
    BY <2>6, <2>8, <2>9
  <2> QED
    BY <2>7, <2>10
<1> QED
  BY <1>3, <1>4

\* The fields of the digest of a wrong password.
LEMMA GuessedFields ==
    ASSUME NEW r, r = ResponseTo(<<"device">>, "guess"), NEW text, text = Digest("guess")
    PROVE  /\ AuthField(text, "response") = r
           /\ AuthField(text, "realm") = "domain" /\ AuthField(text, "uri") = "u"
           /\ AuthField(text, "nonce") = "n" /\ AuthField(text, "qop") = "auth"
           /\ AuthField(text, "cnonce") = "c" /\ AuthField(text, "nc") = "1"
<1> DEFINE keys == DigestKeys
           vals == DigestVals(r)
<1>1. r \in Token
  <2>1. IsWord(r)
    BY DeviceAssumption
  <2> QED
    BY <2>1, WordOf, WordIs
<1>2. HasFields(text, 8, keys, vals)
  BY <1>1, DigestIs
<1>3. \A i \in 1..8 : keys[i] \notin {Equals, Comma}
  BY KeysDiffer
<1>4. \A i \in 1..8 : \A j \in 1..8 : keys[i] = keys[j] => i = j
  BY KeysDiffer
<1>5. /\ keys[2] = RealmKey /\ keys[3] = NonceKey /\ keys[4] = UriKey /\ keys[5] = QopKey
      /\ keys[6] = NcKey /\ keys[7] = CnonceKey /\ keys[8] = ResponseKey
  BY DEF DigestKeys
<1>6. /\ vals[2] = DomainWord /\ vals[3] = NWord /\ vals[4] = UWord /\ vals[5] = AuthWord
      /\ vals[6] = OneWord /\ vals[7] = CWord /\ vals[8] = r
  BY DEF DigestVals
<1> HIDE DEF keys, vals
<1> DEFINE n == 8
<1>7. n \in Nat
  OBVIOUS
<1>8. ASSUME NEW i \in 1..n
      PROVE  AuthField(text, keys[i]) = vals[i]
  <2>1. HasFields(text, n, keys, vals)
    BY <1>2
  <2>2. \A k \in 1..n : keys[k] \notin {Equals, Comma}
    BY <1>3
  <2>3. \A k \in 1..n : \A j \in 1..n : keys[k] = keys[j] => k = j
    BY <1>4
  <2> HIDE DEF n
  <2> QED
    BY <1>7, <2>1, <2>2, <2>3, FieldAt
<1>9. /\ AuthField(text, RealmKey) = DomainWord /\ AuthField(text, NonceKey) = NWord
      /\ AuthField(text, UriKey) = UWord /\ AuthField(text, QopKey) = AuthWord
      /\ AuthField(text, NcKey) = OneWord /\ AuthField(text, CnonceKey) = CWord
      /\ AuthField(text, ResponseKey) = r
  BY <1>5, <1>6, <1>8
<1> QED
  BY <1>9 DEF RealmKey, NonceKey, UriKey, QopKey, NcKey, CnonceKey, ResponseKey,
              DomainWord, NWord, UWord, AuthWord, OneWord, CWord

\* Credentials made without the password match no device that may have sent them.
LEMMA GuessRefused ==
    ASSUME NEW req, RequestOf(Guesses, req), req.method = "REGISTER"
    PROVE  Unauthorized(req)
<1> DEFINE list == GetHeaders(req.headers, AuthName)
           h == list[1]
           text == h.val.text
           id == DeviceID(req)
<1>1. Guesses \in SUBSET Forms
  BY DEF Guesses
<1>2. id \in {<<>>} \cup {<<form.user>> : form \in Forms}
  BY <1>1, DeviceIDIs
<1>3. Authorization(req) = list
  BY DEF Authorization, AuthName
<1>4. CASE list = <<>>
  BY <1>3, <1>4 DEF Unauthorized
<1>5. CASE list # <<>>
  <2>1. PICK H : (\A x \in H : Carries(Guesses, x)) /\ req.headers \in Seq(Grouped(H))
    BY DEF RequestOf, CarriedBy
  <2>2. list \in Seq(Named(H, AuthName))
    BY <2>1, GroupedGet
  <2>3. h \in Named(H, AuthName)
    <3>1. 1 \in 1..Len(list)
      BY <1>5, <2>2
    <3> HIDE DEF list
    <3> QED
      BY <2>2, <3>1, ElementOfSeq
  <2> HIDE DEF h
  <2>4. PICK form \in Guesses : form.auth # "none" /\ text = AuthText(form)
    BY <2>1, <2>3 DEF Named, Carries
  <2>5. text = Digest("guess")
    BY <2>4 DEF AuthText, Guesses
  <2> HIDE DEF text
  <2> DEFINE r == ResponseTo(<<"device">>, "guess")
  <2> HIDE DEF r, id
  <2>6. r = ResponseTo(<<"device">>, "guess")
    BY DEF r
  <2>7. /\ AuthField(text, "response") = r
        /\ AuthField(text, "realm") = "domain" /\ AuthField(text, "uri") = "u"
        /\ AuthField(text, "nonce") = "n" /\ AuthField(text, "qop") = "auth"
        /\ AuthField(text, "cnonce") = "c" /\ AuthField(text, "nc") = "1"
    BY <2>5, <2>6, GuessedFields
  <2>8. DigestMatches(req) <=>
            AuthField(text, "response") =
              CalcResponse(id, AuthField(text, "realm"), Password, req.method,
                           AuthField(text, "uri"), AuthField(text, "nonce"),
                           AuthField(text, "qop"), AuthField(text, "cnonce"),
                           AuthField(text, "nc"))
    BY <1>3 DEF DigestMatches, text, h, id
  <2>9. DigestMatches(req) <=> r = ResponseTo(id, Password)
    BY <2>7, <2>8 DEF ResponseTo
  <2>10. ResponseTo(id, Password) # r
    BY <1>2, DeviceAssumption DEF r
  <2> QED
    BY <2>9, <2>10 DEF Unauthorized
<1> QED
  BY <1>4, <1>5

\* The handlers of every route but that of REGISTER.
OtherHandlers == {<<"message">>, <<>>}

\* RegisterHandlers leads no other method to the handlers of REGISTER.
LEMMA RegisteredOther ==
    ASSUME NEW routes, NEW k \in DOMAIN RegisterHandlers(routes), k # <<"REGISTER">>
    PROVE  \/ RegisterHandlers(routes)[k] \in OtherHandlers
           \/ k \in DOMAIN routes /\ RegisterHandlers(routes)[k] = routes[k]
<1> DEFINE own == AddRoute(routes, <<"REGISTER">>, <<"register">>)
           messages == AddRoute(own, <<"MESSAGE">>, <<>>)
           methods == AddRoute(messages, <<"NOTIFY">>, <<>>)
<1>1. \/ RegisterHandlers(routes)[k] = <<"message">>
      \/ k \in DOMAIN methods /\ RegisterHandlers(routes)[k] = methods[k]
  <2> HIDE DEF methods
  <2>1. RegisterHandlers(routes) = [x \in DOMAIN methods \cup CommandKeys |->
            IF x \in CommandKeys THEN <<"message">> ELSE methods[x]]
    BY DEF RegisterHandlers, methods
  <2> QED
    BY <2>1
<1>2. k \in DOMAIN methods => \/ methods[k] = <<>>
                              \/ k \in DOMAIN messages /\ methods[k] = messages[k]
  BY AddedRoute
<1>3. k \in DOMAIN messages => \/ messages[k] = <<>>
                               \/ k \in DOMAIN own /\ messages[k] = own[k]
  BY AddedRoute
<1>4. k \in DOMAIN own => k \in DOMAIN routes /\ own[k] = routes[k]
  BY DEF AddRoute
<1> HIDE DEF own, messages, methods
<1> QED
  BY <1>1, <1>2, <1>3, <1>4 DEF OtherHandlers

\* No route but that of REGISTER leads to the handlers of REGISTER.
LEMMA OtherRoutes ==
    ASSUME NEW k \in DOMAIN Routes, k # <<"REGISTER">>
    PROVE  Routes[k] \in OtherHandlers
<1>1. \A x \in DOMAIN RegisterHandlers(<<>>) : x # <<"REGISTER">> =>
            RegisterHandlers(<<>>)[x] \in OtherHandlers
  BY RegisteredOther
<1>2. CASE program = "example"
  <2> DEFINE first == AddRoute(<<>>, <<"REGISTER">>, <<"own">>)
  <2>1. \A key \in DOMAIN first : key = <<"REGISTER">>
    BY DEF AddRoute
  <2>2. Routes = RegisterHandlers(first)
    BY <1>2 DEF Routes
  <2> HIDE DEF first
  <2> QED
    BY <2>1, <2>2, RegisteredOther
<1>3. CASE program = "custom"
  <2> DEFINE last == AddRoute(RegisterHandlers(<<>>), <<"REGISTER">>, <<"gate", "own">>)
  <2>1. k \in DOMAIN last =>
            k \in DOMAIN RegisterHandlers(<<>>) /\ last[k] = RegisterHandlers(<<>>)[k]
    BY DEF AddRoute
  <2>2. Routes = last
    BY <1>3 DEF Routes
  <2> HIDE DEF last
  <2> QED
    BY <1>1, <2>1, <2>2
<1>4. CASE program # "example" /\ program # "custom"
  <2>1. Routes = RegisterHandlers(<<>>)
    BY <1>4 DEF Routes
  <2> QED
    BY <1>1, <2>1
<1> QED
  BY <1>2, <1>3, <1>4

\* Only a REGISTER comes to a handler that registers.
Messaging(job) ==
    /\ job.handlers \in OtherHandlers
    /\ job.stage \notin {"gate", "register", "own"}
MethodInv == \A j \in DOMAIN jobs : jobs[j].req.method # "REGISTER" => Messaging(jobs[j])

\* A job that is not registering stays so.
LEMMA NextMessaging ==
    ASSUME NEW R, NEW job \in Job(R), Messaging(job)
    PROVE  /\ Messaging(Next(job))
           /\ \A status, then : Messaging(Replying(job, status, then))
           /\ \A status, then : Messaging(Replying([job EXCEPT !.index = AbortIndex], status, then))
<1> DEFINE index == job.index + 1
           stage == IF index > Len(job.handlers) THEN "done" ELSE job.handlers[index]
<1>1. job \in JobRecord(R) /\ index \in Nat \ {0}
  BY DEF Job, JobRecord
<1>2. stage \in {"message", "done"}
  BY <1>1 DEF Messaging, OtherHandlers
<1>3. Next(job) = [job EXCEPT !.index = index, !.stage = stage]
  BY DEF Next
<1> HIDE DEF index, stage
<1>4. Next(job).stage = stage /\ Next(job).handlers = job.handlers
  BY <1>1, <1>3 DEF JobRecord
<1>5. Messaging(Next(job))
  BY <1>2, <1>4 DEF Messaging
<1>6. \A status, then : Messaging(Replying(job, status, then))
  BY <1>1 DEF Messaging, Replying, JobRecord
<1>7. \A status, then : Messaging(Replying([job EXCEPT !.index = AbortIndex], status, then))
  BY <1>1 DEF Messaging, Replying, JobRecord
<1> QED
  BY <1>5, <1>6, <1>7

\* The goroutine of another method is not registering.
LEMMA OtherGoroutine ==
    ASSUME NEW req, req.method # "REGISTER", NEW conn, RouteKey(req) # Nil
    PROVE  Messaging(Goroutine(req, conn, RouteKey(req)[1]))
<1> DEFINE key == RouteKey(req)[1]
           handlers == IF key \in DOMAIN Routes THEN Routes[key] ELSE <<>>
           job == [req |-> req, conn |-> conn, index |-> 0, status |-> 0, stage |-> "done",
                   handlers |-> handlers, then |-> "done"]
<1>1. key # <<"REGISTER">>
  <2>1. \/ RouteKey(req) = Some(<<req.method>>)
        \/ \E cmd : RouteKey(req) = Some(<<req.method, cmd>>)
    BY DEF RouteKey
  <2>2. \A x : Some(x)[1] = x
    BY DEF Some
  <2>3. key = <<req.method>> \/ \E cmd : key = <<req.method, cmd>>
    BY <2>1, <2>2
  <2> HIDE DEF key
  <2> QED
    BY <2>3
<1> HIDE DEF key
<1>2. handlers \in OtherHandlers
  BY <1>1, OtherRoutes DEF OtherHandlers
<1>3. Goroutine(req, conn, key) = IF key \in DOMAIN Routes THEN Next(job)
                                  ELSE Replying(job, 405, "done")
  BY DEF Goroutine
<1> HIDE DEF handlers
<1>4. job.handlers = handlers /\ job.index = 0
  OBVIOUS
<1>5. Messaging(Replying(job, 405, "done"))
  BY <1>2 DEF Messaging, Replying
<1>6. Messaging(Next(job))
  <2>1. Next(job).handlers = handlers
    BY DEF Next
  <2>2. Next(job).stage = IF 1 > Len(handlers) THEN "done" ELSE handlers[1]
    BY DEF Next
  <2>3. Next(job).stage \in {"message", "done"}
    BY <1>2, <2>2 DEF OtherHandlers
  <2> QED
    BY <1>2, <2>1, <2>3 DEF Messaging
<1> QED
  BY <1>3, <1>5, <1>6 DEF key

\* One job is replaced: only the replaced one has to be looked at.
LEMMA JobMessaging ==
    ASSUME MethodInv, NEW j \in DOMAIN jobs, NEW job, jobs' = [jobs EXCEPT ![j] = job],
           job.req.method # "REGISTER" => Messaging(job)
    PROVE  MethodInv'
<1>1. DOMAIN jobs' = DOMAIN jobs /\ \A i \in DOMAIN jobs : jobs'[i] = IF i = j THEN job ELSE jobs[i]
  OBVIOUS
<1> QED
  BY <1>1 DEF MethodInv

\* A request received keeps that.
LEMMA ReceiveMessaging ==
    ASSUME IInv, MethodInv, NEW c, NEW packet, NEW rest, Receive(c, packet, rest)
    PROVE  MethodInv'
<1> DEFINE msg == ParseMessage(packet)
           req == msg[1]
<1>1. \/ UNCHANGED jobs
      \/ /\ RouteKey(req) # Nil
         /\ \E conn : jobs' = Append(jobs, Goroutine(req, conn, RouteKey(req)[1]))
  BY DEF Receive, Listen, Dispatch
<1> HIDE DEF req
<1>2. CASE UNCHANGED jobs
  BY <1>2 DEF MethodInv
<1>3. ASSUME RouteKey(req) # Nil, NEW conn,
             jobs' = Append(jobs, Goroutine(req, conn, RouteKey(req)[1]))
      PROVE  MethodInv'
  <2> DEFINE job == Goroutine(req, conn, RouteKey(req)[1])
  <2>1. job.req = req
    BY DEF Goroutine, Next, Replying
  <2>2. req.method # "REGISTER" => Messaging(job)
    BY <1>3, OtherGoroutine
  <2>3. PICK R : jobs \in Seq(Job(R))
    BY DEF IInv, JobsInv
  <2> DEFINE J == Job(R) \cup {job}
  <2>4. jobs' = Append(jobs, job) /\ job \in J
    BY <1>3
  <2>5. jobs \in Seq(J)
    <3>1. Job(R) \subseteq J
      OBVIOUS
    <3> HIDE DEF J
    <3> QED
      BY <2>3, <3>1, SeqMonotonic
  <2> HIDE DEF job, J
  <2>6. \A j \in DOMAIN jobs' : jobs'[j] = job \/ (j \in DOMAIN jobs /\ jobs'[j] = jobs[j])
    BY <2>4, <2>5, AppendProperties, LenProperties
  <2> QED
    BY <2>1, <2>2, <2>6 DEF MethodInv
<1> QED
  BY <1>1, <1>2, <1>3

\* An answer keeps that.
LEMMA ReplyMessaging ==
    ASSUME IInv, MethodInv, RequestsInv(Forms), NEW j \in DOMAIN jobs, Reply(j)
    PROVE  MethodInv'
<1> DEFINE made == NewResponseFromRequest(jobs[j].req, jobs[j].status, Reasons[jobs[j].status],
                                          ServerTag(j))
           asked == made.request
           after == [jobs[j] EXCEPT !.req = asked]
           job == IF jobs[j].then = "next" THEN Next(after)
                  ELSE [after EXCEPT !.stage = jobs[j].then]
<1>1. UNCHANGED jobs \/ jobs' = [jobs EXCEPT ![j] = job]
  BY DEF Reply
<1>2. RequestOf(Forms, jobs[j].req)
  BY DEF RequestsInv
<1>3. asked.method = jobs[j].req.method
  BY <1>2, TaggedRequest
<1>4. CASE UNCHANGED jobs
  BY <1>4 DEF MethodInv
<1>5. CASE jobs' = [jobs EXCEPT ![j] = job]
  <2>1. PICK R : jobs[j] \in Job(R)
    BY JobOf
  <2> DEFINE T == R \cup {asked}
  <2>2. asked \in T /\ R \subseteq T
    OBVIOUS
  <2> HIDE DEF asked, T
  <2>3. after \in Job(T)
    BY <2>1, <2>2 DEF Job, JobRecord
  <2>4. after.req = asked /\ after.handlers = jobs[j].handlers /\ after.stage = jobs[j].stage
    BY <2>1 DEF Job, JobRecord
  <2>5. jobs[j].then \in {"next", "probe", "done"}
    BY <2>1 DEF Job, JobRecord
  <2> HIDE DEF after
  <2>6. job.req = asked
    BY <2>3, <2>4 DEF Job, JobRecord, Next
  <2>7. ASSUME Messaging(jobs[j])
        PROVE  Messaging(job)
    <3>1. Messaging(after)
      BY <2>4, <2>7 DEF Messaging
    <3>2. Messaging(Next(after))
      BY <2>3, <3>1, NextMessaging
    <3>3. CASE jobs[j].then # "next"
      <4>1. /\ [after EXCEPT !.stage = jobs[j].then].handlers = after.handlers
            /\ [after EXCEPT !.stage = jobs[j].then].stage = jobs[j].then
        BY <2>3 DEF Job, JobRecord
      <4> QED
        BY <2>5, <3>1, <3>3, <4>1 DEF Messaging
    <3> QED
      BY <3>2, <3>3
  <2> HIDE DEF job
  <2> QED
    BY <1>3, <1>5, <2>6, <2>7, JobMessaging DEF MethodInv
<1> QED
  BY <1>1, <1>4, <1>5

\* Every step keeps that.
LEMMA NextMethod ==
    ASSUME IInv, MethodInv, RequestsInv(Forms), [SigNext]_sigvars
    PROVE  MethodInv'
<1>1. CASE UNCHANGED jobs
  BY <1>1 DEF MethodInv
<1>2. CASE DeviceSends \/ DeviceRetries \/ DeviceReconnects \/ TxExpires \/ OperatorAsks
  <2>1. UNCHANGED jobs
    BY <1>2 DEF DeviceSends, DeviceRetries, Write, DeviceReconnects, TxExpires, OperatorAsks
  <2> QED
    BY <1>1, <2>1
<1>3. CASE (\E c \in Conns : ReadFrame(c)) \/ ReadDatagram
  <2>1. PICK c, packet, rest : Receive(c, packet, rest)
    BY <1>3 DEF ReadFrame, ReadDatagram
  <2> QED
    BY <2>1, ReceiveMessaging
<1>4. ASSUME NEW j \in DOMAIN jobs,
             Gate(j) \/ Register(j) \/ SipRegister(j) \/ Handle(j) \/ ProbeDevice(j)
      PROVE  MethodInv'
  <2>1. PICK job : /\ job.req = jobs[j].req /\ Moved(jobs[j], job)
                   /\ jobs' = [jobs EXCEPT ![j] = job]
    BY <1>4, HandlerKeeps
  <2>2. PICK R : jobs[j] \in Job(R)
    BY JobOf
  <2>3. Messaging(jobs[j]) => Messaging(job)
    BY <2>1, <2>2, NextMessaging DEF Moved
  <2> QED
    BY <2>1, <2>3, JobMessaging DEF MethodInv
<1>5. ASSUME NEW j \in DOMAIN jobs, Reply(j)
      PROVE  MethodInv'
  BY <1>5, ReplyMessaging
<1>6. CASE PlatformTalks \/ UNCHANGED sigvars
  <2>1. UNCHANGED jobs
    BY <1>6 DEF PlatformTalks, invars, sigvars
  <2> QED
    BY <1>1, <2>1
<1> QED
  BY <1>2, <1>3, <1>4, <1>5, <1>6 DEF SigNext, DeviceTalks, InNext, Goroutines

\* As long as nobody has used the password, nobody is known who must.
GuessInv == CarryInv(Guesses)
KnownInv == PasswordProgram /\ FormsIn(Guesses) => ~book.known

\* What is sent only grows: its forms did all along.
LEMMA FormsFewer ==
    ASSUME NEW F, SentInv, [SigNext]_sigvars, FormsIn(F)'
    PROVE  FormsIn(F)
  BY SentGrows DEF FormsIn

\* No step registers a device that only guessed.
LEMMA NextKnown ==
    ASSUME IInv, SentInv, MethodInv, GuessInv, KnownInv, [SigNext]_sigvars
    PROVE  KnownInv'
<1> SUFFICES ASSUME PasswordProgram', FormsIn(Guesses)'
             PROVE  ~book'.known
  BY DEF KnownInv
<1>1. FormsIn(Guesses)
  BY FormsFewer
<1>2. RequestsInv(Guesses)
  BY <1>1 DEF GuessInv, CarryInv
<1>3. UNCHANGED program
  <2>1. CASE DeviceSends \/ DeviceRetries \/ DeviceReconnects \/ TxExpires \/ OperatorAsks
    BY <2>1 DEF DeviceSends, DeviceRetries, Write, DeviceReconnects, TxExpires, OperatorAsks
  <2>2. CASE (\E c \in Conns : ReadFrame(c)) \/ ReadDatagram
    BY <2>2 DEF ReadFrame, ReadDatagram, Receive
  <2>3. ASSUME NEW j \in DOMAIN jobs,
               Gate(j) \/ Register(j) \/ SipRegister(j) \/ Handle(j) \/ Reply(j) \/ ProbeDevice(j)
        PROVE  UNCHANGED program
    BY <2>3 DEF Gate, Register, SipRegister, Handle, Step, Reply, ProbeDevice
  <2>4. CASE PlatformTalks \/ UNCHANGED sigvars
    BY <2>4 DEF PlatformTalks, invars, sigvars
  <2> QED
    BY <2>1, <2>2, <2>3, <2>4 DEF SigNext, DeviceTalks, InNext, Goroutines
<1>4. PasswordProgram /\ ~book.known
  BY <1>1, <1>3 DEF PasswordProgram, KnownInv
<1>5. CASE UNCHANGED book
  BY <1>4, <1>5
<1>6. ASSUME NEW j \in DOMAIN jobs, jobs[j].stage \in {"register", "own"}
      PROVE  Unauthorized(jobs[j].req)
  <2>1. jobs[j].req.method = "REGISTER"
    BY <1>6 DEF MethodInv, Messaging
  <2>2. RequestOf(Guesses, jobs[j].req)
    BY <1>2 DEF RequestsInv
  <2> QED
    BY <2>1, <2>2, GuessRefused
<1>7. ASSUME NEW j \in DOMAIN jobs, Register(j)
      PROVE  UNCHANGED book
  <2>1. Unauthorized(jobs[j].req)
    BY <1>6, <1>7 DEF Register, At
  <2> QED
    BY <1>7, <2>1 DEF Register, Step
<1>8. ASSUME NEW j \in DOMAIN jobs, SipRegister(j)
      PROVE  UNCHANGED book
  <2>1. Unauthorized(jobs[j].req)
    BY <1>6, <1>8 DEF SipRegister, At
  <2> QED
    BY <1>8, <2>1 DEF SipRegister, Step
<1>9. ASSUME NEW j \in DOMAIN jobs, Handle(j)
      PROVE  ~book'.known
  <2>1. PICK C : book \in [known : BOOLEAN, online : BOOLEAN, catalogs : C]
    BY DEF IInv, BookInv
  <2>2. ASSUME NEW v, NEW call
        PROVE  Told(v, call).known = book.known
    <3> DEFINE more == Append(book.catalogs, [call |-> call, items |-> v.Item])
    <3>1. \/ Told(v, call) = [book EXCEPT !.catalogs = more]
          \/ Told(v, call) = [book EXCEPT !.online = @ \/ (book.known /\ ~Tcp)]
          \/ Told(v, call) = book
      BY DEF Told
    <3> HIDE DEF more
    <3> QED
      BY <2>1, <3>1
  <2>3. UNCHANGED book \/ \E v, call : book' = Told(v, call)
    BY <1>9 DEF Handle, Step
  <2> QED
    BY <1>4, <2>2, <2>3
<1>10. CASE DeviceSends \/ DeviceRetries \/ DeviceReconnects \/ TxExpires \/ OperatorAsks
  <2>1. UNCHANGED book
    BY <1>10 DEF DeviceSends, DeviceRetries, Write, DeviceReconnects, TxExpires, OperatorAsks
  <2> QED
    BY <1>5, <2>1
<1>11. CASE (\E c \in Conns : ReadFrame(c)) \/ ReadDatagram
  <2>1. UNCHANGED book
    BY <1>11 DEF ReadFrame, ReadDatagram, Receive
  <2> QED
    BY <1>5, <2>1
<1>12. ASSUME NEW j \in DOMAIN jobs, Gate(j) \/ Reply(j) \/ ProbeDevice(j)
       PROVE  UNCHANGED book
  BY <1>12 DEF Gate, Step, Reply, ProbeDevice
<1>13. CASE PlatformTalks \/ UNCHANGED sigvars
  <2>1. UNCHANGED book
    BY <1>13 DEF PlatformTalks, invars, sigvars
  <2> QED
    BY <1>5, <2>1
<1> QED
  BY <1>5, <1>7, <1>8, <1>9, <1>10, <1>11, <1>12, <1>13
     DEF SigNext, DeviceTalks, InNext, Goroutines

\* Every request sent has a form.
LEMMA AllForms ==
    ASSUME SentInv
    PROVE  FormsIn(Forms)
<1>1. \A n \in DOMAIN sent : sent[n] \in SentRecords
  BY DEF SentInv
<1> QED
  BY <1>1 DEF SentRecords, FormsIn

\* Where a password is asked for, the application comes to know a device only once
\* a REGISTER was sent with credentials made with the password, whatever is sent
\* before or after it, again, over another connection or out of order.
THEOREM PasswordAsked == SigSpec => []KnownWithPassword
<1> DEFINE Base == IInv /\ ShapeInv /\ SentInv /\ CarryInv(Forms) /\ MethodInv
           Inv == Base /\ GuessInv /\ KnownInv
<1>1. SigInit => Inv
  <2> SUFFICES ASSUME SigInit PROVE Inv
    OBVIOUS
  <2>1. IInv /\ ShapeInv /\ SentInv /\ CarryInv(Forms) /\ GuessInv
    BY InitIInv, InitShape, InitSent, InitCarry DEF SigInit, GuessInv
  <2>2. DOMAIN jobs = {}
    BY DEF SigInit, InInit
  <2>3. MethodInv
    BY <2>2 DEF MethodInv
  <2>4. KnownInv
    BY DEF SigInit, InInit, KnownInv
  <2> QED
    BY <2>1, <2>3, <2>4
<1>2. Inv /\ [SigNext]_sigvars => Inv'
  <2> SUFFICES ASSUME Inv, [SigNext]_sigvars PROVE Inv'
    OBVIOUS
  <2>1. RequestsInv(Forms)
    BY AllForms DEF CarryInv
  <2>2. Forms \in SUBSET Forms /\ Guesses \in SUBSET Forms
    BY DEF Guesses
  <2>3. IInv' /\ ShapeInv' /\ SentInv'
    BY NextIInv, NextShape, NextSent
  <2>4. CarryInv(Forms)' /\ GuessInv'
    BY <2>2, NextCarry DEF GuessInv
  <2>5. MethodInv' /\ KnownInv'
    BY <2>1, NextMethod, NextKnown
  <2> QED
    BY <2>3, <2>4, <2>5
<1>3. Inv => KnownWithPassword
  <2> SUFFICES ASSUME Inv, PasswordProgram, book.known
               PROVE  \E n \in Registrations : sent[n].form.auth = "right"
    BY DEF KnownWithPassword
  <2>1. PICK n \in DOMAIN sent : sent[n].form \notin Guesses
    BY DEF KnownInv, FormsIn
  <2>2. sent[n].form \in Forms
    BY AllForms DEF FormsIn
  <2>3. sent[n].form.auth = "right"
    BY <2>1, <2>2 DEF Guesses
  <2>4. sent[n].form.method = "REGISTER"
    BY <2>2, <2>3, FormIs DEF RegisterWord
  <2> QED
    BY <2>3, <2>4 DEF Registrations, IsRegistration
<1> QED
  BY <1>1, <1>2, <1>3, PTL DEF SigSpec



-----------------------------------------------------------------------------
(* What the platform writes *)

\* ReplaceFirst keeps the shape of the headers, whether it finds the name or not.
LEMMA ReplaceType ==
    ASSUME NEW H, NEW headers \in Seq(Group(H)), NEW h \in H
    PROVE  ReplaceFirst(headers, h) \in Seq(Group(H))
<1> DEFINE n == NameOf(h)
           at == GroupAt(headers, n)
           old == headers[at]
           list == [old.list EXCEPT ![1] = h]
           new == [old EXCEPT !.list = list]
<1>1. ReplaceFirst(headers, h) = [headers EXCEPT ![at] = new]
  BY DEF ReplaceFirst
<1>2. at = 0 \/ at \in 1..Len(headers)
  BY GroupAtIn
<1>3. CASE at = 0
  <2>1. 0 \notin DOMAIN headers
    OBVIOUS
  <2> HIDE DEF at, new
  <2>2. [headers EXCEPT ![at] = new] = headers
    BY <1>3, <2>1
  <2> QED
    BY <1>1, <2>2
<1>4. CASE at \in 1..Len(headers)
  <2>1. old \in Group(H)
    BY <1>4
  <2>2. old.list \in Seq(H)
    BY <2>1 DEF Group
  <2> HIDE DEF old
  <2>3. list \in Seq(H)
    <3> DEFINE l == old.list
    <3>1. l \in Seq(H)
      BY <2>2
    <3> HIDE DEF l
    <3>2. [l EXCEPT ![1] = h] \in Seq(H)
      <4>1. CASE l = <<>>
        <5>1. 1 \notin DOMAIN l
          BY <4>1
        <5>2. [l EXCEPT ![1] = h] = l
          BY <3>1, <5>1
        <5> QED
          BY <3>1, <5>2
      <4>2. CASE l # <<>>
        <5>1. 1 \in 1..Len(l)
          BY <3>1, <4>2, EmptySeq
        <5> QED
          BY <3>1, <5>1, ExceptSeq
      <4> QED
        BY <4>1, <4>2
    <3> QED
      BY <3>2 DEF l
  <2> HIDE DEF list
  <2>4. new \in Group(H)
    BY <2>1, <2>3 DEF Group
  <2> HIDE DEF new, at
  <2>5. [headers EXCEPT ![at] = new] \in Seq(Group(H))
    BY <1>4, <2>4, ExceptSeq
  <2> QED
    BY <1>1, <2>5
<1> QED
  BY <1>2, <1>3, <1>4

\* Wider sets of headers have wider groups.
LEMMA WiderGroup ==
    ASSUME NEW H, NEW K, H \subseteq K, NEW headers \in Seq(Group(H))
    PROVE  headers \in Seq(Group(K))
<1>1. Group(H) \subseteq Group(K)
  <2>1. Seq(H) \subseteq Seq(K)
    BY SeqMonotonic
  <2>2. Names(H) \subseteq Names(K)
    BY DEF Names
  <2> QED
    BY <2>1, <2>2 DEF Group
<1> QED
  BY <1>1, SeqMonotonic

\* The lines of a message: its start line, then its first header or the empty line.
LEMMA LinesAre ==
    ASSUME NEW msg, NEW H, msg.headers \in Seq(Group(H)), NEW S, msg.body \in Seq(S)
    PROVE  /\ \E U : MessageLines(msg) \in Seq(U)
           /\ MessageLines(msg) # <<>> /\ MessageLines(msg)[1] = StartLine(msg)
           /\ MessageLines(msg)[2] \in {<<>>} \cup {HeaderText(h) : h \in H}
<1> DEFINE start == StartLine(msg)
           all == AllHeaders(msg.headers)
           texts == HeaderLines(msg.headers)
           T == {HeaderText(h) : h \in H}
           blank == <<>>
           U == {start} \cup T \cup {blank} \cup S
           a == <<start>>
           c == <<blank>>
           body == msg.body
<1>1. MessageLines(msg) = ((a \o texts) \o c) \o body
  BY DEF MessageLines
<1>2. all \in Seq(H)
  BY AllHeadersType
<1>3. texts \in Seq(T) /\ texts = Each(HeaderText, all)
  <2>1. texts = [i \in DOMAIN all |-> HeaderText(all[i])]
    BY DEF HeaderLines, Each
  <2> HIDE DEF all
  <2>2. \A i \in DOMAIN all : all[i] \in H
    BY <1>2
  <2>3. DOMAIN all = 1..Len(all) /\ Len(all) \in Nat
    BY <1>2
  <2>4. \A i \in DOMAIN all : HeaderText(all[i]) \in T
    BY <2>2
  <2>5. texts = Each(HeaderText, all)
    BY <2>1 DEF Each
  <2>6. texts \in Seq(T)
    <3> HIDE DEF T, texts
    <3> QED
      BY <2>1, <2>3, <2>4
  <2> QED
    BY <2>5, <2>6
<1> HIDE DEF start, all, texts, T, blank
<1>4. a \in Seq(U) /\ c \in Seq(U) /\ Len(a) = 1 /\ a[1] = start /\ Len(c) = 1 /\ c[1] = blank
  OBVIOUS
<1>5. texts \in Seq(U)
  BY <1>3, SeqMonotonic
<1>6. body \in Seq(U)
  <2>1. S \subseteq U
    OBVIOUS
  <2> QED
    BY <2>1, SeqMonotonic
<1> HIDE DEF a, c, body, U
<1>7. a \o texts \in Seq(U)
  BY <1>4, <1>5, CatType
<1>8. (a \o texts) \o c \in Seq(U)
  BY <1>4, <1>7, CatType
<1>9. ((a \o texts) \o c) \o body \in Seq(U)
  BY <1>6, <1>8, CatType
<1> DEFINE p == a \o texts
           q == p \o c
           w == q \o body
<1>10. /\ Len(p) = 1 + Len(texts) /\ Len(texts) \in Nat /\ p[1] = start
       /\ \A i \in 1..Len(texts) : p[1 + i] = texts[i]
  <2>0. p = a \o texts
    OBVIOUS
  <2> HIDE DEF p
  <2>4. a \in Seq(U)
    BY <1>4
  <2>1. /\ p \in Seq(U) /\ Len(p) = Len(a) + Len(texts) /\ Len(a) \in Nat /\ Len(texts) \in Nat
        /\ \A i \in 1..Len(a) : p[i] = a[i]
        /\ \A i \in 1..Len(texts) : p[Len(a) + i] = texts[i]
    BY <1>5, <2>0, <2>4, CatIs
  <2>2. Len(a) = 1 /\ a[1] = start /\ 1 \in 1..1
    BY <1>4
  <2>3. p[1] = start
    BY <2>1, <2>2
  <2> QED
    BY <2>1, <2>2, <2>3
<1> HIDE DEF p
<1>11. /\ Len(q) = Len(p) + 1 /\ \A i \in 1..Len(p) : q[i] = p[i]
       /\ q[Len(p) + 1] = blank
  <2>0. q = p \o c
    OBVIOUS
  <2> HIDE DEF q
  <2>3. c \in Seq(U)
    BY <1>4
  <2>1. p \in Seq(U)
    BY <1>7 DEF p
  <2>2. /\ Len(q) = Len(p) + Len(c) /\ \A i \in 1..Len(p) : q[i] = p[i]
        /\ \A i \in 1..Len(c) : q[Len(p) + i] = c[i]
    BY <2>0, <2>1, <2>3, CatIs
  <2> QED
    BY <1>4, <2>2
<1> HIDE DEF q
<1>12. \A i \in 1..Len(q) : w[i] = q[i]
  <2>1. q \in Seq(U)
    BY <1>8 DEF q, p
  <2> QED
    BY <1>6, <2>1, CatLeft
<1>13. w[1] = start /\ Len(w) = Len(q) + Len(body) /\ Len(body) \in Nat
  <2>1. q \in Seq(U)
    BY <1>8 DEF q, p
  <2>2. Len(w) = Len(q) + Len(body) /\ Len(body) \in Nat
    BY <1>6, <2>1, CatType
  <2> QED
    BY <1>10, <1>11, <1>12, <2>2
<1>14. w[2] \in {blank} \cup T
  <2>1. CASE Len(texts) = 0
    <3>1. Len(p) = 1 /\ Len(q) = 2
      BY <1>10, <1>11, <2>1
    <3>2. q[2] = blank /\ 2 \in 1..Len(q)
      BY <1>11, <3>1
    <3>3. w[2] = q[2]
      BY <1>12, <3>2
    <3> QED
      BY <3>2, <3>3
  <2>2. CASE Len(texts) # 0
    <3>1. 1 \in 1..Len(texts) /\ 2 \in 1..Len(p) /\ 2 \in 1..Len(q)
      BY <1>10, <1>11, <2>2
    <3>2. w[2] = texts[1]
      BY <1>10, <1>11, <1>12, <3>1
    <3>3. texts[1] \in T
      BY <1>3, <3>1, ElementOfSeq
    <3> QED
      BY <3>2, <3>3
  <2> QED
    BY <2>1, <2>2
<1>15. w # <<>> /\ w \in Seq(U)
  BY <1>9, <1>10, <1>11, <1>13 DEF q, p
<1>16. MessageLines(msg) = w
  BY <1>1 DEF q, p
<1> HIDE DEF w
<1> QED
  BY <1>13, <1>14, <1>15, <1>16 DEF start, blank, T

\* What the application may write: a request to a URI, of headers and a body.
Writable(req, method, uri) ==
    /\ IsReq(req) /\ req.type = "request" /\ req.method = method /\ req.recipient = uri
    /\ req.version = Version
    /\ \E H : req.headers \in Seq(Group(H))
    /\ \E S : req.body \in Seq(S)

\* A request of headers and a body can be written.
LEMMA RequestWritable ==
    ASSUME NEW method, NEW uri, NEW H, NEW hdrs \in Seq(H), NEW S, NEW body \in Seq(S)
    PROVE  Writable(NewRequest(method, uri, hdrs, body), method, uri)
<1> DEFINE headers == AppendAll(<<>>, hdrs)
           none == <<>>
           bare == [type |-> "request", method |-> method, recipient |-> uri,
                    version |-> Version, headers |-> headers, body |-> none]
           length == Header("Content-Length", Len(body))
           K == H \cup {length}
           more == IF GetHeaders(headers, "Content-Length") = <<>>
                   THEN AppendHeader(headers, length) ELSE ReplaceFirst(headers, length)
           full == [type |-> "request", method |-> method, recipient |-> uri,
                    version |-> Version, headers |-> more, body |-> body]
<1>1. <<>> \in Seq(Group(H)) /\ none \in Seq(S)
  BY EmptySeq
<1>2. headers \in Seq(Group(H))
  BY <1>1, AppendAllType
<1> HIDE DEF headers
<1>3. headers \in Seq(Group(K))
  <2> HIDE DEF length
  <2>1. H \subseteq K
    OBVIOUS
  <2> HIDE DEF K
  <2> QED
    BY <1>2, <2>1, WiderGroup
<1>4. length \in K
  OBVIOUS
<1> HIDE DEF length, K
<1>5. AppendHeader(headers, length) \in Seq(Group(K))
  BY <1>3, <1>4, AppendHeaderType
<1>6. ReplaceFirst(headers, length) \in Seq(Group(K))
  BY <1>3, <1>4, ReplaceType
<1>7. more \in Seq(Group(K))
  BY <1>5, <1>6
<1>8. NewRequest(method, uri, hdrs, body) = IF body = <<>> THEN bare ELSE SetBody(bare, body)
  BY DEF NewRequest, NewMessage, headers
<1>9. SetBody(bare, body) = full
  <2>1. bare.headers = headers
    OBVIOUS
  <2>2. SetBody(bare, body) = [bare EXCEPT !.body = body, !.headers = more]
    BY <2>1 DEF SetBody, length
  <2> HIDE DEF more, none
  <2> QED
    BY <2>2
<1> HIDE DEF more, none
<1>10. Writable(bare, method, uri)
  BY <1>1, <1>2 DEF Writable, IsReq
<1>11. Writable(full, method, uri)
  BY <1>7 DEF Writable, IsReq
<1> HIDE DEF bare, full
<1> QED
  BY <1>8, <1>9, <1>10, <1>11

\* Other headers do not change that.
LEMMA HeadersWritable ==
    ASSUME NEW req, NEW method, NEW uri, Writable(req, method, uri), NEW headers, NEW H,
           headers \in Seq(Group(H))
    PROVE  Writable([req EXCEPT !.headers = headers], method, uri)
<1> DEFINE new == [type |-> req.type, method |-> req.method, recipient |-> req.recipient,
                   version |-> req.version, headers |-> headers, body |-> req.body]
<1>1. req = [type |-> req.type, method |-> req.method, recipient |-> req.recipient,
             version |-> req.version, headers |-> req.headers, body |-> req.body]
  BY DEF Writable, IsReq
<1>2. [req EXCEPT !.headers = headers] = new
  BY <1>1
<1>3. Writable(new, method, uri)
  BY DEF Writable, IsReq
<1> HIDE DEF new
<1> QED
  BY <1>2, <1>3

\* Server.Request changes the first Via alone.
LEMMA SentByWritable ==
    ASSUME NEW req, NEW method, NEW uri, Writable(req, method, uri), NEW host, NEW port, NEW branch
    PROVE  Writable(WithSentBy(req, host, port, branch), method, uri)
<1> DEFINE via == FirstHeader(req.headers, "Via")[1]
           params == IF via.val[1].params # Nil THEN via.val[1].params[1]
                     ELSE Add(<<>>, <<"branch">>, Some(branch))
           rport == IF Has(params, <<"rport">>) THEN params ELSE Add(params, <<"rport">>, Nil)
           sentBy == [via.val[1] EXCEPT !.host = host, !.port = Some(port), !.params = Some(rport)]
           h == [via EXCEPT !.val[1] = sentBy]
           headers == ReplaceFirst(req.headers, h)
<1>1. WithSentBy(req, host, port, branch) = [req EXCEPT !.headers = headers]
  BY DEF WithSentBy
<1> HIDE DEF h
<1>2. PICK H : req.headers \in Seq(Group(H))
  BY DEF Writable
<1> DEFINE K == H \cup {h}
<1>3. req.headers \in Seq(Group(K)) /\ h \in K
  <2>1. H \subseteq K /\ h \in K
    OBVIOUS
  <2> HIDE DEF K
  <2> QED
    BY <1>2, <2>1, WiderGroup
<1> HIDE DEF K
<1>4. headers \in Seq(Group(K))
  BY <1>3, ReplaceType
<1> HIDE DEF headers
<1> QED
  BY <1>1, <1>4, HeadersWritable



\* Seven elements, or four.
LEMMA SevenIn ==
    ASSUME NEW X, NEW a \in X, NEW b \in X, NEW c \in X, NEW d \in X, NEW e \in X, NEW f \in X,
           NEW g \in X
    PROVE  <<a, b, c, d, e, f, g>> \in Seq(X)
  OBVIOUS

\* Four elements.
LEMMA FourIn ==
    ASSUME NEW X, NEW a \in X, NEW b \in X, NEW c \in X, NEW d \in X
    PROVE  <<a, b, c, d>> \in Seq(X)
  OBVIOUS

\* Build gives a sequence of headers.
LEMMA BuildHeadersAre ==
    ASSUME NEW method, NEW to, NEW from, NEW C, NEW contact \in Seq(C), NEW contentType,
           NEW branch, NEW callID, NEW tag
    PROVE  \E H : BuildHeaders(method, to, from, contact, contentType, branch, callID, tag)
                    \in Seq(H)
<1> DEFINE a == Header("Supported", <<>>)
           b == [Header("Allow", AllowedMethods) EXCEPT !.ptr = TRUE]
           c == Header("Via", <<NewHop(branch)>>)
           d == Header("CSeq", [seq |-> 1, method |-> method])
           e == FromHeader(from, tag)
           f == ToHeader(to)
           g == Header("Call-ID", callID)
           k == Header("Max-Forwards", 70)
           l == Header("User-Agent", <<"GoWVP">>)
           m == Header("Content-Type", contentType)
           n == Header("X-GB-Ver", <<"3.0">>)
           contacts == [i \in DOMAIN contact |-> ContactHeader(contact[i])]
           H == {a, b, c, d, e, f, g, k, l, m, n} \cup {ContactHeader(x) : x \in C}
           first == <<a, b, c, d, e, f, g>>
           last == <<k, l, m, n>>
<1>1. BuildHeaders(method, to, from, contact, contentType, branch, callID, tag) =
        (first \o contacts) \o last
  BY DEF BuildHeaders
<1> HIDE DEF a, b, c, d, e, f, g, k, l, m, n
<1>2. /\ a \in H /\ b \in H /\ c \in H /\ d \in H /\ e \in H /\ f \in H /\ g \in H
      /\ k \in H /\ l \in H /\ m \in H /\ n \in H
  OBVIOUS
<1>3. contacts \in Seq(H)
  <2>1. \A i \in DOMAIN contact : contact[i] \in C
    OBVIOUS
  <2>2. DOMAIN contact = 1..Len(contact) /\ Len(contact) \in Nat
    OBVIOUS
  <2>3. \A i \in DOMAIN contact : ContactHeader(contact[i]) \in H
    BY <2>1
  <2> HIDE DEF H
  <2> QED
    BY <2>2, <2>3
<1> HIDE DEF H
<1>4. first \in Seq(H)
  BY <1>2, SevenIn
<1>5. last \in Seq(H)
  BY <1>2, FourIn
<1> HIDE DEF first, last, contacts
<1>6. first \o contacts \in Seq(H)
  BY <1>3, <1>4, CatType
<1>7. (first \o contacts) \o last \in Seq(H)
  BY <1>5, <1>6, CatType
<1> QED
  BY <1>1, <1>7

\* The encoding of a sequence of elements is a body.
LEMMA XMLEncodeType ==
    ASSUME NEW E, NEW elements \in Seq(E)
    PROVE  \E S : XMLEncode(elements) \in Seq(S)
<1> DEFINE line(e) == IF e[2] = "utf8" THEN [e EXCEPT ![2] = "gbk"] ELSE e
           decl == Declaration("GB2312")
           S == {decl} \cup {line(e) : e \in E}
           lines == [i \in DOMAIN elements |-> line(elements[i])]
           head == <<decl>>
<1>1. XMLEncode(elements) = head \o lines
  BY DEF XMLEncode
<1> HIDE DEF decl, line
<1>2. lines \in Seq(S)
  <2>1. DOMAIN elements = 1..Len(elements) /\ Len(elements) \in Nat
    OBVIOUS
  <2>2. \A i \in DOMAIN elements : line(elements[i]) \in S
    <3>1. \A i \in DOMAIN elements : elements[i] \in E
      OBVIOUS
    <3> QED
      BY <3>1
  <2> HIDE DEF S
  <2> QED
    BY <2>1, <2>2
<1>3. head \in Seq(S)
  OBVIOUS
<1> HIDE DEF lines, head, S
<1>4. head \o lines \in Seq(S)
  BY <1>2, <1>3, CatType
<1> QED
  BY <1>1, <1>4

\* The body of each call of Service.
LEMMA CallBodyType ==
    ASSUME NEW call
    PROVE  \E S : CallBody(call) \in Seq(S)
<1> DEFINE IsBody(body) == \E S : body \in Seq(S)
<1>1. ASSUME NEW id
      PROVE  IsBody(CatalogXML(id)) /\ IsBody(DeviceInfoXML(id))
  <2> DEFINE a == Declaration("GB2312")
             b == Element("CmdType", "Catalog")
             c == Element("SN", "sn")
             d == Element("DeviceID", id)
             e == Element("CmdType", "DeviceInfo")
  <2>1. CatalogXML(id) = <<a, b, c, d>> /\ DeviceInfoXML(id) = <<a, e, c, d>>
    BY DEF CatalogXML, DeviceInfoXML
  <2> HIDE DEF a, b, c, d, e
  <2>2. <<a, b, c, d>> \in Seq({a, b, c, d})
    BY FourIn
  <2>3. <<a, e, c, d>> \in Seq({a, e, c, d})
    BY FourIn
  <2> QED
    BY <2>1, <2>2, <2>3
<1>2. ASSUME NEW id, NEW start, NEW end
      PROVE  IsBody(RecordInfoXML(id, start, end))
  <2> DEFINE a == Declaration("GB2312")
             b == Element("CmdType", "RecordInfo")
             c == Element("SN", "sn")
             d == Element("DeviceID", id)
             e == Element("StartTime", start)
             f == Element("EndTime", end)
  <2>1. RecordInfoXML(id, start, end) = <<a, b, c, d, e, f>>
    BY DEF RecordInfoXML
  <2> HIDE DEF a, b, c, d, e, f
  <2>2. <<a, b, c, d, e, f>> \in Seq({a, b, c, d, e, f})
    BY SixIn
  <2> QED
    BY <2>1, <2>2
<1>3. ASSUME NEW id, NEW configType
      PROVE  IsBody(ConfigDownloadXML(id, configType))
  <2> DEFINE a == Element("CmdType", "ConfigDownload")
             b == Element("SN", "sn")
             c == Element("DeviceID", id)
             d == Element("ConfigType", configType)
  <2>1. ConfigDownloadXML(id, configType) = XMLEncode(<<a, b, c, d>>)
    BY DEF ConfigDownloadXML
  <2> HIDE DEF a, b, c, d
  <2>2. <<a, b, c, d>> \in Seq({a, b, c, d})
    BY FourIn
  <2> QED
    BY <2>1, <2>2, XMLEncodeType
<1>4. ASSUME NEW id, NEW N, NEW snap \in Seq(N)
      PROVE  IsBody(DeviceConfigXML(id, snap))
  <2> DEFINE a == Element("CmdType", "DeviceConfig")
             b == Element("SN", "sn")
             c == Element("DeviceID", id)
             first == <<a, b, c>>
             rest == [i \in DOMAIN snap |-> Element("SnapShotConfig", snap[i])]
             E == {a, b, c} \cup {Element("SnapShotConfig", x) : x \in N}
  <2>1. DeviceConfigXML(id, snap) = XMLEncode(first \o rest)
    BY DEF DeviceConfigXML
  <2> HIDE DEF a, b, c
  <2>2. first \in Seq(E)
    <3>1. a \in E /\ b \in E /\ c \in E
      OBVIOUS
    <3> HIDE DEF E
    <3> QED
      BY <3>1, ThreeIn
  <2>3. rest \in Seq(E)
    <3>1. DOMAIN snap = 1..Len(snap) /\ Len(snap) \in Nat
      OBVIOUS
    <3>2. \A i \in DOMAIN snap : Element("SnapShotConfig", snap[i]) \in E
      <4>1. \A i \in DOMAIN snap : snap[i] \in N
        OBVIOUS
      <4> QED
        BY <4>1
    <3> HIDE DEF E
    <3> QED
      BY <3>1, <3>2
  <2> HIDE DEF first, rest, E
  <2>4. first \o rest \in Seq(E)
    BY <2>2, <2>3, CatType
  <2> QED
    BY <2>1, <2>4, XMLEncodeType
<1>5. ASSUME NEW id, NEW action, NEW speed
      PROVE  IsBody(PTZControlXML(id, action, speed))
  <2> DEFINE a == Element("CmdType", "DeviceControl")
             b == Element("SN", "sn")
             c == Element("DeviceID", id)
             d == <<"PTZCmd", "ascii">> \o HexText(BuildPTZCmd(action, speed))
  <2>1. PTZControlXML(id, action, speed) = XMLEncode(<<a, b, c, d>>)
    BY DEF PTZControlXML
  <2> HIDE DEF a, b, c, d
  <2>2. <<a, b, c, d>> \in Seq({a, b, c, d})
    BY FourIn
  <2> QED
    BY <2>1, <2>2, XMLEncodeType
<1> DEFINE session == "session"
           one == <<session>>
<1>6. <<>> \in Seq({session}) /\ one \in Seq({session})
  <2> HIDE DEF session
  <2> QED
    BY EmptySeq
<1>7. \/ CallBody(call) = CatalogXML("device") \/ CallBody(call) = DeviceInfoXML("device")
      \/ CallBody(call) = RecordInfoXML("channel", "start", "end")
      \/ CallBody(call) = ConfigDownloadXML("device", "BasicParam")
      \/ CallBody(call) = DeviceConfigXML("channel", <<>>)
      \/ CallBody(call) = DeviceConfigXML("channel", one)
      \/ CallBody(call) = PTZControlXML("channel", call.action, call.speed)
  BY DEF CallBody
<1> HIDE DEF one, session
<1>8. IsBody(DeviceConfigXML("channel", <<>>)) /\ IsBody(DeviceConfigXML("channel", one))
  BY <1>4, <1>6
<1> HIDE DEF IsBody
<1>9. IsBody(CallBody(call))
  BY <1>1, <1>2, <1>3, <1>5, <1>7, <1>8
<1> QED
  BY <1>9 DEF IsBody



\* The word "INVITE", by name.
InviteWord == "INVITE"

\* The word "channel", by name.
ChannelWord == "channel"

\* The tokens of the URIs that the platform writes to.
OutTokens ==
    STRING \cup UriGlue \cup {DeviceWord, ChannelWord, Space, Version, MessageWord, InviteWord}

\* What a call builds is a request to a URI that can be written.
LEMMA BuiltWritable ==
    ASSUME NEW call \in Calls, NEW platform
    PROVE  \E method \in {MessageWord, InviteWord}, uri \in URIs(OutTokens) :
              Writable(Built(call, platform), method, uri)
<1> DEFINE T == OutTokens
           domain == call.domain
           G(req) == \E method \in {MessageWord, InviteWord}, uri \in URIs(T) :
                          Writable(req, method, uri)
<1>1. domain \in Seq(T)
  <2>1. domain \in Seq(STRING)
    BY CallAssumption
  <2>2. STRING \subseteq T
    BY DEF OutTokens
  <2> HIDE DEF T, domain
  <2> QED
    BY <2>1, <2>2, SeqMonotonic
<1>2. /\ SipWord \in T /\ Colon \in T /\ DeviceWord \in T /\ AtSign \in T /\ ChannelWord \in T
  BY DEF OutTokens, UriGlue
<1>3. Nil \in Seq(T)
  BY EmptySeq DEF Nil
<1>4. ASSUME NEW w \in T
      PROVE  Some(<<w>>) \in Seq(Seq(T))
  <2>1. <<w>> \in Seq(T)
    BY <1>4
  <2> QED
    BY <2>1 DEF Some
<1> HIDE DEF T
<1>5. ASSUME NEW method \in {MessageWord, InviteWord}, NEW uri \in URIs(T), NEW to, NEW from,
             NEW C, NEW contact \in Seq(C), NEW contentType, NEW S, NEW body \in Seq(S),
             NEW b, NEW c, NEW t
      PROVE  G(NewRequest(method, uri,
                          BuildHeaders(method, to, from, contact, contentType, b, c, t), body))
  <2> DEFINE hdrs == BuildHeaders(method, to, from, contact, contentType, b, c, t)
  <2>1. PICK H : hdrs \in Seq(H)
    BY BuildHeadersAre
  <2> HIDE DEF hdrs
  <2>2. Writable(NewRequest(method, uri, hdrs, body), method, uri)
    BY <2>1, RequestWritable
  <2> QED
    BY <2>2 DEF hdrs
<1>6. G(ServiceRequest(call, platform))
  <2> DEFINE uri == Target(call).uri
             to == Address(Nil, uri)
             contact == Some(platform)
             body == CallBody(call)
             prefix == <<SipWord, Colon, DeviceWord, AtSign>>
             text == prefix \o domain
  <2>1. ServiceRequest(call, platform) =
          NewRequest(MessageWord, uri,
                     BuildHeaders(MessageWord, to, platform, contact, XML,
                                  <<"z1">>, <<"c1">>, <<"t1">>), body)
    BY DEF ServiceRequest, MessageWord
  <2>2. Target(call) = ParseSipURI(text)
    BY DEF Target, SipWord, Colon, DeviceWord, AtSign
  <2>3. prefix \in Seq(T)
    BY <1>2, FourIn
  <2> HIDE DEF prefix, domain
  <2>4. text \in Seq(T)
    BY <1>1, <2>3, CatType
  <2> HIDE DEF text
  <2>5. uri \in URIs(T)
    BY <2>2, <2>4, ParseSipURIType
  <2>6. contact \in Seq({platform})
    BY DEF Some
  <2>7. PICK S : body \in Seq(S)
    BY CallBodyType
  <2> HIDE DEF uri, to, contact, body, G
  <2>8. MessageWord \in {MessageWord, InviteWord}
    OBVIOUS
  <2> QED
    BY <1>5, <2>1, <2>5, <2>6, <2>7, <2>8
<1>7. G(ChannelRequest(call, platform))
  <2> DEFINE uri == NewURI(Some(<<ChannelWord>>), domain, Nil)
             to == Address(Nil, uri)
             contact == Some(platform)
             line == <<"v", "=", "0">>
             body == <<line>>
  <2>1. ChannelRequest(call, platform) =
          NewRequest(InviteWord, uri,
                     BuildHeaders(InviteWord, to, platform, contact, SDP,
                                  <<"z1">>, <<"c1">>, <<"t1">>), body)
    BY DEF ChannelRequest, InviteWord, ChannelWord
  <2>2. Some(<<ChannelWord>>) \in Seq(Seq(T))
    BY <1>2, <1>4
  <2> HIDE DEF domain
  <2>3. uri \in URIs(T)
    BY <1>1, <1>3, <2>2, NewURIType
  <2>4. contact \in Seq({platform})
    BY DEF Some
  <2> HIDE DEF line
  <2>5. body \in Seq({line})
    OBVIOUS
  <2> HIDE DEF uri, to, contact, body, G
  <2>6. InviteWord \in {MessageWord, InviteWord}
    OBVIOUS
  <2> QED
    BY <1>5, <2>1, <2>3, <2>4, <2>5, <2>6
<1>8. G(SenderRequest(call, platform))
  <2> DEFINE uri == NewURI(Some(<<DeviceWord>>), domain, Nil)
             to == Address(Some(<<>>), uri)
             body == CatalogXML("device")
             op == "Catalog"
  <2>1. to.uri = uri
    BY DEF Address
  <2>2. SenderRequest(call, platform) =
          NewRequest(MessageWord, uri,
                     BuildHeaders(MessageWord, to, platform, Nil, XML,
                                  <<"z1">>, <<"c1">>, <<"t1">>), body)
    BY <2>1 DEF SenderRequest, MessageWord, DeviceWord
  <2>3. Some(<<DeviceWord>>) \in Seq(Seq(T))
    BY <1>2, <1>4
  <2> HIDE DEF domain
  <2>4. uri \in URIs(T)
    BY <1>1, <1>3, <2>3, NewURIType
  <2>5. Nil \in Seq({platform})
    BY EmptySeq DEF Nil
  <2>6. PICK S : body \in Seq(S)
    <3> DEFINE a == Declaration("GB2312")
               b == Element("CmdType", "Catalog")
               c == Element("SN", "sn")
               d == Element("DeviceID", "device")
    <3>1. body = <<a, b, c, d>>
      BY DEF CatalogXML
    <3> HIDE DEF a, b, c, d, body
    <3>2. <<a, b, c, d>> \in Seq({a, b, c, d})
      BY FourIn
    <3> QED
      BY <3>1, <3>2
  <2> HIDE DEF uri, to, body, G
  <2>7. MessageWord \in {MessageWord, InviteWord}
    OBVIOUS
  <2> QED
    BY <1>5, <2>2, <2>4, <2>5, <2>6, <2>7
<1> DEFINE req == CASE call.op = "Invite" -> ChannelRequest(call, platform)
                    [] call.op = "Context" -> SenderRequest(call, platform)
                    [] OTHER -> ServiceRequest(call, platform)
           port == "5060"
           host == <<"platform">>
           branch == <<"z0">>
<1>9. Built(call, platform) = WithSentBy(req, host, port, branch)
  BY DEF Built
<1>10. req \in {ChannelRequest(call, platform), SenderRequest(call, platform),
                ServiceRequest(call, platform)}
  OBVIOUS
<1> HIDE DEF req, port, host, branch
<1>11. G(req)
  <2> HIDE DEF G
  <2> QED
    BY <1>6, <1>7, <1>8, <1>10
<1>12. PICK method \in {MessageWord, InviteWord}, uri \in URIs(T) : Writable(req, method, uri)
  BY <1>11
<1>13. Writable(WithSentBy(req, host, port, branch), method, uri)
  BY <1>12, SentByWritable
<1> QED
  BY <1>9, <1>12, <1>13 DEF T

\* Its text opens as a request does.
LEMMA WrittenOpens ==
    ASSUME NEW req, NEW method \in {MessageWord, InviteWord}, NEW uri \in URIs(OutTokens),
           Writable(req, method, uri)
    PROVE  /\ \E U : MessageLines(req) \in Seq(U)
           /\ MessageLines(req) # <<>> /\ Opens(MessageLines(req)[1])
<1> DEFINE start == StartLine(req)
           text == UriText(uri)
           head == <<method, Space>>
           last == <<Space, Version>>
           T == OutTokens
<1>1. start = (head \o text) \o last
  BY DEF StartLine, Writable, Space
<1>2. method \in T /\ Space \in T /\ Version \in T /\ UriGlue \subseteq T
  BY DEF OutTokens
<1>3. text \in Seq(T)
  BY <1>2, UriTextType
<1>4. head \in Seq(T) /\ Len(head) = 2 /\ head[1] = method
  BY <1>2
<1>5. last \in Seq(T)
  BY <1>2
<1>6. method # Space /\ method # Version
  BY DEF MessageWord, InviteWord, Space, Version
<1> HIDE DEF start, text, head, last, T
<1>7. head \o text \in Seq(T) /\ Len(head \o text) = 2 + Len(text) /\ Len(text) \in Nat
  BY <1>3, <1>4, CatType
<1>8. (head \o text)[1] = method
  <2>1. 1 \in 1..Len(head)
    BY <1>4
  <2> QED
    BY <1>3, <1>4, <2>1, CatLeft
<1> DEFINE p == head \o text
<1>9. p \in Seq(T)
  BY <1>7
<1>10. 1 \in 1..Len(p) /\ p[1] = method
  BY <1>7, <1>8
<1> HIDE DEF p
<1>11. (p \o last)[1] = method
  BY <1>5, <1>9, <1>10, CatLeft
<1>12. p \o last \in Seq(T) /\ Len(p \o last) = Len(p) + Len(last) /\ Len(last) \in Nat
  BY <1>5, <1>9, CatType
<1>13. start = p \o last
  BY <1>1 DEF p
<1>14. start # <<>>
  BY <1>10, <1>12, <1>13
<1>15. Opens(start)
  BY <1>6, <1>11, <1>12, <1>13, <1>14 DEF Opens
<1>16. PICK H : req.headers \in Seq(Group(H))
  BY DEF Writable
<1>17. PICK S : req.body \in Seq(S)
  BY DEF Writable
<1>18. /\ \E U : MessageLines(req) \in Seq(U)
       /\ MessageLines(req) # <<>> /\ MessageLines(req)[1] = start
  BY <1>16, <1>17, LinesAre DEF start
<1> QED
  BY <1>15, <1>18



-----------------------------------------------------------------------------
(* The shape of what the platform holds *)

\* A response is a record of its parts.
IsResp(resp) ==
    /\ resp = [type |-> resp.type, status |-> resp.status, reason |-> resp.reason,
               version |-> resp.version, headers |-> resp.headers, body |-> resp.body]
    /\ resp.type = "response" /\ resp.status \in Statuses

\* The words and the start line of the device's answer, by name.
OkCode == "200"

OkWord == "OK"

OkLine == <<Version, Space, OkCode, Space, OkWord>>

\* The device's answer does not open as a request does.
LEMMA OkSplit == ~IsRequest(OkLine)
<1>1. /\ Version # Space /\ OkCode # Space /\ OkWord # Space /\ OkWord # Version
  BY DEF Version, Space, OkCode, OkWord
<1>2. Split(OkLine, Space) = <<<<Version>>, <<OkCode>>, <<OkWord>>>>
  BY <1>1, ThreeWords DEF OkLine
<1>3. Split(OkLine, Space)[3] = <<OkWord>>
  BY <1>2
<1>4. IsRequest(OkLine) => StartsWithSIP(Split(OkLine, Space)[3])
  BY DEF IsRequest, Space
<1> QED
  BY <1>1, <1>3, <1>4 DEF StartsWithSIP

\* It is parsed to a response or dropped.
LEMMA ResponseIs ==
    ASSUME NEW packet, packet[1] = OkLine
    PROVE  ParseMessage(packet) = Nil \/ \E resp : ParseMessage(packet) = Some(resp) /\ IsResp(resp)
<1> DEFINE bare == ParseStartLine(packet[1])
           lines == After(packet, 1)
           hdrs == Flat(Each(LAMBDA text : ParseHeader(text).headers, HeaderTexts(lines)))
           headers == AppendAll(<<>>, hdrs)
           end == SelectInSeq(lines, LAMBDA l : l = <<>>)
           body == IF end = 0 THEN <<>> ELSE After(lines, end)
           msg == [bare[1] EXCEPT !.headers = headers, !.body = body]
<1>1. ParseMessage(packet) = IF bare = Nil THEN Nil ELSE Complete(msg)
  BY DEF ParseMessage, ReadHeaders
<1>2. Complete(msg) = Nil \/ Complete(msg) = Some(msg)
  BY DEF Complete
<1>3. bare = Nil \/ \E resp : bare = Some(resp) /\ IsResp(resp)
  <2> DEFINE parts == Split(OkLine, " ")
             status == CHOOSE s \in Statuses : parts[2] = <<ToString(s)>>
             reason == Join(After(parts, 2), <<" ">>)
             none == <<>>
             resp == NewResponse(status, reason, none, none)
  <2>1. \/ bare = Nil
        \/ bare = Some(resp) /\ \E s \in Statuses : parts[2] = <<ToString(s)>>
    BY OkSplit DEF ParseStartLine
  <2>2. (\E s \in Statuses : parts[2] = <<ToString(s)>>) => status \in Statuses
    <3> HIDE DEF parts
    <3> QED
      OBVIOUS
  <2> HIDE DEF parts, status, reason
  <2>3. ASSUME status \in Statuses
        PROVE  IsResp(resp)
    <3> DEFINE h == AppendAll(none, none)
    <3>1. resp = [type |-> "response", status |-> status, reason |-> reason,
                  version |-> Version, headers |-> h, body |-> none]
      BY DEF NewResponse, NewMessage
    <3> HIDE DEF h, none, resp
    <3> QED
      BY <2>3, <3>1 DEF IsResp
  <2> HIDE DEF resp, bare
  <2> QED
    BY <2>1, <2>2, <2>3
<1> HIDE DEF headers, body
<1>4. ASSUME NEW resp, bare = Some(resp), IsResp(resp)
      PROVE  IsResp(msg)
  <2> HIDE DEF bare
  <2>1. bare[1] = resp
    BY <1>4 DEF Some
  <2> DEFINE new == [type |-> resp.type, status |-> resp.status, reason |-> resp.reason,
                     version |-> resp.version, headers |-> headers, body |-> body]
  <2>2. msg = [resp EXCEPT !.headers = headers, !.body = body]
    BY <2>1
  <2>3. resp = [type |-> resp.type, status |-> resp.status, reason |-> resp.reason,
                version |-> resp.version, headers |-> resp.headers, body |-> resp.body]
    BY <1>4 DEF IsResp
  <2> HIDE DEF msg
  <2>4. msg = new
    BY <2>2, <2>3
  <2>5. IsResp(new)
    BY <1>4 DEF IsResp
  <2> HIDE DEF new
  <2> QED
    BY <2>4, <2>5
<1> HIDE DEF bare, msg
<1> QED
  BY <1>1, <1>2, <1>3, <1>4

\* The first element of a concatenation.
LEMMA CatHead ==
    ASSUME NEW T, NEW x, NEW u, u \in Seq(T), u # <<>>, u[1] = x, NEW v \in Seq(T)
    PROVE  u \o v \in Seq(T) /\ u \o v # <<>> /\ (u \o v)[1] = x
<1>1. 1 \in 1..Len(u) /\ Len(u) \in Nat \ {0}
  BY EmptySeq
<1>2. u \o v \in Seq(T) /\ Len(u \o v) = Len(u) + Len(v) /\ Len(v) \in Nat
  BY CatType
<1>3. (u \o v)[1] = u[1]
  BY <1>1, CatLeft
<1> QED
  BY <1>1, <1>2, <1>3

\* What the platform wrote opens as a request; what it heard back opens as a 200;
\* what it holds are messages and the requests of a dialog.
WroteInv == \/ wrote = <<>>
            \/ wrote # <<>> /\ Opens(wrote[1]) /\ \E U : wrote \in Seq(U)

\* What the device read is a request.
HeardInv == heard # Nil => heard[1].type = "request"

\* What the device answers opens with its start line.
GivenInv == given # <<>> => given[1] = OkLine

\* What the platform read is a response.
ResponseInv == response = Nil \/ \E resp : response = Some(resp) /\ IsResp(resp)

\* A derived request, its own record and text in R.
Derived(R) == [method : DialogMethods, request : R, text : R, at : Nat]

\* Those derived are complete, and at most MaxDerived.
DerivedInv ==
    /\ \E R : derived \in Seq(Derived(R))
    /\ Len(derived) <= MaxDerived
    /\ \A i \in DOMAIN derived : derived[i].at \in {0} \cup i..Len(derived)

\* The inductive invariant of the outgoing side.
OutInv == WroteInv /\ HeardInv /\ GivenInv /\ ResponseInv /\ DerivedInv /\ failed \in BOOLEAN

\* Before the first call there is nothing.
LEMMA InitOut == OutInit => OutInv
<1> SUFFICES ASSUME OutInit PROVE OutInv
  OBVIOUS
<1>1. WroteInv /\ HeardInv /\ GivenInv /\ ResponseInv /\ failed \in BOOLEAN
  BY DEF OutInit, WroteInv, HeardInv, GivenInv, ResponseInv
<1>2. DerivedInv
  <2>1. derived = <<>> /\ <<>> \in Seq(Derived({})) /\ Len(<<>>) = 0 /\ DOMAIN <<>> = {}
    BY EmptySeq DEF OutInit
  <2>2. MaxDerived \in Nat
    BY SignallingAssumption
  <2> QED
    BY <2>1, <2>2 DEF DerivedInv
<1> QED
  BY <1>1, <1>2 DEF OutInv

\* Ask writes a request.
LEMMA AskOut ==
    ASSUME OutInv, Ask
    PROVE  OutInv'
<1>1. PICK call \in Calls, platform \in Platforms :
          /\ request' = Nil \/ request' = Some(Built(call, platform))
          /\ wrote' = IF request' = Nil THEN <<>> ELSE MessageLines(request'[1])
  BY DEF Ask
<1>2. WroteInv'
  <2>1. CASE request' = Nil
    BY <1>1, <2>1 DEF WroteInv
  <2>2. CASE request' # Nil
    <3> DEFINE req == Built(call, platform)
    <3>1. wrote' = MessageLines(req)
      BY <1>1, <2>2 DEF Some
    <3>2. PICK method \in {MessageWord, InviteWord}, uri \in URIs(OutTokens) :
              Writable(req, method, uri)
      BY BuiltWritable
    <3> HIDE DEF req
    <3>3. /\ \E U : MessageLines(req) \in Seq(U)
          /\ MessageLines(req) # <<>> /\ Opens(MessageLines(req)[1])
      BY <3>2, WrittenOpens
    <3> QED
      BY <3>1, <3>3 DEF WroteInv, Opens
  <2> QED
    BY <2>1, <2>2
<1>3. UNCHANGED <<heard, given, response, derived, failed>>
  BY DEF Ask
<1> QED
  BY <1>2, <1>3 DEF OutInv, HeardInv, GivenInv, ResponseInv, DerivedInv

\* The device hears a request and answers with 200.
LEMMA AnswersOut ==
    ASSUME OutInv, DeviceAnswers
    PROVE  OutInv'
<1>1. wrote # <<>> /\ Opens(wrote[1]) /\ heard' = ParseMessage(wrote)
  BY DEF DeviceAnswers, OutInv, WroteInv
<1>2. PICK U : wrote \in Seq(U)
  BY <1>1 DEF OutInv, WroteInv
<1>3. HeardInv'
  <2>1. \/ ParseMessage(wrote) = Nil
        \/ \E req : ParseMessage(wrote) = Some(req) /\ IsReq(req) /\ req.type = "request"
    BY <1>1, MessageIs
  <2> QED
    BY <1>1, <2>1 DEF HeardInv, Some
<1>4. GivenInv'
  <2> DEFINE copied(name) == Keep(wrote, {l \in Range(wrote) : l # <<>> /\ l[1] = name})
             via == copied("Via")
             from == copied("From")
             to == copied("To")[1] \o <<";", "tag", "=", "d1">>
             call == copied("Call-ID")
             cseq == copied("CSeq")
             contact == <<"Contact", ":", " ", "<", "sip", ":", "device", "@", "peer", ">">>
             route == <<"Record-Route", ":", " ", "<", "sip", ":", "proxy", ";", "lr", ">">>
             length == <<"Content-Length", ":", " ", "0">>
             blank == <<>>
             T == U \cup {OkLine, to, contact, route, length, blank}
             start == <<OkLine>>
             tagged == <<to>>
             last == <<length, blank>>
  <2>1. \E withContact, recorded \in BOOLEAN :
            given' = (((((((start \o via) \o from) \o tagged) \o call) \o cseq)
                       \o (IF withContact THEN <<contact>> ELSE <<>>))
                      \o (IF recorded THEN <<route>> ELSE <<>>)) \o last
    BY DEF DeviceAnswers, OkLine, Space, OkCode, OkWord
  <2> HIDE DEF to, contact, route, length, blank
  <2>2. PICK withContact \in BOOLEAN, recorded \in BOOLEAN :
            given' = (((((((start \o via) \o from) \o tagged) \o call) \o cseq)
                       \o (IF withContact THEN <<contact>> ELSE <<>>))
                      \o (IF recorded THEN <<route>> ELSE <<>>)) \o last
    BY <2>1
  <2>3. \A name : copied(name) \in Seq(T)
    <3>1. \A name : copied(name) \in Seq(U)
      BY <1>2, KeepType
    <3>2. U \subseteq T
      OBVIOUS
    <3> HIDE DEF T, copied
    <3> QED
      BY <3>1, <3>2, SeqMonotonic
  <2>4. via \in Seq(T)
    BY <2>3
  <2>5. from \in Seq(T)
    BY <2>3
  <2>6. call \in Seq(T)
    BY <2>3
  <2>7. cseq \in Seq(T)
    BY <2>3
  <2> DEFINE c == IF withContact THEN <<contact>> ELSE <<>>
             r == IF recorded THEN <<route>> ELSE <<>>
  <2>8. start \in Seq(T) /\ start # <<>> /\ start[1] = OkLine
    OBVIOUS
  <2>9. tagged \in Seq(T)
    OBVIOUS
  <2>10. c \in Seq(T)
    <3>1. contact \in T
      OBVIOUS
    <3> HIDE DEF T
    <3> QED
      BY <3>1, EmptySeq
  <2>11. r \in Seq(T)
    <3>1. route \in T
      OBVIOUS
    <3> HIDE DEF T
    <3> QED
      BY <3>1, EmptySeq
  <2>12. last \in Seq(T)
    OBVIOUS
  <2>13. given' = (((((((start \o via) \o from) \o tagged) \o call) \o cseq) \o c) \o r) \o last
    BY <2>2
  <2> HIDE DEF start, via, from, tagged, call, cseq, c, r, last, T
  <2> DEFINE g1 == start \o via
             g2 == g1 \o from
             g3 == g2 \o tagged
             g4 == g3 \o call
             g5 == g4 \o cseq
             g6 == g5 \o c
             g7 == g6 \o r
             g8 == g7 \o last
  <2>14. given' = g8
    BY <2>13
  <2>21. g1 \in Seq(T) /\ g1 # <<>> /\ g1[1] = OkLine
    BY <2>4, <2>8, CatHead
  <2> HIDE DEF g1
  <2>22. g2 \in Seq(T) /\ g2 # <<>> /\ g2[1] = OkLine
    BY <2>5, <2>21, CatHead
  <2> HIDE DEF g2
  <2>23. g3 \in Seq(T) /\ g3 # <<>> /\ g3[1] = OkLine
    BY <2>9, <2>22, CatHead
  <2> HIDE DEF g3
  <2>24. g4 \in Seq(T) /\ g4 # <<>> /\ g4[1] = OkLine
    BY <2>6, <2>23, CatHead
  <2> HIDE DEF g4
  <2>25. g5 \in Seq(T) /\ g5 # <<>> /\ g5[1] = OkLine
    BY <2>7, <2>24, CatHead
  <2> HIDE DEF g5
  <2>26. g6 \in Seq(T) /\ g6 # <<>> /\ g6[1] = OkLine
    BY <2>10, <2>25, CatHead
  <2> HIDE DEF g6
  <2>27. g7 \in Seq(T) /\ g7 # <<>> /\ g7[1] = OkLine
    BY <2>11, <2>26, CatHead
  <2> HIDE DEF g7
  <2>28. g8 \in Seq(T) /\ g8 # <<>> /\ g8[1] = OkLine
    BY <2>12, <2>27, CatHead
  <2> HIDE DEF g8
  <2> QED
    BY <2>14, <2>28 DEF GivenInv
<1>5. UNCHANGED <<wrote, response, derived, failed>>
  BY DEF DeviceAnswers
<1> QED
  BY <1>3, <1>4, <1>5 DEF OutInv, WroteInv, ResponseInv, DerivedInv

\* The platform reads a response in it.
LEMMA ReadsOut ==
    ASSUME OutInv, PlatformReads
    PROVE  OutInv'
<1>1. given # <<>> /\ response' = ParseMessage(given)
      /\ UNCHANGED <<wrote, heard, given, derived, failed>>
  BY DEF PlatformReads
<1>2. given[1] = OkLine
  BY <1>1 DEF OutInv, GivenInv
<1>3. ResponseInv'
  BY <1>1, <1>2, ResponseIs DEF ResponseInv
<1> QED
  BY <1>1, <1>3 DEF OutInv, WroteInv, HeardInv, GivenInv, DerivedInv

\* A request is derived: the response changes its CSeq alone.
LEMMA DeriveOut ==
    ASSUME OutInv, Derive
    PROVE  OutInv'
<1>1. PICK method \in DialogMethods :
        LET made == NewRequestFromResponse(method, response[1],
                                           <<"z" \o ToString(Len(derived) + 2)>>)
        IN IF DerivationPanics(response[1])
           THEN failed' = TRUE /\ UNCHANGED <<response, derived>>
           ELSE /\ response' = Some(made.response)
                /\ derived' = Append(derived, [method |-> method, request |-> made.request,
                                               text |-> <<>>, at |-> 0])
                /\ UNCHANGED failed
  BY DEF Derive
<1> DEFINE branch == <<"z" \o ToString(Len(derived) + 2)>>
           resp == response[1]
           made == NewRequestFromResponse(method, resp, branch)
           new == [method |-> method, request |-> made.request, text |-> <<>>, at |-> 0]
<1>2. response # Nil /\ Len(derived) < MaxDerived /\ UNCHANGED <<wrote, heard, given>>
  BY DEF Derive
<1>3. IsResp(resp)
  BY <1>2 DEF OutInv, ResponseInv, Some
<1>4. WroteInv' /\ HeardInv' /\ GivenInv'
  BY <1>2 DEF OutInv, WroteInv, HeardInv, GivenInv
<1>5. CASE DerivationPanics(resp)
  <2>1. failed' = TRUE /\ UNCHANGED <<response, derived>>
    BY <1>1, <1>5
  <2> QED
    BY <1>4, <2>1 DEF OutInv, ResponseInv, DerivedInv
<1>6. CASE ~DerivationPanics(resp)
  <2>1. response' = Some(made.response) /\ derived' = Append(derived, new) /\ UNCHANGED failed
    BY <1>1, <1>6
  <2>2. IsResp(made.response)
    <3> DEFINE old == FirstHeader(resp.headers, "CSeq")[1]
               cseq == Header("CSeq", [method |-> method, seq |-> NextSeq(method, old.val.seq)])
               headers == ReplaceFirst(resp.headers, cseq)
               after == [type |-> resp.type, status |-> resp.status, reason |-> resp.reason,
                         version |-> resp.version, headers |-> headers, body |-> resp.body]
    <3>1. made.response = [resp EXCEPT !.headers = headers]
      BY DEF NewRequestFromResponse
    <3>2. resp = [type |-> resp.type, status |-> resp.status, reason |-> resp.reason,
                  version |-> resp.version, headers |-> resp.headers, body |-> resp.body]
      BY <1>3 DEF IsResp
    <3> HIDE DEF headers, made, resp
    <3>3. made.response = after
      BY <3>1, <3>2
    <3>4. IsResp(after)
      BY <1>3 DEF IsResp
    <3> HIDE DEF after
    <3> QED
      BY <3>3, <3>4
  <2>3. ResponseInv'
    BY <2>1, <2>2 DEF ResponseInv
  <2>4. DerivedInv'
    <3>1. PICK R : derived \in Seq(Derived(R))
      BY DEF OutInv, DerivedInv
    <3> DEFINE none == <<>>
               q == made.request
               K == R \cup {q, none}
    <3>2. derived \in Seq(Derived(K))
      <4>1. Derived(R) \subseteq Derived(K)
        BY DEF Derived
      <4> QED
        BY <3>1, <4>1, SeqMonotonic
    <3>3. new \in Derived(K)
      <4>1. q \in K /\ none \in K
        OBVIOUS
      <4>2. new = [method |-> method, request |-> q, text |-> none, at |-> 0]
        OBVIOUS
      <4> HIDE DEF K, q, none, new
      <4> QED
        BY <4>1, <4>2 DEF Derived
    <3>4. new.at = 0
      OBVIOUS
    <3> HIDE DEF new, K, q, none
    <3>5. derived' \in Seq(Derived(K)) /\ Len(derived') = Len(derived) + 1
      BY <2>1, <3>2, <3>3
    <3>6. Len(derived') <= MaxDerived
      BY <1>2, <3>2, <3>5, SignallingAssumption
    <3>7. \A i \in DOMAIN derived' : derived'[i].at \in {0} \cup i..Len(derived')
      <4> SUFFICES ASSUME NEW i \in DOMAIN derived'
                   PROVE  derived'[i].at \in {0} \cup i..Len(derived')
        OBVIOUS
      <4>1. i \in 1..(Len(derived) + 1) /\ Len(derived) \in Nat
        BY <3>2, <3>5
      <4>2. CASE i = Len(derived) + 1
        <5>1. derived'[i] = new
          BY <2>1, <3>2, <4>2
        <5> QED
          BY <3>4, <5>1
      <4>3. CASE i \in 1..Len(derived)
        <5>1. derived'[i] = derived[i] /\ i \in DOMAIN derived
          BY <2>1, <3>2, <4>3
        <5>2. derived[i].at \in {0} \cup i..Len(derived)
          BY <5>1 DEF OutInv, DerivedInv
        <5> QED
          BY <3>5, <4>1, <5>1, <5>2
      <4> QED
        BY <4>1, <4>2, <4>3
    <3> QED
      BY <3>5, <3>6, <3>7 DEF DerivedInv
  <2> QED
    BY <1>4, <2>1, <2>3, <2>4 DEF OutInv
<1> QED
  BY <1>5, <1>6

\* A derived request is completed and written, after those derived by then.
LEMMA SendOut ==
    ASSUME OutInv, SendDerived
    PROVE  OutInv'
<1> DEFINE shared(i) == ReplaceFirst(derived[i].request.headers,
                                     FirstHeader(response[1].headers, "CSeq")[1])
           full(i) == WithSentBy([derived[i].request EXCEPT !.headers = shared(i)],
                                 <<"platform">>, "5060", <<"z0">>)
<1>1. PICK i \in DOMAIN derived :
          derived' = [derived EXCEPT ![i].request = full(i), ![i].text = MessageLines(full(i)),
                                     ![i].at = Len(derived)]
  BY DEF SendDerived
<1>2. UNCHANGED <<wrote, heard, given, response, failed>>
  BY DEF SendDerived
<1>3. PICK R : derived \in Seq(Derived(R))
  BY DEF OutInv, DerivedInv
<1> DEFINE f == full(i)
           text == MessageLines(f)
           old == derived[i]
           new == [method |-> old.method, request |-> f, text |-> text, at |-> Len(derived)]
           K == R \cup {f, text}
<1>4. old \in Derived(R) /\ i \in 1..Len(derived) /\ Len(derived) \in Nat
  BY <1>3
<1>5. derived' = [derived EXCEPT ![i] = new]
  <2> HIDE DEF full
  <2>1. old = [method |-> old.method, request |-> old.request, text |-> old.text, at |-> old.at]
    BY <1>4 DEF Derived
  <2> DEFINE e == [[[old EXCEPT !.request = f] EXCEPT !.text = text] EXCEPT !.at = Len(derived)]
  <2>2. e = new
    <3> DEFINE r1 == [method |-> old.method, request |-> f, text |-> old.text, at |-> old.at]
               r2 == [method |-> old.method, request |-> f, text |-> text, at |-> old.at]
    <3>1. [old EXCEPT !.request = f] = r1
      <4> HIDE DEF old, f
      <4> QED
        BY <2>1
    <3>2. [r1 EXCEPT !.text = text] = r2
      <4> HIDE DEF old, f, text
      <4> QED
        OBVIOUS
    <3>3. [r2 EXCEPT !.at = Len(derived)] = new
      <4> HIDE DEF old, f, text
      <4> QED
        OBVIOUS
    <3> HIDE DEF r1, r2, f, text, old
    <3> QED
      BY <3>1, <3>2, <3>3
  <2>3. derived' = [derived EXCEPT ![i] = e]
    BY <1>1
  <2> HIDE DEF e, new
  <2> QED
    BY <2>2, <2>3
<1> HIDE DEF f, text
<1>6. new \in Derived(K) /\ new.at = Len(derived)
  <2>1. f \in K /\ text \in K
    OBVIOUS
  <2>2. old.method \in DialogMethods
    BY <1>4 DEF Derived
  <2> HIDE DEF K, old
  <2> QED
    BY <1>4, <2>1, <2>2 DEF Derived
<1>7. derived \in Seq(Derived(K))
  <2>1. Derived(R) \subseteq Derived(K)
    BY DEF Derived
  <2> QED
    BY <1>3, <2>1, SeqMonotonic
<1> HIDE DEF new, old, K
<1>8. derived' \in Seq(Derived(K)) /\ Len(derived') = Len(derived)
      /\ \A k \in 1..Len(derived) : derived'[k] = IF k = i THEN new ELSE derived[k]
  BY <1>4, <1>5, <1>6, <1>7, ExceptSeq
<1>9. \A k \in DOMAIN derived' : derived'[k].at \in {0} \cup k..Len(derived')
  <2> SUFFICES ASSUME NEW k \in DOMAIN derived'
               PROVE  derived'[k].at \in {0} \cup k..Len(derived')
    OBVIOUS
  <2>1. k \in 1..Len(derived) /\ k \in DOMAIN derived
    BY <1>7, <1>8
  <2>2. CASE k = i
    BY <1>4, <1>6, <1>8, <2>1, <2>2
  <2>3. CASE k # i
    <3>1. derived[k].at \in {0} \cup k..Len(derived)
      BY <2>1 DEF OutInv, DerivedInv
    <3> QED
      BY <1>8, <2>1, <2>3, <3>1
  <2> QED
    BY <2>2, <2>3
<1>10. DerivedInv'
  <2>1. Len(derived') <= MaxDerived
    BY <1>8 DEF OutInv, DerivedInv
  <2> QED
    BY <1>8, <1>9, <2>1 DEF DerivedInv
<1> QED
  BY <1>2, <1>10 DEF OutInv, WroteInv, HeardInv, GivenInv, ResponseInv

\* No step of the platform's call leaves the shape.
LEMMA NextOut ==
    ASSUME OutInv, [SigNext]_sigvars
    PROVE  OutInv'
<1>1. CASE UNCHANGED outvars
  BY <1>1 DEF OutInv, outvars, WroteInv, HeardInv, GivenInv, ResponseInv, DerivedInv
<1>2. CASE OutNext
  BY <1>2, AskOut, AnswersOut, ReadsOut, DeriveOut, SendOut DEF OutNext
<1>3. UNCHANGED sigvars => UNCHANGED outvars
  BY DEF sigvars, outvars
<1> QED
  BY <1>1, <1>2, <1>3 DEF SigNext, DeviceTalks, PlatformTalks

\* The shape is the type invariant of the platform's side.
LEMMA OutTyped == OutInv => OutTypeOK
<1> SUFFICES ASSUME OutInv PROVE OutTypeOK
  OBVIOUS
<1>1. heard # Nil => heard[1].type = "request"
  BY DEF OutInv, HeardInv
<1>2. response # Nil => response[1].type = "response" /\ response[1].status \in Statuses
  BY DEF OutInv, ResponseInv, IsResp, Some
<1>3. \A i \in DOMAIN derived : derived[i].method \in DialogMethods
  <2>1. PICK R : derived \in Seq(Derived(R))
    BY DEF OutInv, DerivedInv
  <2>2. \A i \in DOMAIN derived : derived[i] \in Derived(R)
    BY <2>1
  <2> QED
    BY <2>2 DEF Derived
<1> QED
  BY <1>1, <1>2, <1>3 DEF OutTypeOK, OutInv, DerivedInv

\* Both sides keep the shape that their actions are written for: whatever URI the
\* application calls, what the platform writes is read as a request, what it is given
\* is read as a response or dropped, and each derived request knows when it was sent.
THEOREM SignallingTyped == SigSpec => []TypeOK
<1>1. SigInit => OutInv
  BY InitOut DEF SigInit
<1>2. OutInv /\ [SigNext]_sigvars => OutInv'
  BY NextOut
<1>3. OutInv => OutTypeOK
  BY OutTyped
<1>4. SigSpec => []InTypeOK
  BY InboundTyped
<1>5. InTypeOK /\ OutTypeOK => TypeOK
  BY DEF TypeOK
<1>6. SigSpec => []OutTypeOK
  BY <1>1, <1>2, <1>3, PTL DEF SigSpec
<1> QED
  BY <1>4, <1>5, <1>6, PTL



-----------------------------------------------------------------------------
(* Whose a request stays *)

\* The tag leaves a To header one.
LEMMA RetaggedTo ==
    ASSUME NEW h, IsHeader(h), IsTo(h), NEW S, NEW tag \in Seq(S), NEW y, Retagged(h, y, tag)
    PROVE  IsTo(y)
<1> DEFINE key == <<"tag">>
           val == Some(tag)
           added == Add(h.val.params[1], key, val)
<1>1. y.kind = "To"
  BY DEF Retagged, ToName
<1>2. CASE y = h
  BY <1>2
<1>3. CASE y = [h EXCEPT !.val.params[1] = added]
  <2>1. PICK T : \A U : T \subseteq U => h.val \in Addresses(U)
    BY DEF IsTo
  <2> DEFINE W == T \cup {"tag"} \cup S
             p == h.val.params
             q == [p EXCEPT ![1] = added]
             v == [name |-> h.val.name, uri |-> h.val.uri, params |-> q]
  <2>2. T \subseteq T /\ h.val \in Addresses(T)
    BY <2>1
  <2>3. h.val = [name |-> h.val.name, uri |-> h.val.uri, params |-> p]
    <3> HIDE DEF URIs, Param
    <3> QED
      BY <2>2 DEF Addresses
  <2>4. h = [kind |-> h.kind, ptr |-> h.ptr, val |-> h.val]
    BY DEF IsHeader
  <2>5. y.val = v
    <3> DEFINE w == [h.val EXCEPT !.params[1] = added]
    <3>1. w = v
      <4> HIDE DEF added
      <4> QED
        BY <2>3
    <3>2. y = [h EXCEPT !.val = w]
      <4> HIDE DEF added
      <4> QED
        BY <1>3, <2>4
    <3> HIDE DEF w
    <3>3. y.val = w
      BY <2>4, <3>2
    <3> QED
      BY <3>1, <3>3
  <2>6. ASSUME NEW U, W \subseteq U
        PROVE  y.val \in Addresses(U)
    <3>1. T \subseteq U /\ "tag" \in U /\ S \subseteq U
      BY <2>6
    <3>2. h.val \in Addresses(U)
      BY <2>1, <3>1
    <3>3. h.val.name \in Seq(Seq(U)) /\ h.val.uri \in URIs(U) /\ p \in Seq(Lists(U))
      <4> HIDE DEF URIs, Param
      <4> QED
        BY <3>2 DEF Addresses
    <3>4. key \in Seq(U)
      BY <3>1, OneIn
    <3>5. tag \in Seq(U)
      BY <3>1, SeqMonotonic
    <3> HIDE DEF key
    <3>6. val \in Seq(Seq(U))
      BY <3>5, OneIn DEF Some
    <3> HIDE DEF val, p
    <3>7. q \in Seq(Lists(U))
      <4>1. CASE p = <<>>
        <5>1. 1 \notin DOMAIN p
          BY <4>1
        <5> HIDE DEF added
        <5>2. q = p
          BY <3>3, <5>1
        <5> QED
          BY <3>3, <5>2
      <4>2. CASE p # <<>>
        <5>1. 1 \in 1..Len(p)
          BY <3>3, <4>2, EmptySeq
        <5>2. p[1] \in Lists(U)
          BY <3>3, <5>1, ElementOfSeq
        <5>3. added \in Lists(U)
          BY <3>4, <3>6, <5>2, AddType DEF p
        <5> HIDE DEF added, Param
        <5> QED
          BY <3>3, <5>1, <5>3, ExceptSeq
      <4> QED
        BY <4>1, <4>2
    <3> HIDE DEF q
    <3>8. v \in Addresses(U)
      BY <3>3, <3>7, AddressIn
    <3> QED
      BY <2>5, <3>8
  <2>7. \A U : W \subseteq U => y.val \in Addresses(U)
    BY <2>6
  <2> HIDE DEF W
  <2> QED
    BY <1>1, <2>7 DEF IsTo
<1> QED
  BY <1>2, <1>3 DEF Retagged

\* The answer leaves a request that of x.
LEMMA TaggedSource ==
    ASSUME NEW x, NEW req, Source(x, req), NEW status, NEW reason, NEW S, NEW tag \in Seq(S),
           NEW asked, asked = NewResponseFromRequest(req, status, reason, tag).request
    PROVE  Source(x, asked)
<1>1. IsReq(req) /\ req.method = x.form.method
  BY DEF Source
<1>2. PICK H : /\ \A h \in H : Carries({x.form}, h) /\ Fits(x.num, h)
               /\ req.headers \in Seq(Grouped(H))
  BY DEF Source
<1>3. \A h \in H : IsHeader(h)
  BY <1>2 DEF Carries
<1>4. IsReq(asked) /\ asked.method = req.method
  BY <1>1, <1>2, <1>3, TaggedParts
<1>5. PICK T : /\ asked.headers \in Seq(Grouped(T))
               /\ \A y \in T : y \in H \/ \E h \in H : Retagged(h, y, tag)
  BY <1>1, <1>2, <1>3, TaggedParts
<1>6. ASSUME NEW y \in T
      PROVE  Carries({x.form}, y) /\ Fits(x.num, y)
  <2>1. CASE y \in H
    BY <1>2, <2>1
  <2>2. ASSUME NEW h \in H, Retagged(h, y, tag)
        PROVE  Carries({x.form}, y) /\ Fits(x.num, y)
    <3>1. y.kind = ToName /\ IsHeader(y) /\ h.kind = ToName
      BY <2>2 DEF Retagged
    <3>2. NameOf(y) = ToName /\ NameOf(h) = ToName
      BY <3>1, NamesDiffer DEF NameOf
    <3>3. Carries({x.form}, y)
      BY <3>1, <3>2, NamesDiffer DEF Carries
    <3>4. IsTo(h)
      BY <1>2, <3>2 DEF Fits
    <3>5. IsTo(y)
      BY <1>3, <2>2, <3>4, RetaggedTo
    <3>6. ToName \notin Copied
      BY DEF ToName, Copied, RouteName, ViaName, FromName, CSeqName, CallName
    <3> QED
      BY <3>2, <3>3, <3>5, <3>6 DEF Fits
  <2> QED
    BY <1>5, <2>1, <2>2
<1> QED
  BY <1>1, <1>4, <1>5, <1>6 DEF Source

-----------------------------------------------------------------------------
(* Whose an answer is *)

\* A branch is no token of the Via of another request.
LEMMA BranchOwn ==
    ASSUME NEW m \in 1..MaxSent, NEW k \in 1..MaxSent, Branch(m) \in ViaTokens(k)
    PROVE  m = k
<1> DEFINE b == Branch(m)
<1>1. IsWord(b) /\ (Branch(m) = Branch(k) => m = k)
  BY DeviceAssumption
<1>2. b \notin {"Via", "SIP", "2.0", "TCP", "peer", "5060", "branch"}
  BY DeviceAssumption
<1>3. b \notin Marks
  BY <1>1 DEF IsWord
<1>4. b \notin Glue \cup {Empty}
  BY <1>3 DEF Marks, Glue, Space, Colon, Semi, Comma, Slash, Quote, Equals, Empty
<1>5. b \notin {ViaName, SIPWord, NumberWord, TCPWord, PeerWord, PortWord, BranchWord}
  BY <1>2 DEF ViaName, SIPWord, NumberWord, TCPWord, PeerWord, PortWord, BranchWord
<1> HIDE DEF b
<1>6. b = Branch(k)
  BY <1>4, <1>5 DEF b, ViaTokens
<1> QED
  BY <1>1, <1>6 DEF b

\* A line is the Via line of no request but the k-th.
Own(k, line) == \A m \in 1..MaxSent : line = HeaderLine(ViaName, ViaText(m)) => m = k

\* What follows the first token of a text.
LEMMA ConsNext ==
    ASSUME NEW T, NEW x \in T, NEW text \in Seq(T), NEW i \in 1..Len(text), NEW s,
           s = Cons(x, text)
    PROVE  s \in Seq(T) /\ Len(s) = Len(text) + 1 /\ s[i + 1] = text[i]
<1> DEFINE a == <<x>>
<1>1. s = a \o text
  BY DEF Cons
<1>2. a \in Seq(T) /\ Len(a) = 1
  OBVIOUS
<1> HIDE DEF a
<1>3. a \in Seq(T)
  BY <1>2
<1>4. /\ s \in Seq(T) /\ Len(s) = Len(a) + Len(text) /\ Len(text) \in Nat
      /\ \A j \in 1..Len(text) : s[Len(a) + j] = text[j]
  BY <1>1, <1>3, CatIs
<1>5. s[1 + i] = text[i] /\ 1 + i = i + 1
  BY <1>2, <1>4
<1> QED
  BY <1>2, <1>4, <1>5

\* What is written apart is no other's Via.
LEMMA ApartOwn ==
    ASSUME NEW k \in 1..MaxSent, NEW h, Apart(k, h)
    PROVE  Own(k, HeaderText(h))
<1> SUFFICES ASSUME NEW m \in 1..MaxSent, HeaderText(h) = HeaderLine(ViaName, ViaText(m))
             PROVE  m = k
  BY DEF Own
<1> DEFINE text == ViaText(m)
           l == HeaderText(h)
<1>1. text \in Seq(Token) /\ text # <<>> /\ text[Len(text)] = Branch(m)
  BY ViaTextIs
<1> HIDE DEF text
<1>2. ViaName \in Token /\ Space \in Token /\ Colon \in Token
  BY MarksAreTokens DEF Token, NameWords
<1>3. HeaderLine(ViaName, text)[1] = ViaName
  BY <1>1, <1>2, HeaderLineIs
<1>4. l = Cons(ViaName, Cons(Colon, Cons(Space, text)))
  BY DEF HeaderLine, text
<1>5. l \in Seq(ViaTokens(k))
  BY <1>3 DEF Apart, text
<1>6. \E i \in 1..Len(l) : l[i] = Branch(m)
  <2> DEFINE c == Cons(Space, text)
             d == Cons(Colon, c)
             n == Len(text)
  <2>1. n \in 1..Len(text)
    BY <1>1, EmptySeq
  <2> HIDE DEF n
  <2>0. text \in Seq(Token) /\ Space \in Token /\ c = Cons(Space, text)
    BY <1>1, <1>2
  <2> HIDE DEF c
  <2>2. c \in Seq(Token) /\ Len(c) = Len(text) + 1 /\ c[n + 1] = text[n]
    BY <2>0, <2>1, ConsNext
  <2>3. n + 1 \in 1..Len(c)
    BY <2>1, <2>2
  <2>8. c \in Seq(Token) /\ Colon \in Token /\ d = Cons(Colon, c)
    BY <1>2, <2>2
  <2> HIDE DEF d
  <2>4. d \in Seq(Token) /\ Len(d) = Len(c) + 1 /\ d[n + 1 + 1] = c[n + 1]
    BY <2>3, <2>8, ConsNext
  <2>5. n + 1 + 1 \in 1..Len(d)
    BY <2>3, <2>4
  <2>6. Len(l) = Len(d) + 1 /\ l[n + 1 + 1 + 1] = d[n + 1 + 1]
    <3>1. d \in Seq(Token) /\ ViaName \in Token /\ l = Cons(ViaName, d)
      BY <1>2, <1>4, <2>4 DEF d, c
    <3> HIDE DEF l
    <3> QED
      BY <2>5, <3>1, ConsNext
  <2>7. n + 1 + 1 + 1 \in 1..Len(l)
    BY <2>5, <2>6
  <2> QED
    BY <1>1, <2>2, <2>4, <2>6, <2>7 DEF n
<1>7. Branch(m) \in ViaTokens(k)
  BY <1>5, <1>6, ElementOfSeq
<1> QED
  BY <1>7, BranchOwn



-----------------------------------------------------------------------------
(* What an answer is made of *)

\* CopyHeaders of a name, where no clone panics, keeps what is written apart.
LEMMA CopyApart ==
    ASSUME NEW k, NEW H, NEW from \in Seq(Grouped(H)), \A h \in H : Fits(k, h), NEW name \in Copied,
           ~CopyPanics(name, from), NEW K, \A h \in H : Apart(k, CloneHeader(h)) => CloneHeader(h) \in K,
           NEW to \in Seq(Group(K))
    PROVE  CopyHeaders(name, from, to) \in Seq(Group(K))
<1> DEFINE list == GetHeaders(from, name)
           N == Named(H, name)
           copies == Each(CloneHeader, list)
<1>1. list \in Seq(N)
  BY GroupedGet
<1>2. CopyHeaders(name, from, to) = AppendAll(to, copies)
  BY DEF CopyHeaders
<1>3. copies = [i \in DOMAIN list |-> CloneHeader(list[i])]
  BY DEF Each
<1>4. \A i \in DOMAIN list : ~ClonePanics(list[i])
  BY DEF CopyPanics
<1> HIDE DEF list, copies
<1>5. DOMAIN list = 1..Len(list) /\ Len(list) \in Nat /\ \A i \in DOMAIN list : list[i] \in N
  <2> HIDE DEF N
  <2> QED
    BY <1>1
<1>6. ASSUME NEW i \in DOMAIN list
      PROVE  CloneHeader(list[i]) \in K
  <2>1. list[i] \in H /\ NameOf(list[i]) = name
    BY <1>5 DEF Named
  <2>2. Apart(k, CloneHeader(list[i]))
    BY <1>4, <2>1 DEF Fits
  <2> QED
    BY <2>1, <2>2
<1>7. copies \in Seq(K)
  BY <1>3, <1>5, <1>6
<1> QED
  BY <1>2, <1>7, AppendAllType

\* Only a Record-Route cannot be cloned, of what an answer copies.
LEMMA OthersClone ==
    ASSUME NEW H, NEW from \in Seq(Grouped(H)), NEW name \in Copied \ {RouteName}
    PROVE  ~CopyPanics(name, from)
<1> DEFINE list == GetHeaders(from, name)
           N == Named(H, name)
<1>1. list \in Seq(N)
  BY GroupedGet
<1>2. name \notin RouteKinds
  BY DEF Copied, RouteName, ViaName, FromName, CSeqName, CallName, RouteKinds
<1>3. "Generic" \notin RouteKinds
  BY DEF RouteKinds
<1>4. ASSUME NEW i \in DOMAIN list, ClonePanics(list[i])
      PROVE  FALSE
  <2> DEFINE h == list[i]
  <2>1. h \in N
    <3> HIDE DEF list, N
    <3> QED
      BY <1>1
  <2>2. h.kind \in RouteKinds
    BY <1>4 DEF ClonePanics
  <2>3. NameOf(h) = name
    BY <2>1 DEF Named
  <2>4. NameOf(h) = h.kind
    BY <1>3, <2>2 DEF NameOf
  <2> QED
    BY <1>2, <2>2, <2>3, <2>4
<1> QED
  BY <1>4 DEF CopyPanics

\* A To header that is one is written as no Via.
LEMMA ToApart ==
    ASSUME NEW k, NEW h, IsTo(h)
    PROVE  Apart(k, h)
<1>1. PICK T : \A U : T \subseteq U => h.val \in Addresses(U)
  BY DEF IsTo
<1> DEFINE U == T \cup UriGlue \cup {Space, Langle, Rangle}
<1>2. T \subseteq U /\ UriGlue \subseteq U /\ Space \in U /\ Langle \in U /\ Rangle \in U
  OBVIOUS
<1> HIDE DEF U
<1>3. h.val \in Addresses(U)
  BY <1>1, <1>2
<1>4. AddressText(h.val) \in Seq(U)
  BY <1>2, <1>3, AddressTextType
<1>5. h.kind \in AddressKinds /\ NameOf(h) = ToName /\ ToName # ViaName
  BY DEF IsTo, AddressKinds, NameOf, ToName, ViaName
<1>6. ValueText(h) = AddressText(h.val)
  BY <1>5, ValueOfAddress
<1> QED
  BY <1>4, <1>5, <1>6, ApartNamed

\* The headers that an answer adds of its own.
LengthOfNone == Header("Content-Length", 0)

Agent == Generic("User-Agent", <<"GoWVP/1.0">>)

Date == Generic("Date", <<"now">>)

Challenge == Generic("WWW-Authenticate", <<"challenge">>)

Added == {LengthOfNone, Agent, Date, Challenge}

\* A header of any name with a text of one token.
LEMMA ValueOfGeneric ==
    ASSUME NEW name, NEW token, NEW h, h = Generic(name, <<token>>)
    PROVE  NameOf(h) = name /\ ValueText(h) = <<token>>
<1> DEFINE text == <<token>>
<1>0. h = Generic(name, text)
  OBVIOUS
<1> HIDE DEF text
<1>1. h.kind = "Generic" /\ h.val.name = name /\ h.val.text = text
  BY <1>0 DEF Generic, Header
<1>2. NameOf(h) = name
  BY <1>1 DEF NameOf
<1>3. ValueText(h) = h.val.text
  BY <1>1 DEF ValueText, AddressKinds, NumberKinds, TextKinds, RouteKinds
<1> QED
  BY <1>1, <1>2, <1>3 DEF text

\* They are no Via.
LEMMA AddedApart ==
    ASSUME NEW k, NEW h \in Added
    PROVE  Apart(k, h)
<1>1. ASSUME NEW name, NEW token, h = Generic(name, <<token>>), name # ViaName
      PROVE  Apart(k, h)
  <2>1. NameOf(h) = name /\ ValueText(h) = <<token>>
    BY <1>1, ValueOfGeneric
  <2>2. ValueText(h) \in Seq({token})
    BY <2>1, OneIn
  <2> QED
    BY <1>1, <2>1, <2>2, ApartNamed
<1>2. CASE h = LengthOfNone
  <2>1. h.kind = "Content-Length" /\ h.val = 0
    BY <1>2 DEF LengthOfNone, Header
  <2>2. ValueText(h) = <<ToString(0)>>
    BY <2>1 DEF ValueText, AddressKinds, NumberKinds, TextKinds, RouteKinds
  <2>3. NameOf(h) # ViaName
    BY <2>1 DEF NameOf, ViaName
  <2>4. ValueText(h) \in Seq({ToString(0)})
    BY <2>2, OneIn
  <2> QED
    BY <2>3, <2>4, ApartNamed
<1>3. "User-Agent" # ViaName /\ "Date" # ViaName /\ "WWW-Authenticate" # ViaName
  BY DEF ViaName
<1> QED
  BY <1>1, <1>2, <1>3 DEF Added, Agent, Date, Challenge



\* The record of an answer.
AnswerOf(status, reason, headers) ==
    [type |-> "response", status |-> status, reason |-> reason, version |-> Version,
     headers |-> headers, body |-> <<>>]

\* The answer to a request, with the headers that are added to it.
Responded(req, status, reason, tag, extra) ==
    [NewResponseFromRequest(req, status, reason, tag).response
        EXCEPT !.headers = AppendAll(@, extra)]

\* It is written with headers that are no other's Via.
IsApart(k, status, reason, answer) ==
    \E K : \E headers \in Seq(Group(K)) :
        (\A h \in K : Apart(k, h)) /\ answer = AnswerOf(status, reason, headers)

\* What the answer to the request of x is: its headers are written as no other's Via.
LEMMA ResponseApart ==
    ASSUME NEW x, NEW req, Source(x, req), ~ResponsePanics(req), NEW status, NEW reason,
           NEW S, NEW tag \in Seq(S), NEW extra \in Seq(Added), NEW answer,
           answer = Responded(req, status, reason, tag, extra)
    PROVE  IsApart(x.num, status, reason, answer)
<1> DEFINE k == x.num
           from == req.headers
           to == FirstHeader(from, ToName)
           tagged == Tagged(to, tag)
           first == CopyHeaders(RouteName, from, <<>>)
           second == CopyHeaders(ViaName, from, first)
           copied == CopyHeaders(FromName, from, second)
           both == AppendAll(copied, tagged)
           third == CopyHeaders(CSeqName, from, both)
           mirrored == CopyHeaders(CallName, from, third)
           length == LengthOfNone
           sized == IF GetHeaders(mirrored, "Content-Length") = <<>>
                    THEN AppendHeader(mirrored, length) ELSE ReplaceFirst(mirrored, length)
           signed == AppendHeader(sized, Agent)
           headers == AppendAll(signed, extra)
<1>1. PICK H : /\ \A h \in H : Carries({x.form}, h) /\ Fits(x.num, h)
               /\ req.headers \in Seq(Grouped(H))
  BY DEF Source
<1>2. from \in Seq(Grouped(H)) /\ \A h \in H : IsHeader(h) /\ Fits(k, h)
  BY <1>1 DEF Carries
<1> DEFINE tos == {tagged[i] : i \in DOMAIN tagged}
           K == {h \in {CloneHeader(g) : g \in H} \cup tos \cup Added : Apart(k, h)}
<1>3. tagged \in Seq(K)
  <2>1. tagged = Nil \/ \E h \in H : \E y : tagged = <<y>> /\ Retagged(h, y, tag)
    BY <1>2, TaggedIs
  <2>2. CASE tagged = Nil
    BY <2>2, EmptySeq DEF Nil
  <2>3. ASSUME NEW h \in H, NEW y, tagged = <<y>>, Retagged(h, y, tag)
        PROVE  tagged \in Seq(K)
    <3>1. h.kind = ToName
      BY <2>3 DEF Retagged
    <3>2. NameOf(h) = ToName
      BY <3>1, NamesDiffer DEF NameOf
    <3>3. IsTo(h) /\ IsHeader(h)
      BY <1>2, <3>2 DEF Fits
    <3>4. IsTo(y)
      BY <2>3, <3>3, RetaggedTo
    <3>5. Apart(k, y)
      BY <3>4, ToApart
    <3>6. y \in tos
      <4> HIDE DEF tagged
      <4>1. 1 \in DOMAIN tagged /\ tagged[1] = y
        BY <2>3
      <4> QED
        BY <4>1
    <3>7. y \in K
      BY <3>5, <3>6
    <3> HIDE DEF K, tagged
    <3> QED
      BY <2>3, <3>7, OneIn
  <2> QED
    BY <2>1, <2>2, <2>3
<1>4. \A h \in H : Apart(k, CloneHeader(h)) => CloneHeader(h) \in K
  OBVIOUS
<1>5. Added \subseteq K
  BY AddedApart
<1>6. \A h \in K : Apart(k, h)
  OBVIOUS
<1> HIDE DEF K, k
<1>7. /\ RouteName \in Copied /\ ViaName \in Copied \ {RouteName}
      /\ FromName \in Copied \ {RouteName} /\ CSeqName \in Copied \ {RouteName}
      /\ CallName \in Copied \ {RouteName}
  BY DEF Copied, RouteName, ViaName, FromName, CSeqName, CallName
<1>8. ~CopyPanics(RouteName, from)
  BY DEF ResponsePanics, RECORDROUTE, RouteName
<1>9. /\ ~CopyPanics(ViaName, from) /\ ~CopyPanics(FromName, from)
      /\ ~CopyPanics(CSeqName, from) /\ ~CopyPanics(CallName, from)
  BY <1>2, <1>7, OthersClone
<1>10. \A name \in {RouteName, ViaName, FromName, CSeqName, CallName} :
            name \in Copied /\ ~CopyPanics(name, from)
  BY <1>7, <1>8, <1>9
<1>11. ASSUME NEW name \in {RouteName, ViaName, FromName, CSeqName, CallName},
              NEW old \in Seq(Group(K))
       PROVE  CopyHeaders(name, from, old) \in Seq(Group(K))
  <2>1. name \in Copied /\ ~CopyPanics(name, from)
    BY <1>10
  <2>2. \A h \in H : Fits(k, h)
    BY <1>2
  <2> HIDE DEF from
  <2>3. from \in Seq(Grouped(H))
    BY <1>2
  <2> QED
    BY <1>4, <2>1, <2>2, <2>3, CopyApart
<1>12. <<>> \in Seq(Group(K))
  BY EmptySeq
<1> HIDE DEF from, tagged
<1>13. first \in Seq(Group(K))
  BY <1>11, <1>12
<1> HIDE DEF first
<1>14. second \in Seq(Group(K))
  BY <1>11, <1>13
<1> HIDE DEF second
<1>15. copied \in Seq(Group(K))
  BY <1>11, <1>14
<1> HIDE DEF copied
<1>16. both \in Seq(Group(K))
  BY <1>3, <1>15, AppendAllType
<1> HIDE DEF both
<1>17. third \in Seq(Group(K))
  BY <1>11, <1>16
<1> HIDE DEF third
<1>18. mirrored \in Seq(Group(K))
  BY <1>11, <1>17
<1> HIDE DEF mirrored
<1>19. length \in K /\ Agent \in K
  BY <1>5 DEF Added
<1> HIDE DEF length
<1>20. AppendHeader(mirrored, length) \in Seq(Group(K))
  BY <1>18, <1>19, AppendHeaderType
<1>21. ReplaceFirst(mirrored, length) \in Seq(Group(K))
  BY <1>18, <1>19, ReplaceType
<1>22. sized \in Seq(Group(K))
  BY <1>20, <1>21
<1> HIDE DEF sized
<1>23. signed \in Seq(Group(K))
  BY <1>19, <1>22, AppendHeaderType
<1> HIDE DEF signed
<1>24. extra \in Seq(K)
  BY <1>5, SeqMonotonic
<1>25. headers \in Seq(Group(K))
  BY <1>23, <1>24, AppendAllType
<1> HIDE DEF headers
<1>26. answer = AnswerOf(status, reason, headers)
  <2> DEFINE none == <<>>
             bare == [NewResponse(status, reason, none, none) EXCEPT !.headers = mirrored]
             full == SetBody(bare, none)
             made == [full EXCEPT !.headers = AppendHeader(@, Agent)]
  <2>1. NewResponseFromRequest(req, status, reason, tag).response = made
    BY DEF NewResponseFromRequest, mirrored, third, both, copied, second, first, to, tagged, Tagged,
           from, RECORDROUTE, RouteName, ViaName, FromName, CSeqName, CallName, ToName, Agent
  <2>2. bare = AnswerOf(status, reason, mirrored)
    BY DEF NewResponse, NewMessage, AnswerOf
  <2>3. full = AnswerOf(status, reason, sized)
    <3>1. Len(none) = 0
      OBVIOUS
    <3> HIDE DEF bare
    <3>2. bare.headers = mirrored
      BY <2>2 DEF AnswerOf
    <3>3. full = [bare EXCEPT !.body = none, !.headers = sized]
      BY <3>1, <3>2 DEF SetBody, sized, length, LengthOfNone
    <3> QED
      BY <2>2, <3>3 DEF AnswerOf
  <2> HIDE DEF bare, full
  <2>4. made = AnswerOf(status, reason, signed)
    BY <2>3 DEF AnswerOf, signed
  <2> HIDE DEF made
  <2>5. answer = [made EXCEPT !.headers = AppendAll(@, extra)]
    BY <2>1 DEF Responded
  <2> QED
    BY <2>4, <2>5 DEF AnswerOf, headers
<1> QED
  BY <1>6, <1>25, <1>26 DEF k, IsApart



-----------------------------------------------------------------------------
(* The lines of an answer *)

\* The start line of an answer names its status.
LEMMA StatusLine ==
    ASSUME NEW R, NEW reason \in Seq(R), NEW c, c # Space
    PROVE  Split(<<Version, Space, c, Space>> \o reason, Space)[2] = <<c>>
<1> DEFINE T == {Version, Space, c} \cup R
           w == Version
           s == Space
           sr == <<s>> \o reason
           v == <<c>> \o sr
           line == <<w, s, c, s>> \o reason
           vo == <<w>>
           so == <<s>>
           co == <<c>>
           two == <<c, s>>
           three == <<s, c, s>>
<1>1. reason \in Seq(T)
  BY SeqMonotonic
<1>2. w \in T /\ s \in T /\ c \in T /\ w \in T \ {s} /\ c \in T \ {s}
  BY DEF Version, Space
<1> HIDE DEF T
<1>3. so \in Seq(T) /\ two \in Seq(T) /\ three \in Seq(T)
      /\ vo \in Seq(T \ {s}) /\ co \in Seq(T \ {s})
  BY <1>2
<1>4. /\ <<w, s, c, s>> = Cons(w, three) /\ three = Cons(s, two) /\ two = Cons(c, so)
  BY Two, Three, Four
<1>5. line = Cons(w, three) \o reason
  BY <1>4
<1>6. sr = so \o reason /\ v = co \o sr
  OBVIOUS
<1>7. /\ \A x : Cons(x, sr) = <<x>> \o sr
      /\ Cons(s, v) = so \o v
      /\ Cons(w, so \o v) = vo \o (so \o v)
      /\ Cons(c, sr) = v
  BY DEF Cons
<1> HIDE DEF w, s, sr, v, line, vo, so, co, two, three
<1>8. sr \in Seq(T)
  BY <1>1, <1>3, <1>6, CatType
<1>9. v \in Seq(T)
  <2>1. co \in Seq(T)
    BY <1>3, SeqMonotonic
  <2> QED
    BY <1>6, <1>8, <2>1, CatType
<1>10. two \o reason = v
  <2>0. two = Cons(c, so)
    BY <1>4
  <2>1. reason \in Seq(T) /\ c \in T /\ so \in Seq(T)
    BY <1>1, <1>2, <1>3
  <2>2. Cons(c, so) \o reason = Cons(c, so \o reason)
    BY <2>1, ConsCat
  <2> QED
    <3>1. Cons(c, so) \o reason = v
      <4>1. Cons(c, sr) = v
        BY <1>7
      <4>2. so \o reason = sr
        BY <1>6
      <4> QED
        BY <2>2, <4>1, <4>2
    <3> QED
      BY <2>0, <3>1
<1>11. three \o reason = so \o v
  <2>0. three = Cons(s, two)
    BY <1>4
  <2>1. reason \in Seq(T) /\ s \in T /\ two \in Seq(T)
    BY <1>1, <1>2, <1>3
  <2>2. Cons(s, two) \o reason = Cons(s, two \o reason)
    BY <2>1, ConsCat
  <2> QED
    <3>1. Cons(s, v) = so \o v
      BY <1>7
    <3>2. Cons(s, two) \o reason = so \o v
      BY <1>10, <2>2, <3>1
    <3> QED
      BY <2>0, <3>2
<1>12. line = vo \o (so \o v)
  <2>1. reason \in Seq(T) /\ w \in T /\ three \in Seq(T)
    BY <1>1, <1>2, <1>3
  <2>2. Cons(w, three) \o reason = Cons(w, three \o reason)
    BY <2>1, ConsCat
  <2> QED
    BY <1>5, <1>7, <1>11, <2>2
<1>13. Split(line, s) = <<vo>> \o Split(v, s)
  BY <1>2, <1>3, <1>9, <1>12, SplitCat DEF so
<1>14. Split(v, s) = <<co>> \o Split(reason, s)
  <2>1. v = co \o (<<s>> \o reason)
    BY <1>6 DEF so
  <2> QED
    BY <1>1, <1>2, <1>3, <2>1, SplitCat
<1> DEFINE p == Split(v, s)
           q == Split(reason, s)
           P == Seq(T)
           first == <<vo>>
           second == <<co>>
<1>15. p \in Seq(P) /\ q \in Seq(P)
  BY <1>1, <1>9, SplitType
<1>16. vo \in P /\ co \in P
  BY <1>3, SeqMonotonic
<1> HIDE DEF P, p, q
<1>17. first \in Seq(P) /\ second \in Seq(P) /\ Len(first) = 1 /\ Len(second) = 1 /\ second[1] = co
  BY <1>16
<1>18. Split(line, s) = first \o p /\ p = second \o q
  BY <1>13, <1>14 DEF p, q
<1> HIDE DEF first, second
<1>19. p[1] = co /\ p # <<>>
  <2>1. 1 \in 1..Len(second)
    BY <1>17
  <2>2. p[1] = second[1] /\ Len(p) = Len(second) + Len(q) /\ Len(q) \in Nat
    BY <1>15, <1>17, <1>18, <2>1, CatType, CatLeft
  <2> QED
    BY <1>17, <2>2
<1>20. Split(line, s)[2] = p[1]
  <2>1. 1 \in 1..Len(p)
    BY <1>15, <1>19, EmptySeq
  <2>2. (first \o p)[Len(first) + 1] = p[1]
    BY <1>15, <1>17, <2>1, CatRight
  <2>3. Len(first) + 1 = 2
    BY <1>17
  <2>4. Split(line, s)[2] = (first \o p)[Len(first) + 1]
    BY <1>18, <2>3
  <2> QED
    BY <2>2, <2>4
<1> QED
  BY <1>19, <1>20 DEF line, s, w, co

\* The reason is three tokens.
LEMMA ReasonIn ==
    ASSUME NEW status \in StatusCodes
    PROVE  \E R : Reasons[status] \in Seq(R)
<1> DEFINE w == "reason"
           s == " "
           c == ToString(status)
           R == {w, s, c}
<1>1. Reasons[status] = <<w, s, c>>
  BY DEF Reasons, StatusCodes
<1> HIDE DEF w, s, c
<1>2. <<w, s, c>> \in Seq(R)
  OBVIOUS
<1> QED
  BY <1>1, <1>2

\* The status of an answer is read off its lines, and its Via is no other's.
LEMMA AnswerLines ==
    ASSUME NEW k \in 1..MaxSent, NEW status \in StatusCodes, NEW K, \A h \in K : Apart(k, h),
           NEW headers \in Seq(Group(K)), NEW lines,
           lines = MessageLines(AnswerOf(status, Reasons[status], headers))
    PROVE  (\E U : lines \in Seq(U)) /\ Own(k, lines[2])
           /\ (StatusOf(lines) = "200" => status = 200)
<1> DEFINE reason == Reasons[status]
           msg == AnswerOf(status, reason, headers)
           c == ToString(status)
<1>1. msg.type = "response" /\ msg.headers = headers /\ msg.body = <<>> /\ msg.version = Version
      /\ msg.status = status /\ msg.reason = reason
  BY DEF AnswerOf
<1>2. lines = MessageLines(msg)
  OBVIOUS
<1>3. msg.body \in Seq({})
  BY <1>1, EmptySeq
<1>4. PICK R : reason \in Seq(R)
  BY ReasonIn
<1> HIDE DEF reason, msg
<1>5. /\ \E U : lines \in Seq(U)
      /\ lines[1] = StartLine(msg)
      /\ lines[2] \in {<<>>} \cup {HeaderText(h) : h \in K}
  BY <1>1, <1>2, <1>3, LinesAre
<1>6. Own(k, <<>>)
  <2> SUFFICES ASSUME NEW m \in 1..MaxSent, <<>> = HeaderLine(ViaName, ViaText(m))
               PROVE  FALSE
    BY DEF Own
  <2>1. ViaName \in Token /\ ViaText(m) \in Seq(Token)
    BY ViaTextIs DEF Token, NameWords
  <2> QED
    BY <2>1, HeaderLineIs
<1>7. Own(k, lines[2])
  BY <1>5, <1>6, ApartOwn
<1>8. \A n \in StatusCodes : IsWord(ToString(n)) /\ (ToString(n) = "200" => n = 200)
  BY DeviceAssumption DEF StatusCodes
<1>9. c # Space
  BY <1>8, WordOf, WordIs
<1>10. StartLine(msg) = <<Version, Space, c, Space>> \o reason
  BY <1>1 DEF StartLine, Space
<1> HIDE DEF c
<1>11. Split(<<Version, Space, c, Space>> \o reason, Space)[2] = <<c>>
  BY <1>4, <1>9, StatusLine
<1>12. StatusOf(lines) = c
  <2>1. Split(lines[1], Space)[2] = <<c>>
    BY <1>5, <1>10, <1>11
  <2> QED
    <3>1. StatusOf(lines) = Split(lines[1], Space)[2][1]
      BY DEF StatusOf, Space
    <3> QED
      BY <2>1, <3>1
<1> QED
  BY <1>5, <1>7, <1>8, <1>12 DEF c

\* What is added to an answer is known.
LEMMA ExtraIn ==
    ASSUME NEW job
    PROVE  Extra(job) \in Seq(Added)
<1>1. Date \in Added /\ Challenge \in Added
  BY DEF Added
<1>2. Extra(job) \in {<<Date>>, <<Challenge>>, <<>>}
  BY DEF Extra, Date, Challenge
<1>3. <<Date>> \in Seq(Added) /\ <<Challenge>> \in Seq(Added) /\ <<>> \in Seq(Added)
  BY <1>1, OneIn, EmptySeq
<1> QED
  BY <1>2, <1>3



-----------------------------------------------------------------------------
(* The goroutine of a registration, where a password is asked for *)

RegisterKey == <<"REGISTER">>

Guards == IF program = "hooks" THEN <<"register">> ELSE <<"gate", "own">>

\* The job of the registration x: no handler but those that ask for the password,
\* and 200 only if it was there.
Guarded(x, job) ==
    PasswordProgram /\ x.form.method = "REGISTER" =>
        /\ job.handlers = Guards
        /\ job.stage # "message" /\ (job.stage = "register" => program = "hooks")
        /\ job.status = 200 => x.form.auth = "right"

\* The route of REGISTER when RegisterHandlers is called last.
LEMMA RegisteredOwn ==
    RegisterKey \in DOMAIN RegisterHandlers(<<>>)
    /\ RegisterHandlers(<<>>)[RegisterKey] = <<"register">>
<1> DEFINE none == <<>>
           r == RegisterKey
           m == <<"MESSAGE">>
           n == <<"NOTIFY">>
           h == <<"register">>
           own == AddRoute(none, r, h)
           messages == AddRoute(own, m, none)
           methods == AddRoute(messages, n, none)
           all == RegisterHandlers(none)
<1>1. r # m /\ r # n
  <2>1. r[1] = "REGISTER" /\ m[1] = "MESSAGE" /\ n[1] = "NOTIFY"
    BY DEF RegisterKey
  <2> HIDE DEF r, m, n
  <2> QED
    BY <2>1
<1>2. r \notin CommandKeys
  <2>1. \A k \in CommandKeys : Len(k) = 2
    BY DEF CommandKeys
  <2>2. Len(r) = 1
    BY DEF RegisterKey
  <2> HIDE DEF r
  <2> QED
    BY <2>1, <2>2
<1>3. all = [k \in DOMAIN methods \cup CommandKeys |->
                IF k \in CommandKeys THEN <<"message">> ELSE methods[k]]
  BY DEF RegisterHandlers, RegisterKey
<1> HIDE DEF r, m, n, h, all
<1>4. r \in DOMAIN own /\ own[r] = h
  BY DEF AddRoute
<1> HIDE DEF own
<1>5. r \in DOMAIN messages /\ messages[r] = h
  BY <1>1, <1>4 DEF AddRoute
<1> HIDE DEF messages
<1>6. r \in DOMAIN methods /\ methods[r] = h
  BY <1>1, <1>5 DEF AddRoute
<1> HIDE DEF methods
<1>7. r \in DOMAIN all /\ all[r] = h
  BY <1>2, <1>3, <1>6
<1> QED
  BY <1>7 DEF r, h, all

\* A registration comes to the handlers that ask for the password.
LEMMA GuardsRoute ==
    ASSUME PasswordProgram
    PROVE  RegisterKey \in DOMAIN Routes /\ Routes[RegisterKey] = Guards
<1> DEFINE base == RegisterHandlers(<<>>)
           h == <<"gate", "own">>
<1>1. CASE program = "hooks"
  <2>1. Routes = base /\ Guards = <<"register">>
    BY <1>1 DEF Routes, Guards
  <2> QED
    BY <2>1, RegisteredOwn
<1>2. CASE program = "custom"
  <2>1. Routes = AddRoute(base, RegisterKey, h) /\ Guards = h
    BY <1>2 DEF Routes, Guards, RegisterKey
  <2> HIDE DEF base, h
  <2> QED
    BY <2>1 DEF AddRoute
<1> QED
  BY <1>1, <1>2 DEF PasswordProgram

\* The next handler is one that asks for the password.
LEMMA NextGuarded ==
    ASSUME NEW R, NEW job \in Job(R), NEW x, Guarded(x, job)
    PROVE  Guarded(x, Next(job))
<1> DEFINE index == job.index + 1
           stage == IF index > Len(job.handlers) THEN "done" ELSE job.handlers[index]
<1>1. job \in JobRecord(R) /\ index \in Nat \ {0}
  BY DEF Job, JobRecord
<1>2. job.handlers = Guards => stage \in {"gate", "own", "done"} \cup
                                         (IF program = "hooks" THEN {"register"} ELSE {})
  BY <1>1 DEF Guards
<1>3. Next(job) = [job EXCEPT !.index = index, !.stage = stage]
  BY DEF Next
<1> HIDE DEF index, stage
<1>4. Next(job).stage = stage /\ Next(job).handlers = job.handlers /\ Next(job).status = job.status
  BY <1>1, <1>3 DEF JobRecord
<1> HIDE DEF Guards
<1> QED
  BY <1>2, <1>4 DEF Guarded

\* An answer with 200 is one to the password.
LEMMA ReplyingGuarded ==
    ASSUME NEW R, NEW job \in Job(R), NEW x, Guarded(x, job), NEW status, NEW then,
           PasswordProgram /\ x.form.method = "REGISTER" /\ status = 200 => x.form.auth = "right"
    PROVE  /\ Guarded(x, Replying(job, status, then))
           /\ Guarded(x, Replying([job EXCEPT !.index = AbortIndex], status, then))
<1>1. job \in JobRecord(R)
  BY DEF Job
<1> HIDE DEF Guards
<1>2. /\ Replying(job, status, then).handlers = job.handlers
      /\ Replying(job, status, then).stage = "reply"
      /\ Replying(job, status, then).status = status
  BY <1>1 DEF Replying, JobRecord
<1>3. /\ Replying([job EXCEPT !.index = AbortIndex], status, then).handlers = job.handlers
      /\ Replying([job EXCEPT !.index = AbortIndex], status, then).stage = "reply"
      /\ Replying([job EXCEPT !.index = AbortIndex], status, then).status = status
  BY <1>1 DEF Replying, JobRecord
<1> QED
  BY <1>2, <1>3 DEF Guarded

\* So is the goroutine of a registration from its start.
LEMMA GoroutineGuarded ==
    ASSUME NEW x, NEW req, req.method = x.form.method, NEW conn, RouteKey(req) # Nil
    PROVE  Guarded(x, Goroutine(req, conn, RouteKey(req)[1]))
<1> SUFFICES ASSUME PasswordProgram, req.method = "REGISTER"
             PROVE  Guarded(x, Goroutine(req, conn, RouteKey(req)[1]))
  BY DEF Guarded
<1> DEFINE key == RouteKey(req)[1]
           job == [req |-> req, conn |-> conn, index |-> 0, status |-> 0, stage |-> "done",
                   handlers |-> Guards, then |-> "done"]
<1>1. key = RegisterKey
  <2>1. RouteKey(req) = Some(RegisterKey)
    BY DEF RouteKey, RegisterKey
  <2> QED
    BY <2>1 DEF Some
<1>2. key \in DOMAIN Routes /\ Routes[key] = Guards
  BY <1>1, GuardsRoute
<1> HIDE DEF key, Guards
<1>3. Goroutine(req, conn, key) = Next(job)
  BY <1>2 DEF Goroutine
<1>4. Next(job).handlers = Guards /\ Next(job).status = 0
      /\ Next(job).stage = IF 1 > Len(Guards) THEN "done" ELSE Guards[1]
  BY DEF Next
<1>5. (IF 1 > Len(Guards) THEN "done" ELSE Guards[1]) \in
            {"gate"} \cup (IF program = "hooks" THEN {"register"} ELSE {})
  BY DEF Guards
<1> HIDE DEF job
<1> QED
  BY <1>3, <1>4, <1>5 DEF Guarded, key

\* What x asks without the password is refused.
LEMMA SourceRefused ==
    ASSUME NEW x \in Asks, NEW req, Source(x, req), req.method = "REGISTER", x.form.auth # "right"
    PROVE  Unauthorized(req)
<1>1. x.form \in Guesses
  BY DEF Asks, Guesses
<1>2. PICK H : /\ \A h \in H : Carries({x.form}, h) /\ Fits(x.num, h)
               /\ req.headers \in Seq(Grouped(H))
  BY DEF Source
<1>3. \A h \in H : Carries(Guesses, h)
  <2>1. {x.form} \subseteq Guesses
    BY <1>1
  <2> QED
    BY <1>2, <2>1 DEF Carries
<1>4. RequestOf(Guesses, req)
  BY <1>2, <1>3 DEF Source, RequestOf, CarriedBy
<1> QED
  BY <1>4, GuessRefused

\* A handler keeps the job of its request guarded.
LEMMA HandlerGuarded ==
    ASSUME IInv, NEW j \in DOMAIN jobs,
           Gate(j) \/ Register(j) \/ SipRegister(j) \/ Handle(j) \/ ProbeDevice(j),
           NEW x \in Asks, Source(x, jobs[j].req), Guarded(x, jobs[j])
    PROVE  \E job : /\ job.req = jobs[j].req /\ Guarded(x, job)
                    /\ jobs' = [jobs EXCEPT ![j] = job]
<1>1. PICK R : jobs[j] \in Job(R)
  BY JobOf
<1> DEFINE old == jobs[j]
           right == PasswordProgram /\ x.form.method = "REGISTER" => x.form.auth = "right"
<1>2. /\ Next(old).req = old.req
      /\ \A status, then : Replying(old, status, then).req = old.req
      /\ \A status, then : Replying([old EXCEPT !.index = AbortIndex], status, then).req = old.req
  BY <1>1, SameRequest
<1>3. Guarded(x, Next(old))
  BY <1>1, NextGuarded
<1>4. ASSUME NEW status, NEW then, status = 200 => right
      PROVE  /\ Guarded(x, Replying(old, status, then))
             /\ Guarded(x, Replying([old EXCEPT !.index = AbortIndex], status, then))
  BY <1>1, <1>4, ReplyingGuarded
<1>5. ASSUME NEW job, job.req = old.req, Guarded(x, job), NEW record, Step(j, job, record)
      PROVE  \E y : /\ y.req = jobs[j].req /\ Guarded(x, y)
                    /\ jobs' = [jobs EXCEPT ![j] = y]
  BY <1>5 DEF Step
<1>6. old.req.method = x.form.method
  BY DEF Source
<1>7. CASE Gate(j)
  <2>1. \/ Step(j, Next(old), book)
        \/ Step(j, Replying([old EXCEPT !.index = AbortIndex], 403, "next"), book)
    BY <1>7 DEF Gate
  <2>2. Guarded(x, Replying([old EXCEPT !.index = AbortIndex], 403, "next"))
    BY <1>4
  <2> HIDE DEF right
  <2> QED
    BY <1>2, <1>3, <1>5, <2>1, <2>2
<1>8. CASE Register(j) \/ SipRegister(j) \/ Handle(j)
  <2>1. \E status, then, record : Step(j, Replying(old, status, then), record)
                                  /\ (status = 200 => right)
    <3>1. CASE Register(j)
      <4>1. \E status, then, record : Step(j, Replying(old, status, then), record)
               /\ (status = 200 => ~(program = "hooks" /\ Unauthorized(old.req)))
        <5>1. \/ \E status \in {400, 500} : Step(j, Replying(old, status, "next"), book)
              \/ Step(j, Replying(old, 401, "next"), book)
              \/ /\ ~(program = "hooks" /\ Unauthorized(old.req))
                 /\ \E record : Step(j, Replying(old, 200, "next"), record)
          BY <3>1 DEF Register
        <5> HIDE DEF old
        <5> QED
          BY <5>1
      <4>2. old.stage = "register"
        BY <3>1 DEF Register, At
      <4>3. ~(program = "hooks" /\ Unauthorized(old.req)) => right
        BY <1>6, <4>2, SourceRefused DEF Guarded
      <4> QED
        BY <4>1, <4>3
    <3>2. CASE SipRegister(j)
      <4>1. \E status, then, record : Step(j, Replying(old, status, then), record)
               /\ (status = 200 => ~Unauthorized(old.req))
        <5>1. \/ \E status \in {400, 401} : Step(j, Replying(old, status, "next"), book)
              \/ /\ ~Unauthorized(old.req)
                 /\ \E then, record : Step(j, Replying(old, 200, then), record)
          BY <3>2 DEF SipRegister
        <5> HIDE DEF old
        <5> QED
          BY <5>1
      <4>2. ~Unauthorized(old.req) => right
        BY <1>6, SourceRefused
      <4> QED
        BY <4>1, <4>2
    <3>3. CASE Handle(j)
      <4>1. \E status, then, record : Step(j, Replying(old, status, then), record)
        BY <3>3 DEF Handle
      <4>2. old.stage = "message"
        BY <3>3 DEF Handle, At
      <4>3. right
        BY <4>2 DEF Guarded
      <4> QED
        BY <4>1, <4>3
    <3> QED
      BY <1>8, <3>1, <3>2, <3>3
  <2>2. PICK status, then, record : Step(j, Replying(old, status, then), record)
                                    /\ (status = 200 => right)
    BY <2>1
  <2> DEFINE y == Replying(old, status, then)
  <2>3. y.req = old.req /\ Guarded(x, y)
    BY <1>2, <1>4, <2>2
  <2> HIDE DEF y
  <2>4. Step(j, y, record)
    BY <2>2 DEF y
  <2> QED
    BY <1>5, <2>3, <2>4
<1>9. CASE ProbeDevice(j)
  <2>1. jobs' = [jobs EXCEPT ![j] = Next(old)]
    BY <1>9 DEF ProbeDevice
  <2> QED
    BY <1>2, <1>3, <2>1
<1> QED
  BY <1>7, <1>8, <1>9



-----------------------------------------------------------------------------
(* What is on the wire, and whose a request is *)

\* What the device has asked so far: the form of a request and its number.
Asked == {[form |-> sent[k].form, num |-> k] : k \in DOMAIN sent}

\* The lines of every request are those of an ask with its form.
NumberInv ==
    \A n \in DOMAIN sent : \E k \in DOMAIN sent :
        sent[k].form = sent[n].form /\ sent[n].lines = DeviceLines(sent[n].form, k)

\* The texts in which every start line is one that was asked, with its headers.
WholeChunks == WholeTexts(Asked, LinesOf(Forms)) \ {<<>>}

WholeInv == wire \in [Conns -> Seq(WholeChunks)]

\* Every job is that of an ask, and guarded as such.
OriginInv == \A j \in DOMAIN jobs : \E x \in Asked : Source(x, jobs[j].req) /\ Guarded(x, jobs[j])

\* What is asked.
LEMMA AskedIs ==
    ASSUME SentInv
    PROVE  /\ Asked \in SUBSET Asks
           /\ \A x \in Asked : x.num \in DOMAIN sent /\ x.num \in 1..MaxSent
                               /\ x.form = sent[x.num].form
<1>1. sent \in Seq(SentRecords) /\ Len(sent) \in Nat /\ Len(sent) <= MaxSent /\ MaxSent \in Nat
  BY SignallingAssumption DEF SentInv
<1>2. \A k \in DOMAIN sent : sent[k].form \in Forms /\ k \in 1..MaxSent
  <2> SUFFICES ASSUME NEW k \in DOMAIN sent
               PROVE  sent[k].form \in Forms /\ k \in 1..MaxSent
    OBVIOUS
  <2>1. k \in 1..Len(sent)
    BY <1>1
  <2>2. sent[k] \in SentRecords
    BY <1>1, <2>1, ElementOfSeq
  <2>3. k \in 1..MaxSent
    BY <1>1, <2>1
  <2> QED
    BY <2>2, <2>3 DEF SentRecords
<1>3. ASSUME NEW k \in DOMAIN sent, NEW x, x = [form |-> sent[k].form, num |-> k]
      PROVE  x \in Asks /\ x.num \in DOMAIN sent /\ x.num \in 1..MaxSent
             /\ x.form = sent[x.num].form
  BY <1>2, <1>3 DEF Asks
<1> QED
  BY <1>3 DEF Asked

\* What was asked stays asked.
LEMMA AskedGrows ==
    ASSUME SentInv, [SigNext]_sigvars
    PROVE  Asked \subseteq Asked'
  BY SentGrows DEF Asked

\* What is whole stays whole.
LEMMA WiderChunks ==
    ASSUME Asked \subseteq Asked'
    PROVE  WholeChunks \subseteq WholeChunks'
<1> SUFFICES ASSUME NEW L \in WholeChunks
             PROVE  L \in WholeChunks'
  OBVIOUS
<1>1. L \in Seq(LinesOf(Forms)) /\ Whole(Asked, L) /\ L # <<>>
  BY DEF WholeChunks, WholeTexts
<1>2. Whole(Asked', L)
  BY <1>1, WholeWider
<1> QED
  BY <1>1, <1>2 DEF WholeChunks, WholeTexts

\* The wire that is left alone stays whole.
LEMMA StillWhole ==
    ASSUME SentInv, WholeInv, [SigNext]_sigvars, UNCHANGED wire
    PROVE  WholeInv'
<1> DEFINE C == WholeChunks
           D == WholeChunks'
<1>1. C \subseteq D
  BY AskedGrows, WiderChunks
<1>2. wire \in [Conns -> Seq(C)]
  BY DEF WholeInv
<1> HIDE DEF C, D
<1>3. Seq(C) \subseteq Seq(D)
  BY <1>1, SeqMonotonic
<1>4. wire' \in [Conns -> Seq(D)]
  BY <1>2, <1>3
<1> QED
  BY <1>4 DEF WholeInv, D

\* A request that is written is whole, and its number that of a request of its form.
LEMMA WriteWhole ==
    ASSUME SentInv, ShapeInv, WholeInv, NumberInv, [SigNext]_sigvars, NEW form \in Forms, NEW lines,
           NEW k \in 1..MaxSent, lines = DeviceLines(form, k), Write(form, lines),
           k = Len(sent) + 1 \/ (k \in DOMAIN sent /\ sent[k].form = form)
    PROVE  WholeInv' /\ NumberInv'
<1> DEFINE early == \E n \in DOMAIN sent : IsRegistration(n) /\ ~Answered(n)
           s == [form |-> form, lines |-> lines, conn |-> current, early |-> early]
           x == [form |-> form, num |-> k]
<1>1. sent' = Append(sent, s)
  BY DEF Write
<1>2. s.form = form /\ s.lines = lines
  OBVIOUS
<1> HIDE DEF s
<1>3. sent \in Seq(SentRecords) /\ Len(sent) \in Nat
  BY DEF SentInv
<1>4. Len(sent) + 1 \in DOMAIN sent' /\ sent'[Len(sent) + 1] = s
  BY <1>1, <1>3, AppendProperties, LenProperties
<1>5. \A n \in DOMAIN sent : n \in DOMAIN sent' /\ sent'[n] = sent[n]
  BY SentGrows
<1>6. \A n \in DOMAIN sent' : n = Len(sent) + 1 \/ n \in DOMAIN sent
  BY <1>1, <1>3, AppendProperties, LenProperties
<1>7. k \in DOMAIN sent' /\ sent'[k].form = form
  BY <1>2, <1>4, <1>5
<1>8. NumberInv'
  <2> SUFFICES ASSUME NEW n \in DOMAIN sent'
               PROVE  \E i \in DOMAIN sent' : /\ sent'[i].form = sent'[n].form
                                              /\ sent'[n].lines = DeviceLines(sent'[n].form, i)
    BY DEF NumberInv
  <2>1. CASE n = Len(sent) + 1
    BY <1>2, <1>4, <1>7, <2>1
  <2>2. CASE n \in DOMAIN sent
    BY <1>5, <2>2 DEF NumberInv
  <2> QED
    BY <1>6, <2>1, <2>2
<1>9. x \in Asks /\ x.form = form /\ x.num = k
  BY DEF Asks
<1>10. x \in Asked'
  BY <1>7 DEF Asked
<1> HIDE DEF x
<1>11. Whole({x}, lines)
  BY <1>9, LinesWhole
<1>12. lines \in Seq(LinesOf(Forms)) \ {<<>>}
  BY DeviceLinesIn
<1>13. lines \in WholeChunks'
  <2>1. {x} \subseteq Asked'
    BY <1>10
  <2>2. Whole(Asked', lines)
    BY <1>11, <2>1, WholeWider
  <2> QED
    BY <1>12, <2>2 DEF WholeChunks, WholeTexts
<1>14. wire' = [wire EXCEPT ![current] = Append(@, lines)] /\ current \in Conns
  BY DEF Write, ShapeInv
<1> DEFINE C == WholeChunks
           D == WholeChunks'
<1>15. C \subseteq D /\ wire \in [Conns -> Seq(C)] /\ lines \in D
  BY <1>13, AskedGrows, WiderChunks DEF WholeInv
<1> HIDE DEF C, D
<1>16. wire \in [Conns -> Seq(D)]
  <2>1. Seq(C) \subseteq Seq(D)
    BY <1>15, SeqMonotonic
  <2> QED
    BY <1>15, <2>1
<1>17. wire' \in [Conns -> Seq(D)]
  BY <1>14, <1>15, <1>16
<1> QED
  BY <1>8, <1>17 DEF WholeInv, D

\* What is read is the beginning of a whole text, and what is left is whole.
LEMMA ReadWhole ==
    ASSUME WholeInv, (\E c \in Conns : ReadFrame(c)) \/ ReadDatagram
    PROVE  \E c \in Conns, rest \in Seq(WholeChunks), L \in WholeChunks : \E end \in 1..Len(L) :
                Receive(c, SubSeq(L, 1, end), rest)
<1> DEFINE T == LinesOf(Forms)
           W == WholeTexts(Asked, T)
           C == WholeChunks
<1>0. wire \in [Conns -> Seq(C)] /\ C = W \ {<<>>} /\ W = {L \in Seq(T) : Whole(Asked, L)}
  BY DEF WholeInv, WholeChunks, WholeTexts
<1> HIDE DEF T, C
<1>1. ASSUME NEW c \in Conns, ReadFrame(c)
      PROVE  \E rest \in Seq(C), L \in C :
                \E end \in 1..Len(L) : Receive(c, SubSeq(L, 1, end), rest)
  <2> DEFINE all == Arrived(c)
             end == PacketEnd(all)
             packet == Upto(all, end)
             rest == IF end = Len(all) THEN <<>> ELSE <<After(all, end)>>
  <2>1. end # 0 /\ Receive(c, packet, rest)
    BY <1>1 DEF ReadFrame
  <2>2. wire[c] \in Seq(W)
    <3> HIDE DEF W
    <3>1. C \subseteq W
      BY <1>0
    <3>2. wire[c] \in Seq(C)
      BY <1>0
    <3> QED
      BY <3>1, <3>2, SeqMonotonic
  <2>3. all \in W
    BY <2>2, WholeFlat DEF Arrived
  <2> HIDE DEF all, W
  <2>4. all \in Seq(T) /\ Whole(Asked, all)
    BY <1>0, <2>3
  <2>5. end \in 0..Len(all) /\ Len(all) \in Nat
    BY <2>4, PacketEndIn
  <2> HIDE DEF end
  <2>6. end \in 1..Len(all)
    BY <2>1, <2>5
  <2>7. all # <<>>
    BY <2>6
  <2>8. packet = SubSeq(all, 1, end) /\ all \in C
    BY <1>0, <2>3, <2>7 DEF Upto
  <2>9. rest \in Seq(C)
    <3>1. CASE end = Len(all)
      <4>1. rest = <<>>
        BY <3>1
      <4> HIDE DEF rest
      <4> QED
        BY <4>1, EmptySeq
    <3>2. CASE end # Len(all)
      <4> DEFINE a == After(all, end)
      <4>1. rest = <<a>> /\ a = After(all, end)
        BY <3>2
      <4>2. /\ end + 1 \in 1..(Len(all) + 1) /\ Len(all) \in ((end + 1) - 1)..Len(all)
            /\ Len(all) - (end + 1) + 1 # 0
        BY <2>5, <2>6, <3>2
      <4>3. a \in Seq(T) /\ Len(a) = Len(all) - (end + 1) + 1
        BY <2>4, <4>2, SubType DEF After
      <4> HIDE DEF a, rest
      <4>4. Len(a) # 0
        BY <4>2, <4>3
      <4>5. a # <<>>
        BY <4>4
      <4>6. Whole(Asked, a)
        BY <2>4, <2>5, <4>1, WholeAfter
      <4>7. a \in C
        BY <1>0, <4>3, <4>5, <4>6
      <4> QED
        BY <4>1, <4>7, OneIn
    <3> QED
      BY <3>1, <3>2
  <2> HIDE DEF packet, rest
  <2> QED
    BY <2>1, <2>6, <2>8, <2>9
<1> HIDE DEF W
<1>2. ASSUME ReadDatagram
      PROVE  \E c \in Conns, rest \in Seq(C), L \in C : \E end \in 1..Len(L) :
                Receive(c, SubSeq(L, 1, end), rest)
  <2> DEFINE w == wire[1]
  <2>1. PICK i \in DOMAIN w : Receive(1, w[i], RemoveAt(w, i))
    BY <1>2 DEF ReadDatagram
  <2>2. w \in Seq(C)
    BY <1>0 DEF Conns
  <2> HIDE DEF w
  <2>3. i \in 1..Len(w) /\ Len(w) \in Nat /\ w[i] \in C
    BY <2>1, <2>2
  <2>4. /\ 1 \in 1..(Len(w) + 1) /\ i - 1 \in (1 - 1)..Len(w)
        /\ i + 1 \in 1..(Len(w) + 1) /\ Len(w) \in ((i + 1) - 1)..Len(w)
    BY <2>3
  <2>5. SubSeq(w, 1, i - 1) \in Seq(C)
    BY <2>2, <2>4, SubType
  <2>6. SubSeq(w, i + 1, Len(w)) \in Seq(C)
    BY <2>2, <2>4, SubType
  <2>7. RemoveAt(w, i) = SubSeq(w, 1, i - 1) \o SubSeq(w, i + 1, Len(w))
    BY DEF RemoveAt
  <2>8. RemoveAt(w, i) \in Seq(C)
    BY <2>5, <2>6, <2>7, CatType
  <2>9. 1 \in Conns
    BY DEF Conns
  <2> DEFINE L == w[i]
             end == Len(L)
  <2>10. L \in C /\ L \in Seq(T) /\ L # <<>>
    BY <1>0, <2>3
  <2> DEFINE rest == RemoveAt(w, i)
  <2>12. Receive(1, L, rest)
    BY <2>1
  <2> HIDE DEF L, rest
  <2>11. end \in 1..Len(L) /\ L = SubSeq(L, 1, end)
    <3>1. end \in Nat /\ end # 0
      BY <2>10, EmptySeq
    <3>2. \A i_1 \in 1..end : L[i_1] = SubSeq(L, 1, end)[i_1]
      BY <2>10, <3>1
    <3> QED
      BY <2>10, <3>1
  <2> HIDE DEF end
  <2>13. Receive(1, SubSeq(L, 1, end), rest)
    BY <2>11, <2>12
  <2> QED
    BY <2>8, <2>9, <2>10, <2>11, <2>13 DEF rest
<1> QED
  BY <1>1, <1>2 DEF C

\* A request received is one that was asked, and its goroutine guarded.
LEMMA ReceiveOrigin ==
    ASSUME IInv, SentInv, WholeInv, OriginInv, [SigNext]_sigvars,
           (\E c \in Conns : ReadFrame(c)) \/ ReadDatagram
    PROVE  WholeInv' /\ OriginInv'
<1>1. PICK c \in Conns, rest \in Seq(WholeChunks), L \in WholeChunks : \E end \in 1..Len(L) :
            Receive(c, SubSeq(L, 1, end), rest)
  BY ReadWhole
<1>2. PICK end \in 1..Len(L) : Receive(c, SubSeq(L, 1, end), rest)
  BY <1>1
<1> DEFINE packet == SubSeq(L, 1, end)
           msg == ParseMessage(packet)
           C == WholeChunks
           T == LinesOf(Forms)
<1>3. wire' = [wire EXCEPT ![c] = rest] /\ Listen(c, msg) /\ UNCHANGED <<sent, program>>
  BY <1>2 DEF Receive
<1>4. WholeInv'
  <2>1. WholeChunks' = C
    BY <1>3 DEF WholeChunks, Asked
  <2>2. wire \in [Conns -> Seq(C)] /\ rest \in Seq(C)
    BY DEF WholeInv
  <2> HIDE DEF C
  <2>3. wire' \in [Conns -> Seq(C)]
    BY <1>3, <2>2
  <2> QED
    BY <2>1, <2>3 DEF WholeInv
<1>5. L \in Seq(T) /\ Whole(Asked, L) /\ Asked \in SUBSET Asks
  BY AskedIs DEF WholeChunks, WholeTexts
<1>6. msg = Nil \/ \E req : msg = Some(req) /\ \E x \in Asked : Source(x, req)
  <2> DEFINE X == Asked
  <2>1. X \in SUBSET Asks /\ L \in Seq(T) /\ Whole(X, L) /\ packet = SubSeq(L, 1, end)
    BY <1>5
  <2> HIDE DEF X, T, packet
  <2>2. \/ ParseMessage(packet) = Nil
        \/ \E req : ParseMessage(packet) = Some(req) /\ \E x \in X : Source(x, req)
    BY <2>1, PacketSource
  <2> QED
    BY <2>2 DEF X
<1>7. Asked' = Asked
  BY <1>3 DEF Asked
<1>8. ASSUME UNCHANGED jobs
      PROVE  OriginInv'
  <2> SUFFICES ASSUME NEW j \in DOMAIN jobs'
               PROVE  \E y \in Asked' : Source(y, jobs'[j].req) /\ Guarded(y, jobs[j])'
    BY DEF OriginInv
  <2>1. PICK y \in Asked : Source(y, jobs[j].req) /\ Guarded(y, jobs[j])
    BY <1>8 DEF OriginInv
  <2>2. Guarded(y, jobs[j])'
    BY <1>3, <1>8, <2>1 DEF Guarded, Guards, PasswordProgram
  <2> QED
    BY <1>7, <1>8, <2>1, <2>2
<1> HIDE DEF msg
<1>9. CASE msg = Nil
  BY <1>3, <1>4, <1>8, <1>9 DEF Listen
<1>10. ASSUME NEW req, msg = Some(req), NEW x \in Asked, Source(x, req)
       PROVE  OriginInv'
  <2>1. msg[1] = req /\ msg # Nil
    BY <1>10 DEF Some, Nil
  <2>2. Dispatch(msg, CallIDOf(msg), Connection(c, CallIDOf(msg)))
    BY <1>3, <2>1 DEF Listen
  <2>3. \/ UNCHANGED jobs
        \/ /\ RouteKey(req) # Nil
           /\ \E conn : jobs' = Append(jobs, Goroutine(req, conn, RouteKey(req)[1]))
    BY <2>1, <2>2 DEF Dispatch
  <2>4. ASSUME RouteKey(req) # Nil, NEW conn,
               jobs' = Append(jobs, Goroutine(req, conn, RouteKey(req)[1]))
        PROVE  OriginInv'
    <3> DEFINE job == Goroutine(req, conn, RouteKey(req)[1])
    <3>1. job.req = req
      BY DEF Goroutine, Next, Replying
    <3>2. Guarded(x, job)
      BY <1>10, <2>4, GoroutineGuarded DEF Source
    <3>3. PICK R : jobs \in Seq(Job(R))
      BY DEF IInv, JobsInv
    <3> DEFINE J == Job(R) \cup {job}
    <3>4. jobs' = Append(jobs, job) /\ job \in J
      BY <2>4
    <3>5. jobs \in Seq(J)
      <4>1. Job(R) \subseteq J
        OBVIOUS
      <4> HIDE DEF J
      <4> QED
        BY <3>3, <4>1, SeqMonotonic
    <3> HIDE DEF job, J
    <3>6. \A j \in DOMAIN jobs' : jobs'[j] = job \/ (j \in DOMAIN jobs /\ jobs'[j] = jobs[j])
      BY <3>4, <3>5, AppendProperties, LenProperties
    <3> SUFFICES ASSUME NEW j \in DOMAIN jobs'
                 PROVE  \E y \in Asked' : Source(y, jobs'[j].req) /\ Guarded(y, jobs[j])'
      BY DEF OriginInv
    <3>8. CASE jobs'[j] = job
      <4>1. Guarded(x, jobs[j])'
        BY <1>3, <3>2, <3>8 DEF Guarded, Guards, PasswordProgram
      <4> QED
        BY <1>7, <1>10, <3>1, <3>8, <4>1
    <3>9. CASE j \in DOMAIN jobs /\ jobs'[j] = jobs[j]
      <4>1. PICK y \in Asked : Source(y, jobs[j].req) /\ Guarded(y, jobs[j])
        BY <3>9 DEF OriginInv
      <4>2. Guarded(y, jobs[j])'
        BY <1>3, <3>9, <4>1 DEF Guarded, Guards, PasswordProgram
      <4> QED
        BY <1>7, <3>9, <4>1, <4>2
    <3> QED
      BY <3>6, <3>8, <3>9
  <2> QED
    BY <1>8, <2>3, <2>4
<1> QED
  BY <1>4, <1>6, <1>9, <1>10



-----------------------------------------------------------------------------
(* Who is answered with 200 *)

\* An answer is that of an ask, and 200 only to the password.
Answers(x, lines) ==
    /\ Own(x.num, lines[2])
    /\ PasswordProgram /\ x.form.method = "REGISTER" /\ StatusOf(lines) = "200"
            => x.form.auth = "right"

AnswerInv ==
    /\ \E R : answers \in Seq(R)
    /\ \A a \in DOMAIN answers : \E x \in Asked : Answers(x, answers[a])

\* What was answered to an ask stays answered.
LEMMA StillAnswered ==
    ASSUME SentInv, AnswerInv, [SigNext]_sigvars, UNCHANGED <<program, answers>>
    PROVE  AnswerInv'
<1>1. \E R : answers' \in Seq(R)
  BY DEF AnswerInv
<1>2. ASSUME NEW a \in DOMAIN answers'
      PROVE  \E x \in Asked' : Answers(x, answers[a])'
  <2>1. PICK x \in Asked : Answers(x, answers[a])
    BY DEF AnswerInv
  <2>2. x \in Asked'
    BY AskedGrows
  <2>3. Answers(x, answers[a])'
    BY <2>1 DEF Answers, PasswordProgram
  <2> QED
    BY <2>2, <2>3
<1> QED
  BY <1>1, <1>2 DEF AnswerInv

\* A job that stays is still that of an ask.
LEMMA StillOrigin ==
    ASSUME SentInv, OriginInv, [SigNext]_sigvars, UNCHANGED <<program, jobs>>
    PROVE  OriginInv'
<1> SUFFICES ASSUME NEW j \in DOMAIN jobs'
             PROVE  \E x \in Asked' : Source(x, jobs'[j].req) /\ Guarded(x, jobs[j])'
  BY DEF OriginInv
<1>1. PICK x \in Asked : Source(x, jobs[j].req) /\ Guarded(x, jobs[j])
  BY DEF OriginInv
<1>2. x \in Asked'
  BY AskedGrows
<1>3. Guarded(x, jobs[j])'
  BY <1>1 DEF Guarded, Guards, PasswordProgram
<1> QED
  BY <1>1, <1>2, <1>3

\* One job is replaced.
LEMMA JobOrigin ==
    ASSUME SentInv, OriginInv, [SigNext]_sigvars, UNCHANGED program, NEW j \in DOMAIN jobs, NEW job,
           jobs' = [jobs EXCEPT ![j] = job], NEW x \in Asked, Source(x, job.req), Guarded(x, job)
    PROVE  OriginInv'
<1> SUFFICES ASSUME NEW i \in DOMAIN jobs'
             PROVE  \E y \in Asked' : Source(y, jobs'[i].req) /\ Guarded(y, jobs[i])'
  BY DEF OriginInv
<1>1. i \in DOMAIN jobs /\ jobs'[i] = IF i = j THEN job ELSE jobs[i]
  OBVIOUS
<1>2. Asked \subseteq Asked'
  BY AskedGrows
<1>3. CASE i = j
  <2>1. jobs'[i] = job
    BY <1>1, <1>3
  <2>2. Guarded(x, jobs[i])'
    BY <2>1 DEF Guarded, Guards, PasswordProgram
  <2> QED
    BY <1>2, <2>1, <2>2
<1>4. CASE i # j
  <2>1. PICK y \in Asked : Source(y, jobs[i].req) /\ Guarded(y, jobs[i])
    BY <1>1 DEF OriginInv
  <2>2. jobs'[i] = jobs[i]
    BY <1>1, <1>4
  <2>3. Guarded(y, jobs[i])'
    BY <2>1, <2>2 DEF Guarded, Guards, PasswordProgram
  <2> QED
    BY <1>2, <2>1, <2>2, <2>3
<1> QED
  BY <1>3, <1>4

\* The answer to a guarded job is whose it is, and the job stays guarded.
LEMMA ReplyOrigin ==
    ASSUME IInv, SentInv, OriginInv, AnswerInv, [SigNext]_sigvars, NEW j \in DOMAIN jobs, Reply(j)
    PROVE  OriginInv' /\ AnswerInv'
<1> DEFINE old == jobs[j]
           made == NewResponseFromRequest(old.req, old.status, Reasons[old.status], ServerTag(j))
           reply == [made.response EXCEPT !.headers = AppendAll(@, Extra(old))]
           asked == made.request
           after == [old EXCEPT !.req = asked]
           job == IF old.then = "next" THEN Next(after) ELSE [after EXCEPT !.stage = old.then]
           lines == MessageLines(reply)
<1>1. /\ UNCHANGED <<program, sent>> /\ old.stage = "reply"
      /\ \/ UNCHANGED <<jobs, answers>>
         \/ /\ ~ResponsePanics(old.req) /\ jobs' = [jobs EXCEPT ![j] = job]
            /\ UNCHANGED answers \/ answers' = Append(answers, lines)
  BY DEF Reply, At
<1>2. PICK x \in Asked : Source(x, old.req) /\ Guarded(x, old)
  BY DEF OriginInv
<1>3. PICK R : old \in Job(R)
  BY JobOf
<1>4. x \in Asks /\ x.num \in 1..MaxSent
  BY AskedIs
<1>5. old.status \in StatusCodes /\ old.then \in {"next", "probe", "done"}
  BY <1>1, <1>3 DEF Job, JobRecord
<1>6. ServerTag(j) \in Seq({"s" \o ToString(j)})
  BY OneIn DEF ServerTag
<1>7. Source(x, asked)
  <2> DEFINE S == {"s" \o ToString(j)}
             tag == ServerTag(j)
  <2>1. tag \in Seq(S) /\ asked = NewResponseFromRequest(old.req, old.status, Reasons[old.status],
                                                         tag).request
    BY <1>6
  <2> HIDE DEF S, tag, asked
  <2> QED
    BY <1>2, <2>1, TaggedSource
<1>8. job.req = asked /\ Guarded(x, job)
  <2> DEFINE T == R \cup {asked}
  <2>1. asked \in T /\ R \subseteq T
    OBVIOUS
  <2> HIDE DEF asked, T
  <2>2. after \in Job(T)
    BY <1>3, <2>1 DEF Job, JobRecord
  <2>3. /\ after.req = asked /\ after.handlers = old.handlers /\ after.stage = old.stage
        /\ after.status = old.status
    BY <1>3 DEF Job, JobRecord
  <2> HIDE DEF after
  <2>4. job.req = asked
    BY <2>2, <2>3 DEF Job, JobRecord, Next
  <2>5. Guarded(x, after)
    BY <1>2, <2>3 DEF Guarded
  <2>6. Guarded(x, Next(after))
    BY <2>2, <2>5, NextGuarded
  <2>7. CASE old.then # "next"
    <3> DEFINE last == [after EXCEPT !.stage = old.then]
    <3>1. last.handlers = after.handlers /\ last.stage = old.then /\ last.status = after.status
      BY <2>2 DEF Job, JobRecord
    <3>2. job = last
      BY <2>7
    <3> HIDE DEF last, job
    <3>3. Guarded(x, last)
      BY <1>5, <2>5, <3>1 DEF Guarded
    <3> QED
      BY <2>4, <3>2, <3>3
  <2> QED
    BY <2>4, <2>6, <2>7
<1>9. ASSUME ~ResponsePanics(old.req)
      PROVE  (\E U : lines \in Seq(U)) /\ Answers(x, lines)
  <2> DEFINE status == old.status
             reason == Reasons[status]
             tag == ServerTag(j)
             S == {"s" \o ToString(j)}
             extra == Extra(old)
  <2>1. /\ Source(x, old.req) /\ ~ResponsePanics(old.req) /\ tag \in Seq(S) /\ extra \in Seq(Added)
        /\ reply = Responded(old.req, status, reason, tag, extra)
    BY <1>2, <1>6, <1>9, ExtraIn DEF Responded
  <2> HIDE DEF reply, extra, tag, S, reason
  <2>2. IsApart(x.num, status, reason, reply)
    <3> DEFINE req == old.req
    <3> HIDE DEF req, status
    <3>1. /\ Source(x, req) /\ ~ResponsePanics(req) /\ tag \in Seq(S) /\ extra \in Seq(Added)
          /\ reply = Responded(req, status, reason, tag, extra)
      BY <2>1 DEF req
    <3> QED
      BY <3>1, ResponseApart
  <2>3. PICK K : \E headers \in Seq(Group(K)) :
            (\A h \in K : Apart(x.num, h)) /\ reply = AnswerOf(status, reason, headers)
    BY <2>2 DEF IsApart
  <2>4. PICK headers \in Seq(Group(K)) :
            (\A h \in K : Apart(x.num, h)) /\ reply = AnswerOf(status, reason, headers)
    BY <2>3
  <2> HIDE DEF lines
  <2>5. lines = MessageLines(AnswerOf(status, Reasons[status], headers))
    BY <2>4 DEF lines, reason
  <2> HIDE DEF status
  <2>6. status \in StatusCodes
    BY <1>5 DEF status
  <2>7. (\E U : lines \in Seq(U)) /\ Own(x.num, lines[2])
        /\ (StatusOf(lines) = "200" => status = 200)
    BY <1>4, <2>4, <2>5, <2>6, AnswerLines
  <2> QED
    BY <1>2, <2>7 DEF Answers, Guarded, status
<1> HIDE DEF job, asked, lines
<1>10. OriginInv'
  <2>1. CASE UNCHANGED jobs
    BY <1>1, <2>1, StillOrigin
  <2>2. CASE jobs' = [jobs EXCEPT ![j] = job]
    BY <1>1, <1>7, <1>8, <2>2, JobOrigin
  <2> QED
    BY <1>1, <2>1, <2>2
<1>11. AnswerInv'
  <2>1. CASE UNCHANGED answers
    BY <1>1, <2>1, StillAnswered
  <2>2. CASE ~ResponsePanics(old.req) /\ answers' = Append(answers, lines)
    <3>1. PICK A : answers \in Seq(A)
      BY DEF AnswerInv
    <3> DEFINE B == A \cup {lines}
    <3>2. lines \in B
      OBVIOUS
    <3>3. answers \in Seq(B)
      <4>1. A \subseteq B
        OBVIOUS
      <4> HIDE DEF B
      <4> QED
        BY <3>1, <4>1, SeqMonotonic
    <3> HIDE DEF B
    <3>4. answers' \in Seq(B)
          /\ \A a \in DOMAIN answers' :
                answers'[a] = lines \/ (a \in DOMAIN answers /\ answers'[a] = answers[a])
      BY <2>2, <3>2, <3>3, AppendProperties, LenProperties
    <3>5. Answers(x, lines) /\ Asked' = Asked
      BY <1>1, <1>9, <2>2 DEF Asked
    <3>6. ASSUME NEW a \in DOMAIN answers'
          PROVE  \E y \in Asked' : Answers(y, answers[a])'
      <4>1. CASE answers'[a] = lines
        <5>1. Answers(x, answers[a])'
          BY <1>1, <3>5, <4>1 DEF Answers, PasswordProgram
        <5> QED
          BY <3>5, <5>1
      <4>2. CASE a \in DOMAIN answers /\ answers'[a] = answers[a]
        <5>1. PICK y \in Asked : Answers(y, answers[a])
          BY <4>2 DEF AnswerInv
        <5>2. Answers(y, answers[a])'
          BY <1>1, <4>2, <5>1 DEF Answers, PasswordProgram
        <5> QED
          BY <3>5, <5>1, <5>2
      <4> QED
        BY <3>4, <4>1, <4>2
    <3>7. \E T : answers' \in Seq(T)
      BY <3>4
    <3> QED
      BY <3>6, <3>7 DEF AnswerInv
  <2> QED
    BY <1>1, <2>1, <2>2
<1> QED
  BY <1>10, <1>11



-----------------------------------------------------------------------------
(* 200 is for those who have the password *)

LetInv == NumberInv /\ WholeInv /\ OriginInv /\ AnswerInv

\* Nothing is sent, received or answered at the start.
LEMMA InitLet == SigInit => LetInv
<1> SUFFICES ASSUME SigInit PROVE LetInv
  OBVIOUS
<1>1. DOMAIN sent = {} /\ DOMAIN jobs = {} /\ DOMAIN answers = {}
  BY DEF SigInit, InInit
<1>2. NumberInv /\ OriginInv
  BY <1>1 DEF NumberInv, OriginInv
<1>3. AnswerInv
  <2>1. answers = <<>>
    BY DEF SigInit, InInit
  <2>2. answers \in Seq({})
    BY <2>1, EmptySeq
  <2> QED
    BY <1>1, <2>2 DEF AnswerInv
<1>4. WholeInv
  <2> DEFINE C == WholeChunks
  <2> HIDE DEF C
  <2>1. <<>> \in Seq(C)
    BY EmptySeq
  <2>2. wire = [c \in Conns |-> <<>>]
    BY DEF SigInit, InInit
  <2>3. wire \in [Conns -> Seq(C)]
    BY <2>1, <2>2
  <2> QED
    BY <2>3 DEF WholeInv, C
<1> QED
  BY <1>2, <1>3, <1>4 DEF LetInv

\* Nothing more is sent: the numbers stay.
LEMMA StillNumbered ==
    ASSUME NumberInv, UNCHANGED sent
    PROVE  NumberInv'
  BY DEF NumberInv

\* Every step keeps that.
LEMMA NextLet ==
    ASSUME IInv, ShapeInv, SentInv, LetInv, [SigNext]_sigvars
    PROVE  LetInv'
<1>0. /\ sent \in Seq(SentRecords) /\ Len(sent) \in Nat /\ MaxSent \in Nat
      /\ NumberInv /\ WholeInv /\ OriginInv /\ AnswerInv
  BY SignallingAssumption DEF SentInv, LetInv
<1>1. CASE DeviceSends
  <2>1. Len(sent) < MaxSent /\ Len(sent) + 1 \in 1..MaxSent
    BY <1>0, <1>1 DEF DeviceSends
  <2>2. PICK form \in Forms : Write(form, DeviceLines(form, Len(sent) + 1))
    BY <1>1 DEF DeviceSends
  <2>3. WholeInv' /\ NumberInv'
    BY <1>0, <2>1, <2>2, WriteWhole
  <2>4. UNCHANGED <<program, jobs, answers>>
    BY <2>2 DEF Write
  <2> QED
    BY <1>0, <2>3, <2>4, StillOrigin, StillAnswered DEF LetInv
<1>2. CASE DeviceRetries
  <2> DEFINE n == Len(sent)
  <2>1. sent # <<>> /\ n < MaxSent /\ Write(sent[n].form, sent[n].lines)
    BY <1>2 DEF DeviceRetries, Last
  <2>2. n \in DOMAIN sent /\ sent[n] \in SentRecords
    BY <1>0, <2>1
  <2>3. PICK k \in DOMAIN sent :
            sent[k].form = sent[n].form /\ sent[n].lines = DeviceLines(sent[n].form, k)
    BY <1>0, <2>2 DEF NumberInv
  <2>4. sent[n].form \in Forms
    BY <2>2 DEF SentRecords
  <2>5. k \in 1..MaxSent
    BY <1>0, <2>1, <2>3
  <2>6. WholeInv' /\ NumberInv'
    <3> DEFINE form == sent[n].form
               lines == sent[n].lines
    <3>1. form \in Forms /\ lines = DeviceLines(form, k) /\ Write(form, lines)
          /\ k \in DOMAIN sent /\ sent[k].form = form
      BY <2>1, <2>3, <2>4
    <3> HIDE DEF form, lines
    <3> QED
      BY <1>0, <2>5, <3>1, WriteWhole
  <2>7. UNCHANGED <<program, jobs, answers>>
    BY <2>1 DEF Write
  <2> QED
    BY <1>0, <2>6, <2>7, StillOrigin, StillAnswered DEF LetInv
<1>3. ASSUME UNCHANGED <<program, sent, wire, jobs, answers>>
      PROVE  LetInv'
  BY <1>0, <1>3, StillNumbered, StillWhole, StillOrigin, StillAnswered DEF LetInv
<1>4. CASE DeviceReconnects \/ TxExpires \/ OperatorAsks
  <2>1. UNCHANGED <<program, sent, wire, jobs, answers>>
    BY <1>4 DEF DeviceReconnects, TxExpires, OperatorAsks
  <2> QED
    BY <1>3, <2>1
<1>5. CASE (\E c \in Conns : ReadFrame(c)) \/ ReadDatagram
  <2>1. UNCHANGED <<program, sent, answers>>
    BY <1>5 DEF ReadFrame, ReadDatagram, Receive
  <2>2. WholeInv' /\ OriginInv'
    BY <1>0, <1>5, ReceiveOrigin
  <2> QED
    BY <1>0, <2>1, <2>2, StillNumbered, StillAnswered DEF LetInv
<1>6. ASSUME NEW j \in DOMAIN jobs,
             Gate(j) \/ Register(j) \/ SipRegister(j) \/ Handle(j) \/ ProbeDevice(j)
      PROVE  LetInv'
  <2>1. UNCHANGED <<program, sent, wire, answers>>
    BY <1>6 DEF Gate, Register, SipRegister, Handle, Step, ProbeDevice
  <2>2. PICK x \in Asked : Source(x, jobs[j].req) /\ Guarded(x, jobs[j])
    BY <1>0 DEF OriginInv
  <2>3. x \in Asks
    BY AskedIs
  <2>4. PICK job : /\ job.req = jobs[j].req /\ Guarded(x, job)
                   /\ jobs' = [jobs EXCEPT ![j] = job]
    BY <1>6, <2>2, <2>3, HandlerGuarded
  <2>5. Source(x, job.req)
    BY <2>2, <2>4
  <2>6. OriginInv'
    BY <1>0, <2>1, <2>4, <2>5, JobOrigin
  <2> QED
    BY <1>0, <2>1, <2>6, StillNumbered, StillWhole, StillAnswered DEF LetInv
<1>7. ASSUME NEW j \in DOMAIN jobs, Reply(j)
      PROVE  LetInv'
  <2>1. UNCHANGED <<sent, wire>>
    BY <1>7 DEF Reply
  <2>2. OriginInv' /\ AnswerInv'
    BY <1>0, <1>7, ReplyOrigin
  <2> QED
    BY <1>0, <2>1, <2>2, StillNumbered, StillWhole DEF LetInv
<1>8. CASE PlatformTalks \/ UNCHANGED sigvars
  <2>1. UNCHANGED <<program, sent, wire, jobs, answers>>
    BY <1>8 DEF PlatformTalks, invars, sigvars
  <2> QED
    BY <1>3, <2>1
<1> QED
  BY <1>1, <1>2, <1>4, <1>5, <1>6, <1>7, <1>8 DEF SigNext, DeviceTalks, InNext, Goroutines

\* The second element of a concatenation.
LEMMA CatNext ==
    ASSUME NEW T, NEW u \in Seq(T), Len(u) >= 2, NEW v \in Seq(T)
    PROVE  u \o v \in Seq(T) /\ Len(u \o v) >= 2 /\ (u \o v)[2] = u[2]
<1>1. 2 \in 1..Len(u)
  OBVIOUS
<1>2. u \o v \in Seq(T) /\ Len(u \o v) = Len(u) + Len(v) /\ Len(v) \in Nat /\ Len(u) \in Nat
  BY CatType
<1> QED
  BY <1>1, <1>2, CatLeft

\* The second line of a request is its Via.
LEMMA SecondLine ==
    ASSUME NEW form \in Forms, NEW n \in 1..MaxSent
    PROVE  DeviceLines(form, n)[2] = HeaderLine(ViaName, ViaText(n))
<1> DEFINE a == FirstLines(form, n)
           b == RouteLines(form)
           c == AuthLines(form)
           d == ExpiresLines(form)
           e == LengthLine(form)
           f == << <<>> >>
           g == BodyOf(form)
           route == HeaderLine(RouteName, ProxyText)
           auth == HeaderLine(AuthName, AuthText(form))
           expires == HeaderLine(ExpiresName, <<form.expires>>)
           via == HeaderLine(ViaName, ViaText(n))
           U == LinesOf(Forms) \cup {route, auth, expires}
           l1 == StartText(form.method)
           l3 == HeaderLine(FromName, FromText(form.user))
           l4 == HeaderLine(ToName, PlatformText)
           l5 == HeaderLine(CallName, <<CallOf(form, n)>>)
           l6 == HeaderLine(CSeqName, CSeqText(form, n))
<1>1. DeviceLines(form, n) = (((((a \o b) \o c) \o d) \o e) \o f) \o g
  BY DeviceLinesAre
<1>2. a = <<l1, via, l3, l4, l5, l6>>
  BY DEF FirstLines
<1>3. /\ b = (IF form.routed THEN <<route>> ELSE <<>>)
      /\ c = (IF form.auth = "none" THEN <<>> ELSE <<auth>>)
      /\ d = (IF form.expires = "" THEN <<>> ELSE <<expires>>)
  BY DEF RouteLines, AuthLines, ExpiresLines
<1>4. a \in Seq(LinesOf(Forms))
  BY FirstLinesIn
<1>5. e \in Seq(PlainLines) /\ g \in Seq(BodyLines)
  BY LengthLinesIn, BodyIs
<1>6. PlainLines \subseteq LinesOf(Forms) /\ BodyLines \subseteq LinesOf(Forms)
      /\ <<>> \in LinesOf(Forms)
  BY DEF LinesOf
<1> HIDE DEF l1, l3, l4, l5, l6, via, route, auth, expires
<1>7. Len(a) = 6 /\ a[2] = via
  BY <1>2
<1>8. route \in U /\ auth \in U /\ expires \in U /\ <<>> \in U
      /\ LinesOf(Forms) \subseteq U /\ PlainLines \subseteq U /\ BodyLines \subseteq U
  BY <1>6
<1> HIDE DEF U, a, b, c, d, e, g
<1>9. a \in Seq(U) /\ e \in Seq(U) /\ g \in Seq(U)
  BY <1>4, <1>5, <1>8, SeqMonotonic
<1>10. b \in Seq(U) /\ c \in Seq(U) /\ d \in Seq(U) /\ f \in Seq(U)
  BY <1>3, <1>8, OneIn, EmptySeq
<1> HIDE DEF f
<1> DEFINE p == a \o b
           q == p \o c
           r == q \o d
           s == r \o e
           t == s \o f
<1>11. p \in Seq(U) /\ Len(p) >= 2 /\ p[2] = via
  <2>1. a \in Seq(U) /\ b \in Seq(U) /\ Len(a) >= 2 /\ a[2] = via
    BY <1>7, <1>9, <1>10
  <2> QED
    BY <2>1, CatNext
<1> HIDE DEF p
<1>12. q \in Seq(U) /\ Len(q) >= 2 /\ q[2] = via
  BY <1>10, <1>11, CatNext
<1> HIDE DEF q
<1>13. r \in Seq(U) /\ Len(r) >= 2 /\ r[2] = via
  BY <1>10, <1>12, CatNext
<1> HIDE DEF r
<1>14. s \in Seq(U) /\ Len(s) >= 2 /\ s[2] = via
  BY <1>9, <1>13, CatNext
<1> HIDE DEF s
<1>15. t \in Seq(U) /\ Len(t) >= 2 /\ t[2] = via
  BY <1>10, <1>14, CatNext
<1> HIDE DEF t
<1>16. (t \o g)[2] = via
  BY <1>9, <1>15, CatNext
<1> QED
  BY <1>1, <1>16 DEF p, q, r, s, t, via

\* A registration that is answered with 200 had the password, where one is asked for.
LEMMA LetIn ==
    ASSUME SentInv, LetInv
    PROVE  AcceptedWithPassword
<1> SUFFICES ASSUME PasswordProgram, NEW n \in Registrations, Accepted(n)
             PROVE  sent[n].form.auth = "right"
  BY DEF AcceptedWithPassword
<1>1. n \in DOMAIN sent /\ sent[n].form.method = "REGISTER"
  BY DEF Registrations, IsRegistration
<1>2. PICK a \in DOMAIN answers : answers[a][2] = sent[n].lines[2] /\ StatusOf(answers[a]) = "200"
  BY DEF Accepted, AnswersTo
<1>3. PICK x \in Asked : Answers(x, answers[a])
  BY DEF LetInv, AnswerInv
<1>4. PICK k \in DOMAIN sent :
            sent[k].form = sent[n].form /\ sent[n].lines = DeviceLines(sent[n].form, k)
  BY <1>1 DEF LetInv, NumberInv
<1>5. k \in 1..MaxSent /\ sent[n].form \in Forms
  <2>1. sent \in Seq(SentRecords) /\ Len(sent) \in Nat /\ Len(sent) <= MaxSent /\ MaxSent \in Nat
    BY SignallingAssumption DEF SentInv
  <2>2. n \in 1..Len(sent) /\ k \in 1..Len(sent)
    BY <1>1, <1>4, <2>1
  <2>3. sent[n] \in SentRecords
    BY <2>1, <2>2, ElementOfSeq
  <2> QED
    BY <2>1, <2>2, <2>3 DEF SentRecords
<1>6. sent[n].lines[2] = HeaderLine(ViaName, ViaText(k))
  BY <1>4, <1>5, SecondLine
<1>7. x.num = k
  BY <1>2, <1>3, <1>5, <1>6 DEF Answers, Own
<1>8. x.form = sent[k].form
  BY <1>7, AskedIs
<1> QED
  BY <1>1, <1>2, <1>3, <1>4, <1>8 DEF Answers

\* Where a password is asked for, a REGISTER is answered with 200 only when its
\* own credentials were made with it, and a device is known only once one was.
THEOREM OnlyThePassword == SigSpec => []OnlyWithPassword
<1> DEFINE Inv == IInv /\ ShapeInv /\ SentInv /\ LetInv
<1>1. SigInit => Inv
  BY InitIInv, InitShape, InitSent, InitLet DEF SigInit
<1>2. Inv /\ [SigNext]_sigvars => Inv'
  BY NextIInv, NextShape, NextSent, NextLet
<1>3. Inv => AcceptedWithPassword
  BY LetIn
<1>4. SigSpec => []AcceptedWithPassword
  BY <1>1, <1>2, <1>3, PTL DEF SigSpec
<1>5. KnownWithPassword /\ AcceptedWithPassword => OnlyWithPassword
  BY DEF OnlyWithPassword
<1> QED
  BY <1>4, <1>5, PasswordAsked, PTL

================================================================================
