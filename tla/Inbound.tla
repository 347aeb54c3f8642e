-------------------------------- MODULE Inbound --------------------------------
(***************************************************************************)
(* What a device sends to the platform, from the bytes of its connection   *)
(* to the answer: the framing of a TCP stream (sip/server.go,              *)
(* ProcessTcpConn), parser and dispatch (handlerListen, handlerRequest),   *)
(* the routes (handler.go, sip/group.go), the goroutine of each request    *)
(* (sip/context.go) with REGISTER, its Digest (sip/auth.go) and MESSAGE,   *)
(* and the example's gateway (example/example.go).                         *)
(*                                                                         *)
(* One device sends at most MaxSent requests.  program is what the         *)
(* application has registered:                                             *)
(*   "plain"   RegisterHandlers alone, over TCP                            *)
(*   "hooks"   RegisterHandlers with hooks and a password, over TCP        *)
(*   "example" the example as it is, with a password, over UDP             *)
(*   "custom"  the example's handlers with its REGISTER route registered   *)
(*             last, behind a middleware of the application's, over UDP    *)
(* Over TCP the device may connect again; it closes the old connection     *)
(* after what it wrote there.  Over UDP datagrams are reordered and sent   *)
(* again.  Bodies end in a line feed, as MANSCDP bodies do.                *)
(***************************************************************************)
EXTENDS Messages, Manscdp

CONSTANTS
    MaxSent,        \* bound on the requests of the device
    Forms,          \* the requests that it may send
    NextForms(_, _)   \* those of them it may send next: to which program, after which

VARIABLES
    program,
    sent,           \* what the device sent: [form, lines, conn, early]
    current,        \* the device's connection
    wire,           \* connection -> chunks written and not read
    framed,         \* connection -> every packet so far
    txs,            \* Call-ID -> the connection of its transaction
    jobs,           \* the goroutine of each request
    answers,        \* what the device has received
    book,           \* the application's record of the device
    queries,        \* what became of the queries to the device
    down            \* the process has panicked

invars == <<program, sent, current, wire, framed, txs, jobs, answers, book, queries, down>>

Programs == {"plain", "hooks", "example", "custom"}
Tcp == program \in {"plain", "hooks"}
Conns == {1, 2}

Password == "secret"

-----------------------------------------------------------------------------
(* The device's text *)

Line(name, text) == <<name, ":", " ">> \o text
DeviceUri(user) == NewURI(Some(<<user>>), <<"domain">>, Nil)
PlatformUri == NewURI(Some(<<"platform">>), <<"domain">>, Nil)

\* The Call-ID: registrations share one, as RFC 3261 asks of a device.
MessageCall(n) == "msg" \o ToString(n)
CallOf(form, n) == IF form.method = "REGISTER" THEN "reg" ELSE MessageCall(n)

\* CalcResponse; MD5 is an injective function.
CalcResponse(username, realm, password, method, uri, nonce, qop, cnonce, nc) ==
    ToString(<< <<username, realm, password>>, nonce,
                IF qop = "" THEN <<>> ELSE <<nc, cnonce, qop>>, <<method, uri>> >>)

\* The response to the challenge of the device's text.
ResponseTo(username, password) ==
    CalcResponse(username, "domain", password, "REGISTER", "u", "n", "auth", "c", "1")
Digest(password) ==
    LET field(key, val) == <<key, "=", val, ",">>
    IN field("username", "device") \o field("realm", "domain") \o field("nonce", "n")
       \o field("uri", "u") \o field("qop", "auth") \o field("nc", "1") \o field("cnonce", "c")
       \o field("response", ResponseTo(<<"device">>, password))

BodyOf(form) ==
    IF form.cmd = "" THEN <<>>
    ELSE <<Declaration(form.charset), Element("CmdType", form.cmd)>> \o form.items

\* Content-Length is written in full, with a tab before the number, in the
\* compact form, or not at all.
LengthLine(form) ==
    LET number == ToString(Len(BodyOf(form)))
    IN CASE form.length = "full" -> <<Line("Content-Length", <<number>>)>>
         [] form.length = "tab" -> << <<"Content-Length", ":", "\t", number>> >>
         [] form.length = "compact" -> <<Line("l", <<number>>)>>
         [] OTHER -> <<>>

Branch(n) == "b" \o ToString(n)
DeviceLines(form, n) ==
    << <<form.method, " ">> \o UriText(PlatformUri) \o <<" ", Version>>,
       Line("Via", <<"SIP", "/", "2.0", "/", "TCP", " ", "peer", ":", "5060", ";", "branch", "=",
                     Branch(n)>>),
       Line("From", <<"<">> \o UriText(DeviceUri(form.user)) \o <<">", ";", "tag", "=", "d">>),
       Line("To", <<"<">> \o UriText(PlatformUri) \o <<">">>),
       Line("Call-ID", <<CallOf(form, n)>>),
       Line("CSeq", <<ToString(n), " ", form.method>>) >>
    \o (IF form.routed THEN <<Line("Record-Route", <<"<", "sip", ":", "proxy", ">">>)>> ELSE <<>>)
    \o (IF form.auth = "none" THEN <<>>
        ELSE <<Line("Authorization", Digest(IF form.auth = "right" THEN Password ELSE "guess"))>>)
    \o (IF form.expires = "" THEN <<>> ELSE <<Line("Expires", <<form.expires>>)>>)
    \o LengthLine(form)
    \o << <<>> >> \o BodyOf(form)

-----------------------------------------------------------------------------
(* The requests that a device may send *)

\* A word is not empty and holds neither the characters that the code looks for
\* nor what it finds a packet by.
Marks == {" ", "\t", ":", ";", ",", "/", "<", ">", "\"", "@", "=", "?", ""}
IsWord(token) == token \in STRING /\ token \notin Marks \cup {"Content-Length", Version}

\* Only a registration has credentials.  The lines of a body are not empty.
IsForm(form) ==
    /\ form \in [user : STRING, method : {"REGISTER", "MESSAGE"}, cmd : STRING,
                 expires : STRING, auth : {"none", "right", "wrong"},
                 length : {"full", "tab", "compact", "none"}, charset : STRING,
                 items : Seq(Seq(STRING)), routed : BOOLEAN]
    /\ form.auth # "none" => form.method = "REGISTER"
    /\ IsWord(form.user) /\ (form.expires = "" \/ IsWord(form.expires))
    /\ Len(BodyOf(form)) \in Numbers
    /\ \A i \in DOMAIN BodyOf(form) :
        /\ BodyOf(form)[i] # <<>>
        /\ \A t \in Range(BodyOf(form)[i]) : t = "" \/ IsWord(t)

\* The numbers of requests are told from each other, and so are the responses
\* to a challenge: those made with the password and those made without.  A branch
\* is no other word of a Via, and 200 is written as no other status.
ASSUME DeviceAssumption ==
    /\ \A form \in Forms : IsForm(form)
    /\ \A n \in Numbers : IsWord(ToString(n))
    /\ \A m, n \in Numbers : ToString(m) = ToString(n) => m = n
    /\ 1..MaxSent \subseteq Numbers
    /\ \A n \in 1..MaxSent : IsWord(Branch(n)) /\ IsWord(MessageCall(n))
    /\ \A m, n \in 1..MaxSent : Branch(m) = Branch(n) => m = n
    /\ \A n \in 1..MaxSent :
            Branch(n) \notin {"Via", "SIP", "2.0", "TCP", "peer", "5060", "branch"}
    /\ \A status \in {200, 400, 401, 403, 405, 500} :
            IsWord(ToString(status)) /\ (ToString(status) = "200" => status = 200)
    /\ "5060" \in PortWords
    /\ \A password \in {Password, "guess"} : IsWord(ResponseTo(<<"device">>, password))
    /\ \A user \in {<<>>} \cup {<<form.user>> : form \in Forms} :
            ResponseTo(user, Password) # ResponseTo(<<"device">>, "guess")

-----------------------------------------------------------------------------
(* ProcessTcpConn *)

NamesLength(line) == FirstOf(line, {"Content-Length"}) # 0

\* The text after the last colon, without blanks or line ends; a tab stays.
LengthText(line) == LET text == Last(Split(line, ":")) IN Keep(text, Range(text) \ {" "})

\* A mutant: it waits for a line beyond the body.
PacketEndWrong(lines) ==
    LET end == SelectInSeq(lines, LAMBDA l : l = <<>>)
        lengths == {i \in 1..(end - 1) : NamesLength(lines[i]) /\ IsNumber(LengthText(lines[i]))}
        bodyLen == IF lengths = {} THEN 0 ELSE NumberOf(LengthText(lines[Max(lengths)]))
    IN IF end = 0 \/ end + bodyLen >= Len(lines) THEN 0 ELSE end + bodyLen

\* The end of the packet in what has arrived, or 0: the first empty line and
\* the body after it, or the first Content-Length that is no number.  Not
\* modelled: for a number too large for make (server.go:230) the code panics, and
\* here it waits for the lines.  No property is about such a number, and none is
\* among Numbers.
PacketEnd(lines) ==
    LET stops == {i \in DOMAIN lines :
                    lines[i] = <<>> \/ (NamesLength(lines[i]) /\ ~IsNumber(LengthText(lines[i])))}
        stop == Min(stops)
        lengths == {i \in 1..(stop - 1) : NamesLength(lines[i])}
        bodyLen == IF lines[stop] # <<>> \/ lengths = {} THEN 0
                   ELSE NumberOf(LengthText(lines[Max(lengths)]))
    IN IF stops = {} \/ stop + bodyLen > Len(lines) THEN 0 ELSE stop + bodyLen

-----------------------------------------------------------------------------
(* Routes *)

Commands == {"Keepalive", "Catalog", "DeviceInfo", "RecordInfo", "ConfigDownload",
             "DeviceConfig", "Alarm", "DeviceStatus", "MobilePosition", "MediaStatus",
             "Broadcast", "DeviceControl"}

\* addRoute: a route replaces the one that was there.
AddRoute(routes, key, handlers) ==
    [k \in DOMAIN routes \cup {key} |-> IF k = key THEN handlers ELSE routes[k]]

\* RegisterHandlers: REGISTER, MESSAGE and NOTIFY alone, and each command.
CommandKeys == {<<method, <<cmd>>>> : method \in {"MESSAGE", "NOTIFY"}, cmd \in Commands}
RegisterHandlers(routes) ==
    LET methods == AddRoute(AddRoute(AddRoute(routes, <<"REGISTER">>, <<"register">>),
                                     <<"MESSAGE">>, <<>>), <<"NOTIFY">>, <<>>)
    IN [k \in DOMAIN methods \cup CommandKeys |->
            IF k \in CommandKeys THEN <<"message">> ELSE methods[k]]

\* The routes of a program, in the order in which it registers them.
Routes == CASE program = "example" ->
                    RegisterHandlers(AddRoute(<<>>, <<"REGISTER">>, <<"own">>))
            [] program = "custom" ->
                    AddRoute(RegisterHandlers(<<>>), <<"REGISTER">>, <<"gate", "own">>)
            [] OTHER -> RegisterHandlers(<<>>)

\* handlerRequest: the key of a request, or nothing when it is left unanswered.
RouteKey(req) ==
    LET read == XMLDecode(req.body, RouteStruct)
    IN IF req.method \notin {"MESSAGE", "NOTIFY"} THEN Some(<<req.method>>)
       ELSE IF FirstHeader(req.headers, "Content-Length") = Nil \/ read.err THEN Nil
       ELSE Some(<<req.method, read.v.CmdType>>)

-----------------------------------------------------------------------------
(* The context of a request *)

\* parserRequest
DeviceID(req) ==
    LET from == FirstHeader(req.headers, "From")
    IN IF from = Nil \/ from[1].val.uri.user = Nil THEN <<>> ELSE from[1].val.uri.user[1]

GetHeader(req, name) ==
    LET list == GetHeaders(req.headers, name)
        splits == Split(HeaderText(list[1]), ":")
    IN IF list = <<>> \/ Len(splits) # 2 THEN <<>> ELSE Trim(splits[2])

\* AuthFromValue and Get: the last value of a key.
AuthField(text, key) ==
    LET at == {i \in 1..(Len(text) - 2) : text[i] = key /\ text[i + 1] = "="}
    IN IF at = {} THEN "" ELSE text[Max(at) + 2]

\* checkDigestAuth: realm, nonce and URI are what the device says they are.
Authorization(req) == GetHeaders(req.headers, "Authorization")
\* A mutant: any response will do.
DigestMatchesWrong(req) == AuthField(Authorization(req)[1].val.text, "response") # ""

DigestMatches(req) ==
    LET text == Authorization(req)[1].val.text
        get(key) == AuthField(text, key)
    IN get("response") = CalcResponse(DeviceID(req), get("realm"), Password, req.method,
                                      get("uri"), get("nonce"), get("qop"), get("cnonce"),
                                      get("nc"))

Unauthorized(req) == Authorization(req) = <<>> \/ ~DigestMatches(req)

-----------------------------------------------------------------------------

InInit ==
    /\ program \in Programs
    /\ sent = <<>>
    /\ current = 1
    /\ wire = [c \in Conns |-> <<>>]
    /\ framed = [c \in Conns |-> <<>>]
    /\ txs = <<>>
    /\ jobs = <<>>
    /\ answers = <<>>
    /\ book = [known |-> FALSE, online |-> FALSE, catalogs |-> <<>>]
    /\ queries = {}
    /\ down = FALSE

(* The device, and its network *)

\* Which answers are to what was sent as the n-th request.
AnswersTo(n) == {a \in DOMAIN answers : answers[a][2] = sent[n].lines[2]}
Answered(n) == AnswersTo(n) # {}
IsRegistration(n) == sent[n].form.method = "REGISTER"

\* early: a registration was on its way already.
Write(form, lines) ==
    /\ sent' = Append(sent, [form |-> form, lines |-> lines, conn |-> current,
                             early |-> \E n \in DOMAIN sent : IsRegistration(n) /\ ~Answered(n)])
    /\ wire' = [wire EXCEPT ![current] = Append(@, lines)]
    /\ UNCHANGED <<program, current, framed, txs, jobs, answers, book, queries, down>>

DeviceSends ==
    /\ Len(sent) < MaxSent
    /\ \E form \in Forms \cap NextForms(program, Each(LAMBDA s : s.form, sent)) :
            Write(form, DeviceLines(form, Len(sent) + 1))

\* Over UDP the last request once more.
DeviceRetries ==
    /\ ~Tcp
    /\ sent # <<>> /\ Len(sent) < MaxSent
    /\ ~Answered(Len(sent))
    /\ Write(Last(sent).form, Last(sent).lines)

DeviceReconnects ==
    /\ Tcp /\ current = 1 /\ sent # <<>>
    /\ current' = 2
    /\ UNCHANGED <<program, sent, wire, framed, txs, jobs, answers, book, queries, down>>

(* From the socket to the goroutine of a request: the reader, the parser *)
(* and handlerListen in turn; what lies between them is in Lifecycle.    *)

\* Context.Next calls the handler of the next index; Abort leaves an index
\* beyond every handler.
AbortIndex == 63
Next(job) ==
    LET index == job.index + 1
    IN [job EXCEPT !.index = index,
                   !.stage = IF index > Len(job.handlers) THEN "done" ELSE job.handlers[index]]

\* A mutant: the answer keeps no status.
ReplyingWrong(job, status, then) == [job EXCEPT !.stage = "reply", !.then = then]

\* then: what a handler does once it has answered.
Replying(job, status, then) == [job EXCEPT !.stage = "reply", !.status = status, !.then = then]

\* A mutant: no 405 for a command without a route.
GoroutineWrong(req, conn, key) ==
    LET job == [req |-> req, conn |-> conn, index |-> 0, status |-> 0, stage |-> "done",
                handlers |-> IF key \in DOMAIN Routes THEN Routes[key] ELSE <<>>, then |-> "done"]
    IN IF key \in DOMAIN Routes THEN Next(job) ELSE job

Goroutine(req, conn, key) ==
    LET job == [req |-> req, conn |-> conn, index |-> 0, status |-> 0, stage |-> "done",
                handlers |-> IF key \in DOMAIN Routes THEN Routes[key] ELSE <<>>, then |-> "done"]
    IN IF key \in DOMAIN Routes THEN Next(job) ELSE Replying(job, 405, "done")

\* mustTX finds the transaction of the Call-ID, and with it the connection.
CallIDOf(msg) == FirstHeader(msg[1].headers, "Call-ID")
Connection(c, call) == IF call # Nil /\ call[1].val \in DOMAIN txs THEN txs[call[1].val] ELSE c
Dispatch(msg, call, conn) ==
    /\ txs' = IF call = Nil THEN txs
              ELSE [k \in DOMAIN txs \cup {call[1].val} |->
                        IF k = call[1].val THEN conn ELSE txs[k]]
    /\ jobs' = IF RouteKey(msg[1]) = Nil THEN jobs
               ELSE Append(jobs, Goroutine(msg[1], conn, RouteKey(msg[1])[1]))
Listen(c, msg) ==
    IF msg = Nil THEN UNCHANGED <<txs, jobs>>
    ELSE Dispatch(msg, CallIDOf(msg), Connection(c, CallIDOf(msg)))

Receive(c, packet, rest) ==
    /\ ~down
    /\ wire' = [wire EXCEPT ![c] = rest]
    /\ framed' = [framed EXCEPT ![c] = Append(@, packet)]
    /\ Listen(c, ParseMessage(packet))
    /\ UNCHANGED <<program, sent, current, answers, book, queries, down>>

Arrived(c) == Flat(wire[c])

ReadFrame(c) ==
    LET end == PacketEnd(Arrived(c))
    IN Tcp /\ end # 0 /\ Receive(c, Upto(Arrived(c), end),
                                 IF end = Len(Arrived(c)) THEN <<>> ELSE <<After(Arrived(c), end)>>)

ReadDatagram ==
    ~Tcp /\ \E i \in DOMAIN wire[1] : Receive(1, wire[1][i], RemoveAt(wire[1], i))

\* watch: twenty seconds after its creation, for nothing signals a transaction
\* that only answers.  Only registrations use a Call-ID on two connections.
TxExpires ==
    /\ ~down /\ Tcp
    /\ <<"reg">> \in DOMAIN txs
    /\ txs' = Restrict(txs, DOMAIN txs \ {<<"reg">>})
    /\ UNCHANGED <<program, sent, current, wire, framed, jobs, answers, book, queries, down>>

(* The goroutine of a request *)

\* Job j takes a step to job, and the application's state becomes record.
Step(j, job, record) ==
    /\ jobs' = [jobs EXCEPT ![j] = job]
    /\ book' = record
    /\ UNCHANGED <<program, sent, current, wire, framed, txs, answers, queries, down>>

At(j, stage) == ~down /\ jobs[j].stage = stage

\* A mutant: it answers and does not abort.
GateWrong(j) ==
    /\ At(j, "gate")
    /\ Step(j, IF Authorization(jobs[j].req) = <<>> THEN Replying(jobs[j], 403, "next")
               ELSE Next(jobs[j]), book)

\* The application's middleware: AbortString without credentials.
Gate(j) ==
    /\ At(j, "gate")
    /\ Step(j, IF Authorization(jobs[j].req) = <<>>
               THEN Replying([jobs[j] EXCEPT !.index = AbortIndex], 403, "next")
               ELSE Next(jobs[j]), book)

\* OnUnregister and OnRegister, or the record of the example's gateway.
Unregisters(req) == GetHeader(req, "Expires") = <<"0">>
\* A mutant: a device that is known is not put online again.
SavedWrong(req) ==
    IF Unregisters(req) THEN [book EXCEPT !.online = FALSE]
    ELSE [book EXCEPT !.known = TRUE, !.online = @ \/ ~book.known]

Saved(req) ==
    IF Unregisters(req) THEN [book EXCEPT !.online = FALSE]
    ELSE [book EXCEPT !.known = TRUE, !.online = TRUE]

\* registerHandler up to the answer: the hooks and the provider of the password,
\* of which each may fail, and the Digest.  What AfterRegister does is not
\* modelled.
Register(j) ==
    LET hooks == program = "hooks"
        refuse(status) == Step(j, Replying(jobs[j], status, "next"), book)
    IN /\ At(j, "register")
       /\ \/ hooks /\ \E status \in {400, 500} : refuse(status)
          \/ IF hooks /\ Unauthorized(jobs[j].req) THEN refuse(401)
             ELSE Step(j, Replying(jobs[j], 200, "next"),
                       IF hooks THEN Saved(jobs[j].req) ELSE book)

\* A device ID has 18 to 20 digits.
ValidateGBDeviceID(id) == Len(id) = 1 /\ id[1] \in LongWords

\* The gateway probes a device once it has answered its registration.
SipRegister(j) ==
    LET req == jobs[j].req
        refuse(status) == Step(j, Replying(jobs[j], status, "next"), book)
    IN /\ At(j, "own")
       /\ IF ~ValidateGBDeviceID(DeviceID(req)) THEN refuse(400)
          ELSE IF Unauthorized(req) THEN refuse(401)
          ELSE Step(j, Replying(jobs[j], 200, IF Unregisters(req) THEN "next" ELSE "probe"),
                    Saved(req))

\* What the application makes of a message: the gateway's HandleKeepalive puts a
\* device it knows online, the other programs keep the catalogs they are given.
Told(v, call) ==
    CASE v.CmdType = <<"Catalog">> ->
            [book EXCEPT !.catalogs = Append(@, [call |-> call, items |-> v.Item])]
      [] v.CmdType = <<"Keepalive">> ->
            [book EXCEPT !.online = @ \/ (book.known /\ ~Tcp)]
      [] OTHER -> book

\* registerMsg: decode, call the application, which may fail, and answer.
Handle(j) ==
    LET req == jobs[j].req
        read == XMLDecode(req.body, EmptyStruct)
        call == ValueText(FirstHeader(req.headers, "Call-ID")[1])
        reply(status, record) == Step(j, Replying(jobs[j], status, "next"), record)
    IN /\ At(j, "message")
       /\ IF read.err THEN reply(400, book)
          ELSE \/ reply(200, Told(read.v, call))
               \/ program = "plain" /\ reply(500, book)

\* NewResponseFromRequest and Respond, on the connection of the transaction.
Reasons == [s \in {200, 400, 401, 403, 405, 500} |-> <<"reason", " ", ToString(s)>>]
Extra(job) ==
    IF job.req.method = "REGISTER" /\ job.status = 200 THEN <<Generic("Date", <<"now">>)>>
    ELSE IF job.status = 401 /\ Authorization(job.req) = <<>>
    THEN <<Generic("WWW-Authenticate", <<"challenge">>)>>
    ELSE <<>>
ServerTag(j) == <<"s" \o ToString(j)>>
Reply(j) ==
    LET job == jobs[j]
        made == NewResponseFromRequest(job.req, job.status, Reasons[job.status], ServerTag(j))
        response == [made.response EXCEPT !.headers = AppendAll(@, Extra(job))]
        after == [job EXCEPT !.req = made.request]
    IN /\ At(j, "reply")
       /\ IF ResponsePanics(job.req)
          THEN down' = TRUE /\ UNCHANGED <<jobs, answers>>
          ELSE /\ jobs' = [jobs EXCEPT ![j] =
                        IF job.then = "next" THEN Next(after) ELSE [after EXCEPT !.stage = job.then]]
               /\ answers' = IF job.conn # current THEN answers
                             ELSE Append(answers, MessageLines(response))
               /\ UNCHANGED down
       /\ UNCHANGED <<program, sent, current, wire, framed, txs, book, queries>>

\* endpointFor: a query goes to a device that is known and online.
Query == queries' = queries \cup {IF book.known /\ book.online THEN "sent" ELSE "refused"}

ProbeDevice(j) ==
    /\ At(j, "probe")
    /\ Query
    /\ jobs' = [jobs EXCEPT ![j] = Next(@)]
    /\ UNCHANGED <<program, sent, current, wire, framed, txs, answers, book, down>>

\* POST /api/devices/{id}/catalog and deviceinfo
OperatorAsks ==
    /\ ~down /\ program \in {"example", "custom"}
    /\ Query
    /\ UNCHANGED <<program, sent, current, wire, framed, txs, jobs, answers, book, down>>

Goroutines ==
    \/ \E c \in Conns : ReadFrame(c)
    \/ ReadDatagram
    \/ \E j \in DOMAIN jobs :
        \/ Gate(j) \/ Register(j) \/ SipRegister(j) \/ Handle(j)
        \/ Reply(j) \/ ProbeDevice(j)

InNext ==
    \/ DeviceSends \/ DeviceRetries \/ DeviceReconnects
    \/ TxExpires \/ OperatorAsks
    \/ Goroutines

-----------------------------------------------------------------------------
(* Properties *)

\* The state is of the shape that the actions are written for.
InTypeOK ==
    /\ program \in Programs /\ current \in Conns /\ down \in BOOLEAN
    /\ Len(sent) <= MaxSent
    /\ \A n \in DOMAIN sent : sent[n].conn \in Conns /\ sent[n].lines # <<>>
    /\ \A call \in DOMAIN txs : txs[call] \in Conns
    /\ \A j \in DOMAIN jobs :
        /\ jobs[j].conn \in Conns
        /\ jobs[j].stage \in {"gate", "register", "own", "message", "reply", "probe", "done"}
        /\ jobs[j].stage = "reply" => jobs[j].status \in DOMAIN Reasons
    /\ book.known \in BOOLEAN /\ book.online \in BOOLEAN
    /\ queries \subseteq {"sent", "refused"}

\* The requests on a connection, in order, that the framing must hand over
\* whole: those it can read whose predecessor it could read too, or had no body.
Regular(form) == form.length = "full" \/ (form.length = "none" /\ form.cmd = "")
OnConn(c) == SelectSeq(sent, LAMBDA s : s.conn = c)
Safe(c) ==
    LET all == OnConn(c)
        safe == {i \in DOMAIN all :
                    /\ Regular(all[i].form)
                    /\ i = 1 \/ Regular(all[i - 1].form) \/ all[i - 1].form.cmd = ""}
    IN [k \in 1..Cardinality(safe) |-> all[SetToSortSeq(safe, <)[k]].lines]

\* A request that the framing of a TCP connection can read reaches the parser
\* whole and in order, and nothing holds it back, even after a request whose
\* Content-Length ProcessTcpConn misreads: that one costs itself, and when it
\* has a body the request after it, never the ones that follow.
FramedAsSent ==
    Tcp => \A c \in Conns :
        LET safe == Safe(c)
            whole == SelectSeq(framed[c], LAMBDA p : \E i \in DOMAIN safe : safe[i] = p)
        IN /\ IsPrefix(whole, safe)
           /\ PacketEnd(Arrived(c)) = 0 => whole = safe

\* Every answer belongs to a request that was sent and repeats its Via, From,
\* Call-ID and CSeq and its To with a tag of its own, through parsing, cloning
\* and writing; no request gets more answers than the times it was sent.
MirroredLines == {2, 3, 5, 6}
Mirrors(answer, lines) ==
    /\ \A i \in MirroredLines : \E k \in DOMAIN answer : answer[k] = lines[i]
    /\ \E k \in DOMAIN answer : /\ Len(answer[k]) = Len(lines[4]) + 4
                                /\ IsPrefix(lines[4] \o <<";", "tag", "=">>, answer[k])
AnswerMirrorsRequest ==
    /\ \A a \in DOMAIN answers : \E n \in DOMAIN sent : Mirrors(answers[a], sent[n].lines)
    /\ \A n \in DOMAIN sent :
        Cardinality(AnswersTo(n)) <= Cardinality({k \in DOMAIN sent : sent[k].lines = sent[n].lines})

\* The status code of an answer.
StatusOf(answer) == Split(answer[1], " ")[2][1]

\* A device that waits for the answer to each registration before it sends the
\* next finds, once all are answered, the record of the application as the last
\* one that was accepted left it: what takes effect is saved before the 200 is
\* written, though each request runs on a goroutine of its own.  A Keepalive
\* may put a device online in the example's record (HandleKeepalive).
Registrations == {n \in DOMAIN sent : IsRegistration(n)}
Accepted(n) == \E a \in AnswersTo(n) : StatusOf(answers[a]) = "200"
LastAnsweredWins ==
    LET accepted == {n \in Registrations : Accepted(n)}
        wanted == accepted # {} /\ sent[Max(accepted)].form.expires # "0"
        kept == program \in {"hooks", "custom"}
        beats == ~Tcp /\ \E n \in DOMAIN sent : sent[n].form.cmd = "Keepalive"
    IN (kept /\ \A n \in Registrations : Answered(n) /\ ~sent[n].early)
        => book.online = wanted \/ (beats /\ book.online)

\* Where a password is asked for, the record knows a device only once a REGISTER
\* was sent with credentials made with the password, and a REGISTER is answered
\* with 200 only when its own credentials were: no interleaving, retransmission,
\* framing or middleware lets one without them through.
PasswordProgram == program \in {"hooks", "custom"}
KnownWithPassword ==
    PasswordProgram /\ book.known => \E n \in Registrations : sent[n].form.auth = "right"
AcceptedWithPassword ==
    PasswordProgram => \A n \in Registrations : Accepted(n) => sent[n].form.auth = "right"
OnlyWithPassword == KnownWithPassword /\ AcceptedWithPassword

\* A catalog that the application is given holds every item of the body, in
\* order.  Where the body is GBK and does not say so, the items before the
\* first Chinese one come twice: XMLDecode decodes a second time into the same
\* struct.
ItemsOf(form) == [i \in DOMAIN form.items |-> SubSeq(form.items[i], 3, Len(form.items[i]))]
NoItemLost ==
    \A i \in DOMAIN book.catalogs :
        LET got == book.catalogs[i].items
            source == CHOOSE n \in DOMAIN sent : <<CallOf(sent[n].form, n)>> = book.catalogs[i].call
            form == sent[source].form
            chinese == {k \in DOMAIN form.items : form.items[k][2] = "gbk"}
            again == IF form.charset = "GB2312" \/ chinese = {} THEN 0 ELSE Min(chinese) - 1
        IN got = Upto(ItemsOf(form), again) \o ItemsOf(form)

\* Every request that reaches the parser whole is answered, but for those that
\* handlerRequest drops (no Content-Length, XML that does not decode) and those
\* whose answer goes to a connection that is no more the device's: it left it,
\* or the transaction of the Call-ID belongs to it.
Dropped(form) ==
    \/ form.method = "MESSAGE" /\ form.cmd = ""
    \/ form.charset = "none" /\ \E i \in DOMAIN form.items : form.items[i][2] = "gbk"
Lost(n) ==
    \/ down
    \/ sent[n].conn # current
    \/ \E k \in 1..(n - 1) : /\ sent[k].conn # sent[n].conn
                             /\ CallOf(sent[k].form, k) = CallOf(sent[n].form, n)
Due(n) ==
    /\ n \in DOMAIN sent /\ ~Dropped(sent[n].form)
    /\ Tcp => \E i \in DOMAIN Safe(sent[n].conn) : Safe(sent[n].conn)[i] = sent[n].lines
Settled(n) == n \in DOMAIN sent /\ (Answered(n) \/ Lost(n))
EveryRequestAnswered == \A n \in 1..MaxSent : Due(n) ~> Settled(n)
================================================================================
