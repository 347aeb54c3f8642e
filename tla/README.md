# A verification development for go-gb28181

go-gb28181 is a Go library for the platform side of GB/T 28181: it speaks SIP over UDP and TCP with
cameras and recorders, lets the application register handlers for their requests, sends them queries
and PTZ commands, and collects the catalogs they answer with.  This directory holds TLA+ modules that
model the concurrent core of the library and the messages it reads, writes and answers, TLC
configurations that check them on small instances, and proofs that the TLA+ proof system checks for
every instance.

    tlc -workers 2 -config MCTransaction.cfg MCTransaction     # one run
    tlapm TransactionProofs.tla                                # one proof module

`PROJECT.json` lists components, runs, mutants, the map from definitions to source lines, findings,
hazards and theorems.  Source paths below are relative to `src/`.

## 1. The system

| component | state | operations | hard parts |
|---|---|---|---|
| **transactions** `sip/tx.go`, `sip/server.go`, `sender.go` | the table `activeTX` Call-ID -> Transaction under a RWMutex; in a transaction the channels `resp` (10) and `active` (1) | `newTX`, `getTX`, `rmTX`, `mustTX`, `Request`, `GetResponse`, `receiveResponse`, `watch`, `Close`, `Respond` | callers, listeners and one `watch` goroutine per transaction share two channels; a 20 s timer closes both; lookup and creation are two steps |
| **observer** `sip/obs.go` | a `sync.Map` from `device:UnixMilli` to a handler; a channel of capacity 1 per waiter | `DefaultRegister`, `RegisterWithTimeout`, `Notify` | a waiter's timer races the `Range` of `Notify`; the key is not unique |
| **catalog collector** `sip/collector.go`, `runtime.go` | `data` key -> Content, `createCh` (100), `msg` (512), a ticker | `Run`, `Write`, `Wait`, `Start` | one goroutine serves three channels in random order, saves, and notifies waiters from inside its loop |
| **server lifecycle** `sip/server.go`, `sip/parser.go`, `sip/connection.go` | `ctx`, `udpConn`, `tcpListener`, `parser.isStop`, the channels `in` and `out` | `ListenUDPServer`, `ListenTCPServer`, `ProcessTcpConn`, `parser.start/stop`, `handlerListen`, `Close` | plain fields shared by the closing goroutine and by every other one; unbuffered hand-overs |
| **request dispatch** `sip/server.go`, `sip/group.go`, `sip/context.go` | the route table (`sync.Map`), `Context.index` | `handlerRequest`, `Use`, `Register/Message/Notify/Handle`, `Next`, `Abort` | each request runs on its own goroutine; several paths answer nothing |
| **registration, Digest** `handler.go`, `sip/auth.go` | none of its own: hooks of the application | `registerHandler`, `checkDigestAuth`, `respondRegisterOK` | order of hooks and answers; the nonce is not remembered |
| **peers and sessions** `platform/*`, `runtime.go` | registry deviceID -> Endpoint (`sync.Map`), in an Endpoint `source`, `to`, `conn` under a lock; `sessions` | `Ensure`, `Store`, `Load`, `Bind`, `RebindUDPDevice`, `RequestTo`, `PTZControl`, `EnsureSession` | check-then-act on a map; readers take one lock per field; rebinding replaces the object |
| **SIP messages** `sip/header.go`, `message.go`, `parser.go`, `request.go`, `response.go` | values | parse, write, clone, compare, answer a request, derive a request from an answer | aliasing between clones, nil fields, framing of a TCP stream |
| **PTZ, XML, query service** `ptz.go`, `messages.go`, `buildxml.go`, `sip/utils.go`, `service.go` | none | a body for each query, encoding, decoding with a second attempt | byte arithmetic, check sums, a struct that is decoded into twice |
| **example** `example/example.go` | the gateway's record of devices | routes, REGISTER, Keepalive, probe, HTTP | the order of its registrations |

How they interact.  A UDP packet goes from the reading goroutine over `parser.in` to the parser and
over `parser.out` to `handlerListen`, which for a request gets or creates a transaction and starts
`go ctx.Next()`, and for a response pushes it into the transaction of its Call-ID, blocking when
`resp` or `active` is full.  A handler answers on the connection stored in its transaction.  The
application's senders call `Server.Request` (which uses the same `mustTX`) and then `GetResponse`.
The handler of a catalog message calls `CatalogWrite`; `StartCatalogLoop` runs the collector, which
calls the application's `save` and then `Notify`, which wakes those in `CatalogWait`.

What makes each part correct:

* transactions: a response reaches the caller that asked for it, once, or nobody; nobody waits for
  ever; the table never leads to a closed transaction; a transaction that is not used goes away;
* observer: a `Notify` reaches everyone who waited for the device when it started, blocks on nobody,
  and wakes nobody without a save; everyone who waits returns;
* collector: what is collected is saved, once, without duplicates; writers get room;
* lifecycle: `Close` ends the goroutines that listen, whenever it comes, takes nothing from the network
  afterwards, and ends no process;
* dispatch and registration: a request that can be read reaches its handler whole and is answered, once
  for each time it was sent, with the lines that a SIP answer repeats; where a password is set nobody is
  known without it; what the record holds is what the last answered registration asked for;
* messages and queries: what is written is what is read, a clone equals its original,
  a request of a dialog has a number of its own, a PTZ command has the bytes that the standard asks for;
* peers: all who deal with a device use the endpoint and the session in the maps, a device that can be
  reached stays so, and no request goes to an older address than it was built for.

## 2. Modules

| module | models | checked by |
|---|---|---|
| `Transaction` | the transactions with callers, listeners and watch goroutines | `MCTransaction` (two cfgs), `MCProgress`, `TransactionProofs` |
| `Mailbox` | what a transaction promises: a closable mailbox | refined by `Transaction` (`ImplementsMailbox`) |
| `Observer` | waiters, and the notifier as it ranges over the map | composed in `Catalog` |
| `Collector` | the goroutine of `Collector.Start`, `Run` and `Write` | composed in `Catalog` |
| `Catalog` | `Runtime`'s catalog query: `Collector` + `Observer` | `MCCatalog` (three cfgs), `MCProgress` |
| `Lifecycle` | the goroutines of a `Server` from `Start` to `Close` | `MCLifecycle` (two cfgs), `LifecycleProofs` |
| `Peers` | endpoints and sessions, with handlers, rebinders and senders | `MCPeers` (two cfgs), `PeersProofs` |
| `Params`, `Uris`, `Headers`, `Messages` | pure operators: parameters, URIs, headers, whole messages, each with its text, parser, clone and equality; answers and derived requests | used by `Inbound` and `Outbound` |
| `Manscdp` | pure operators: the bodies, their encoding and decoding, the PTZ command | used by `Inbound` and `Outbound` |
| `Inbound` | what a device sends, from the bytes to the answer | composed in `Signalling` |
| `Outbound` | what the platform asks, from the call to the requests of its dialog | composed in `Signalling` |
| `Signalling` | both | `MCSignalling` (two cfgs), `SignallingProofs` |
| `TextProofs` | folds and induction without operators as parameters; cutting, splitting and reading texts | tlapm |
| `MessageProofs` | what the parser and the header list do with any message | tlapm |
| `DeviceProofs` | what the platform reads of the lines that a device writes | tlapm |
| `TransactionProofs`, `CatalogProofs`, `LifecycleProofs`, `PeersProofs`, `SignallingProofs` | theorems about the components | tlapm |

Definitions whose name ends in `Wrong` are not part of any specification: each is a plausible mistake
in the definition below it, kept to show that a property notices it.

### Transaction

State: `table` is `activeTX.txs`; `key`, `respQ`, `activeQ`, `closed` are the fields and channels of each
transaction; `watch`, `cpc`, `lpc` are the program counters of the watch goroutine of a transaction,
of a caller (`Server.Request`, then `GetResponse`) and of a listener (`handlerListen`).

Every channel operation, map access under the lock and close is one action.  `mustTX` is two actions
(`Lookup`, `Create`) because the code takes the lock twice.  A send that may block is guarded by the
channel being ready; a send on a closed channel panics, which a listener recovers from
(`receiveResponse`, `Recovered`) and a caller does not (`SignalPanics`, `crashed`).  `WatchTimeout` may
happen whenever nothing is in `active`: the timer is made anew each time round, so no clock is kept.

Abstracted: a packet is its Call-ID, the caller whose request it answers, and whether it is
provisional (100 and 101, which `GetResponse` skips).  The network delivers any packet that answers a
request that was sent, any number of times and in any order, and any request.

`Mailbox` is the abstract specification: mailboxes that are opened, joined by readers, filled with
letters nobody was given before and closed; readers take letters in order until one is final, and
are told "nothing" only by a closed and empty box.  The refinement mapping shows the transaction's
second channel, table, listeners and watch goroutine to be implementation detail.

### Observer, Collector, Catalog

`Observer` has the waiters (`Register` until `Closes`) and the notifier, whose `Range` over the
`sync.Map` is modelled by what Go promises of it: each slot that stays in the map is visited once,
with the value it has then, and one that is added meanwhile may be visited or not (`left`, `visited`).
A slot is a device and a millisecond, so that two waiters can share one.  `Collector` has the goroutine
of `Start` with its three channels; the 10 s without an update are one flag (`Idles`) and the ticker may
fire at any time.  `Catalog` joins them: `SaveKey` starts a Notify, `NotifyReturns` ends with it, and in
between waiters, `Run` and `Write` go on.

### Lifecycle

`udpConn` and `tcpListener` say whether the fields are set, `udpSock` and `tcpSock` are the sockets behind
them, `rpc`, `ppc`, `apc`, `closer` are where reader, parser, acceptor and `Close` are; `lpkt` is the message
`handlerListen` works on, `handler` the goroutine of each request.  Nothing guards the fields, so each
read and each write of them is a step.  A packet carries whether the connection it was wrapped with
was nil.  A panic ends the process (`crashed`).  The hand-overs on unbuffered channels are joint actions.

### Peers

`peers` and `sessions` are the two `sync.Map`s, whose `Load`, `Store` and `LoadOrStore` are one step each; each
method of `Endpoint` holds its lock and is one step too.  What `Bind` stores is a number in the order of
the Binds (`binding`), 0 for the nil fields of a new endpoint, so that a property can say which of two
values that were read is older.  An endpoint or session is allocated from those that nobody refers to,
so an object that lost in `LoadOrStore` can come back as a new one.  `stale` holds the handlers whose
endpoint a rebinder replaced after `Ensure` returned it.

The handlers are the application's.  They are modelled as `platform/endpoint.go:23` describes them: for a
REGISTER or Keepalive they bind the endpoint, and they set the session online after that.  An
application that sets `IsOnline` first would break `PTZIsSendable`, and nothing in the library hinders it.

### Params, Uris, Headers, Messages, Manscdp

A text is a sequence of tokens: the characters that the code looks for (delimiters, quotes, blanks) and
words that hold none of them.  Parsing and writing are modelled by what they do to these, not letter by
letter, so that a property can say that a text written again is the text that was read.  What Go has as a
value that may be nil is `Nil` or `Some(x)`.  A header is a record `[kind, ptr, val]`: its Go type, whether the
interface holds a pointer to it (which `Equals` tells apart), and its value; the headers of a message are
groups in the order of `headerOrder`.  A body is a sequence of lines, an XML declaration with a charset and
elements with the bytes that stand for their text; one line stands for one unit of `Content-Length`.

Where the code indexes an empty slice or takes the address of a nil field, the operator has a predicate
that says so (`ResponsePanics`, `ClonePanicsOn`, `DerivationPanics`) and the step that calls it sets `down` or
`failed`.  `NewRequestFromResponse` and `NewResponseFromRequest` change the message they are given through
shared headers, so their operators return both messages.

### Inbound

State: `sent`, what the device sent; `wire`, what is on a connection and not read; `framed`, the packets that
`ProcessTcpConn` cut out; `txs`, Call-ID -> connection of its transaction; `jobs`, the goroutine of each request
with its `Context` (handlers, index, what it does next); `answers`, what came back to the device; `book`, what
the application keeps of the device; `queries`; `down`.  Actions: the device sends, sends again (UDP) and
connects again (TCP) - `DeviceSends`, `DeviceRetries`, `DeviceReconnects`; the platform reads (`ReadFrame`,
`ReadDatagram`: framing, parser and dispatch), lets a transaction expire (`TxExpires`), and runs the handlers
and answers (`Gate`, `Register`, `SipRegister`, `Handle`, `Reply`); the example probes a device and its
operator asks for queries (`ProbeDevice`, `OperatorAsks`).

`Forms` are the requests that the device may send: `IsForm` says which record is one, and `DeviceLines` is its
text.  `program` is what the application registered.  `plain` and `hooks` call `RegisterHandlers` without and with
hooks and a password, over TCP.  `example` is the example as it stands and `custom` is its handlers with the
REGISTER route registered last, behind a middleware that aborts; both use UDP, where packets are reordered
and repeated.  The four between them reach every branch of the handlers.

### Outbound, Signalling

State: `called` (the call and the address of the service), `request` and `wrote` (its text), `heard` (what the
device read), `given` (the text of its answer), `response`, `derived` (the requests made from it) and `failed`.
`Ask` is every operation of `Service`, `OutboundRequest` to a channel and `Context.SendRequest`; `DeviceAnswers`
reads with the grammar of the code's own parser and answers with and without Contact and Record-Route;
`PlatformReads`, `Derive` and `SendDerived` are the rest of the dialog.

`Inbound` and `Outbound` share operators and no state.  `Signalling` lets the platform make its call only while
the device is silent, so that the states of the two add up instead of multiplying.

## 3. Runs

| run | instance | shows |
|---|---|---|
| `transaction` | 2 Call-IDs, 3 transactions, 2 callers, 2 listeners, capacity 1, 2 packets (symmetry) | `TypeOK`, `TableOpen`, `SoleTxFindable`, `OwnResponse`, `DeliveredOnce`, `NilOnlyWhenDrained`, `ImplementsMailbox` |
| `transaction_panic` | as `transaction` | violates `NoSendOnClosed` (finding 1) |
| `catalog` | 2 devices, 2 waiters, 2 milliseconds, 2 items, total 2, queues of 1, 2 runs, 3 writes (symmetry) | `TypeOK`, `NotifyReachesAll`, `NotifyNeverBlocks`, `WaiterIsRegistered`, `NoDuplicateSaved`, `WokenAfterSave`, `LeavesWhenSaved` |
| `progress` | transactions: 1 Call-ID, 2 transactions, 1 caller, 2 listeners, 3 packets; catalogs: 1 device, 2 waiters in one millisecond, totals 0 and 2 | `CallerReturns`, `ListenerFreed`, `TxReclaimed`, `EveryKeySaved`, `WaitReturns`, `WriterGetsRoom` |
| `notify_after_timeout` | as `catalog` | violates `NoSendAfterTimeout` (finding 2) |
| `run_before_write` | as `catalog` | violates `RunBeforeWrite` (finding 3) |
| `lifecycle` | 3 UDP packets, 2 TCP connections | `TypeOK`, `CloseEndsListeners`, `ClosedTakesNothing` |
| `close_panic` | as `lifecycle` | violates `ClosesNormally` (finding 4) |
| `peers` | 2 devices, 4 endpoints, 2 sessions, 2 handlers, 1 rebinder, 1 sender, 4 Binds (symmetry) | `TypeOK`, `EnsuredIsRegistered`, `PTZIsSendable`, `SourceIsNewest`, `BoundStays` |
| `signalling` | 4 programs, 3 requests of a device, every call of the platform with 3 addresses, 2 derived requests | `TypeOK`, `FramedAsSent`, `AnswerMirrorsRequest`, `LastAnsweredWins`, `OnlyWithPassword`, `NoItemLost`, `BuiltIsRead`, `DialogKept`, `CloneIsEqual`, `EveryRequestAnswered` |
| `unbound_target` | as `peers`, 1 device | violates `OutboundSends` (finding 5) |
| `dialog_numbers` | as `signalling` | violates `DialogNumbers` (finding 9) |

Bounds, and why they are enough.

* `RespCap = 1` stands for 10: what matters is that the buffer can be empty, hold something, and be full
  with a listener blocked on it.  With two callers of one Call-ID, and two listeners, there is a second
  actor for each race; three transactions let one displace another while a third has a key to itself.
* Two packets are needed for a duplicate or a provisional and a final response; the third one of the
  progress run blocks a listener on a full `resp`.
* `MCProgress` has the states of the transactions and those of the catalogs side by side (`part` says which):
  the two share nothing, so that no property could tell an interleaving of them from what each does alone.
* Two slots of one device, two of the other and two waiters give shared and unshared slots; two runs and
  three writes give a catalog that completes, one that is restarted and one that ends by the clock.
* Queues of one give room, full and blocked; a `Run` that finds `createCh` full is dropped.
* Three UDP packets put one with the reader, one with the parser and one with the listener, the longest
  chain of goroutines that wait for each other.
* Two handlers race in `Ensure` while a rebinder replaces the endpoint under them; four Binds let a sender
  read its three fields from three different ones.  A sender changes nothing that another would see,
  so one is enough; four endpoints leave one free when every other is in use.
* Three requests (148,426 states): two of every kind that `MCNextForms` lists, in both orders, and a third
  where two are not enough: after a request whose length `ProcessTcpConn` misreads, to see that the damage
  ends, and after register and unregister, to see the registration that follows them.  Two derived requests
  are enough for one to change the number of another.  `Numbers` holds the numbers that these texts contain.
  The PTZ speeds are below, at and above the ends of a byte.
* Symmetry is used only in runs without liveness properties, over sets whose members no definition
  distinguishes.

Fairness.  Weak fairness of the steps of each goroutine: the Go scheduler is preemptive, and a step that
stays possible is taken.  This includes timers: `time.After` fires.  Strong fairness only of
`Catalog!Collect`, the receipts of the collector's `select`: Go's select picks at random among ready
cases, so a queue that is ready time and again is not passed over for ever (with weak fairness alone
the ticker could win each time).  In
`Signalling` the weak fairness of the goroutines is written out (`Scheduled`) instead of with `WF_`: `ENABLED`
would parse every packet again in every state.  Nothing that the application, a device, an operator or the
network does is fair: requests need not be sent, packets need not arrive, nobody need call `Close`, and no
transaction need expire.  `signalling` does not check for deadlock, because the device may stop
sending; that its requests are answered is `EveryRequestAnswered`.  Liveness properties allow for the
panics of the findings (`crashed`, `panicked`): after one there is no process.

## 4. Findings

1. `GetResponse` sends on `tx.active` after it took a response (`sip/tx.go:86`).  When the watch goroutine
   has closed the channel by then - the caller came late, or between the two closes - the send panics
   and nothing recovers it.  Run `transaction_panic`.
2. `Notify` calls a handler it has loaded while that waiter times out, deregisters and closes its
   channel: the send panics on the collector's goroutine (`sip/obs.go:37`).  Run `notify_after_timeout`.
3. `Run` then `Write` is the documented order of use, but the two go through different channels of one
   `select`: the item can be taken first and is then dropped (`sip/collector.go:97`).  Run
   `run_before_write`.
4. `Close` sets `udpConn` to nil while the reader is about to call `ReadFrom` on it, or a packet on its way
   carries or will load it: nil dereference (`sip/server.go:133`, `263`, `sip/tx.go:119`).  Run `close_panic`.
5. `Ensure` registers an endpoint before it is bound, and `NewChannelTarget` asks only whether there is one:
   a request to a channel in between reads a nil connection, which `mustTX` dereferences
   (`platform/outbound.go:13`, `sip/server.go:91`).  Run `unbound_target`.
6. The description of `Collector` says that it does not deduplicate ("4. 不会去重", `sip/collector.go:16`); lines
   2 and 49 of the file say that `noRepeatFn` is there to do so, and the code drops an item that equals one
   it has (`sip/collector.go:104`).  Run `catalog`: `NoDuplicateSaved` holds, against line 16.
7. `RegisterHandlers` overwrites the REGISTER route that the example registered just before it
   (`example/example.go:308`, `309`), so a registration goes to the library's handler, without a password.
   `-device-password` ("设备注册密码（Digest）", `README.md:24`, `example.go:62`) has no effect, no device enters the
   gateway, and the queries that follow a registration or come over HTTP (`README.md:13`, `example.go:1`) are
   never sent.  Run `signalling`: a REGISTER without credentials is answered (`EveryRequestAnswered`), and
   theorem `RouteIsShadowed` says that no answer is 401 and no query leaves.  The program `custom` is the
   example with the two calls in the other order, behind a middleware; it asks for the password
   (`OnlyWithPassword`).
8. The clone of a Route or Record-Route assigns to the elements of an empty slice (`sip/header.go:1496`,
   `1556`), where `Clone` "returns copy of header struct" (`:301`).  `NewResponseFromRequest` clones the
   Record-Route of the request it answers (`sip/response.go:38`): the process panics.  Run `signalling`:
   `CloneIsEqual` holds, which says that these two headers panic and no other.
9. `NewRequestFromResponse` changes the response's CSeq and shares it with every request derived from it
   (`sip/request.go:84`): a request that is sent after the next one was derived has that one's number and
   method, and an ACK that is derived after a BYE has the BYE's number.  The comment at `sip/request.go:87-95`
   says that numbers within a dialog MUST increase one by one, and that those of ACK and CANCEL equal the
   request's.  Run `dialog_numbers`.

Deviations met while modelling that have no run of their own, since a property of `signalling` states what
the code does instead:

* A `Content-Length` with a tab or in its compact form is not understood (`sip/server.go:242`): that request,
  and the next one if it had a body, are lost.  `FramedAsSent`.
* `XMLDecode` decodes again into the struct that its first attempt filled (`sip/utils.go:183`): items come
  twice.  `NoItemLost`.
* To derive a request from an answer without a Contact panics (`sip/request.go:52`).  `DialogKept`.
* A clone of `X-GB-Ver` does not equal its original, and `Allow` does only one way.  `CloneIsEqual`.
* A Keepalive that arrives after an unregistration puts the device online again (`example/example.go:236`).
  `LastAnsweredWins`.
* An answer goes to the connection on which the Call-ID was first seen (`sip/tx.go:119`); a MESSAGE without
  Content-Length, or whose XML does not decode, gets none (`sip/server.go:288`).  `EveryRequestAnswered`.
* The nonce of a Digest is not remembered: any that the device chooses will do (`handler.go:309`).

## 5. Proofs

`TransactionProofs` proves of `Safety`, for any sets of keys, transactions, callers and listeners, any number
of packets and any capacity of `resp` of at least one (`TransactionAssumption`, which also says that `None`
is none of them):

* `TypeCorrect`, `TableStaysOpen` (`TableOpen`) from the inductive invariant
  `IInv == TypeOK /\ WatchInv /\ TableOpen /\ CallerInv /\ ListenerInv`.  `TableOpen` is not inductive
  alone: that `rmTX` removes the right entry needs the entry to lead to a transaction of its key, and that no
  listener or caller resurrects it needs to know which stages have which keys and channels (`WatchInv`,
  `CallerInv`, `ListenerInv`).
* `SoleFindable` (`SoleTxFindable`): `WhoChangesTable` says that an entry changes only by `newTX` with its
  key or by `rmTX` of a transaction of its key; with one transaction of the key neither disturbs it.
* `RoutedByKey`: every response in a buffer, with a listener or with a caller answers a request of that
  Call-ID (`RoutedByCallID`); `OwnAnswer` (`OwnResponse`) follows: with a Call-ID to itself a caller gets
  the answer to its own request.
* `NilMeansDrained` (`NilOnlyWhenDrained`): `NilAndClosedStay` says that a closed and empty `resp` stays so.

It proves from the same invariant:

* `DeliversOnce` (`DeliveredOnce`), by `OnePlace`: no two listeners hold one packet, no listener holds one
  that is in a buffer or with a caller, no two places of the buffers or of what the callers took are
  the same packet, and none is in a buffer and with a caller.  Only three steps move a packet
  (`WhoMovesPackets`), and each has a lemma.  That the number of the next packet is new needs `Numbered`.
* `Implements` (`ImplementsMailbox`): every behaviour of the transactions is one of `Mailbox`.  `Init` maps to
  its `Init`; each step that a caller of `GetResponse` can notice maps to a step of the mailbox (`Create` to
  `OpenAndJoin`, `Lookup` of an entry to `Join`, `PushResponse` to `Deliver`, `TakeResponse` to `Take`, `TakeNil` to
  `Nothing`, `Signal` after a final response to `Answer`, `ListenerCreates` to `Open`, `CloseResp` to `Close`) and
  every other one to a stutter.  `Deliver` asks for a fresh letter, which is `OnePlace`; `Take` asks for
  a reader that had nothing final, which is `ReadsOn`.

`LifecycleProofs` proves, for any number of packets and connections:

* `TypeCorrect`: among it that a field is set only when its socket was opened;
* `TakesNothing` (`ClosedTakesNothing`): from `IInv == TypeOK /\ FieldsInv /\ ClosedSoFar`, where
  `FieldsInv` ties the fields to where reader and acceptor are, and `ClosedSoFar` says how far `Close`
  has come with the sockets of a server that was up.

`PeersProofs` proves, for any number of devices, objects, handlers, rebinders, senders and Binds:

* `TypeCorrect`, `EnsuredObjects` (`EnsuredIsRegistered`), `PTZSends` (`PTZIsSendable`), `NewestSource`
  (`SourceIsNewest`) and `ReachableStays` (`BoundStays`), from one inductive invariant.  `PTZIsSendable` needs
  the chain that leads to it: a handler that is past its `Bind` has a device that can be reached
  (`HandlerInv`), so a session that is online has one (`SessionInv`), so the endpoint that `PTZControl` loads
  later is bound although it is not the one the handler bound (`SenderInv`), because what a rebinder
  stores is bound too (`RebinderInv`).  `SourceIsNewest` needs that Binds are numbered upwards
  (`BindingInv`).  The assumption `PeersAssumption` says that `None` is no device, endpoint or session.

`CatalogProofs` proves of `Catalog!Safety`, for any number of devices, items, waiters and milliseconds, any
capacities, and any totals:

* `NoDuplicates` (`NoDuplicateSaved`) and `LeavesSaved` (`LeavesWhenSaved`) from `ColInv == ColTypeOK /\
  ContentInv /\ NotifyingInv`: that the content under way to a save stays as it is while `Notify` runs is what
  makes the batch that leaves the one that was saved.
* `Registered`, `NeverBlocks`, `ReachesAll` from `ObsInv`: `SlotInv` says of a handler in the map that its
  waiter has no token yet, unless the notifier is about to delete it, and `RangeInv` that a waiter which was
  there when the `Range` began is still to be visited or is being sent to.
* `TypeCorrect`, `WokenAfterItsSave` (`WokenAfterSave`) from `WaitInv` on top of `ObsInv`: it counts a
  save that is being notified apart from those before it.  A waiter that registers while a `Notify` is under
  way may be woken by it, though that save was made before it registered; what it is never woken by is a
  save whose `Notify` had ended by then.

Collector and observer share no variable, so every step of one is a stutter of the other's invariant
(`CollectorSteps`, `ObserverSteps`).  Assumed: queues hold at least one, `NoContent` is no key and no content,
`Nobody` no waiter, device or slot, and the collector's keys are the observer's devices.

`SignallingProofs` proves of `SigSpec`, for whatever requests a device may send (`Forms`, any set), in any number,
over any connections, cut and reordered as the steps allow, and for any calls of the platform:

* `RouteIsShadowed`: finding 7 is no accident of the instance.  Whatever is sent, the example knows no
  device, no query leaves and nobody is asked for the password (`ShadowedRoute`): of the example no job is in the application's REGISTER handler or on
  the way to it, because `RegisterHandlers` leaves that route no handler but its own (`RegisteredRoute`).
  The invariant `IInv == JobsInv /\ BookInv /\ Shadowed` knows nothing of the texts, only the shape of a job.
* `InboundTyped` (`InTypeOK`, the half of `TypeOK` that is about `Inbound`), from `IInv`, `ShapeInv` (connections,
  transactions, queries) and `SentInv`: what was sent are the lines of a form with the number of its request.
* `SignallingTyped` (`TypeOK`), from `OutInv` besides: what was written opens as a request does, what the
  device heard is a request, what it answers opens with its status line, what the platform read of that is a
  response, and a derived request is one record in each of its stages.  That `Outbound` hears a request where it
  wrote one needs the start line to survive: the text of a URI is a text (`UriTextType`, and before it that each
  parser of URIs, parameters and hosts gives parts that are texts over the tokens of its input), so the line
  splits where it was put together and no header line or body comes before it (`LinesAre`, `WrittenOpens`).
* `PasswordAsked` (`KnownWithPassword`, the half of `OnlyWithPassword` that is about what the application
  knows): where a password is set no device is known before a REGISTER was sent with credentials that
  were made with it.
* `OnlyThePassword` (`OnlyWithPassword`), from that and `AcceptedWithPassword`: no REGISTER is answered with 200
  whose own credentials were not made with the password.

`PasswordAsked` is about texts, and about every text that can come out of the framing: a request whose
length is misread is cut in two, and its body and what follows it reach the parser as if they were one.
What is invariant is therefore not which messages are read but which headers: `CarryInv(F)` says that as
long as the device has sent only forms of `F`, the wire holds only pieces of their lines and a request that is
being handled only headers that one of their lines is read as (`Carries`).  With `F` the forms whose credentials
were guessed (`GuessInv`) the credentials that `checkDigestAuth` finds are among them, their user is empty or
that of a form, and the response they hold is never the one that it computes; `MethodInv` says that only a
REGISTER is with a handler that registers.  `CarryInv` holds over a step that cuts a packet because
a cut of lines gives lines, over `ReadFrame` because the parser makes a header of each line by itself and puts it
in a group of its name (`MessageProofs`), and over `Handle` and `Reply` because they keep the request.

`OnlyThePassword` says whose answer a 200 is, so headers alone do not do: the Via of one REGISTER must not be
read with the credentials of another.  That holds although a packet may be cut anywhere, because the parser
stops at the first empty line after a start line.  `LetInv` has the four steps from the text that is sent to
the answer that comes back:

* `NumberInv`: what was sent are the lines of its form under its number (one that is sent twice is sent as it
  was), so that a Via tells the ask it belongs to (`BranchOwn`).
* `WholeInv`: on the wire every start line is followed by header lines of its own request up to an empty line.
  Not every line belongs to a whole request, as what is left of a packet may begin with a body; but such lines
  hold no start line (`Bare`), and so no request is made of them.
* `OriginInv`: the request of every job has its method and all its headers from one ask (`Source`), and
  where that is a REGISTER its job is only at handlers that check them and has no status 200 before (`Guarded`).
* `AnswerInv`: an answer has the Via of one ask as its second line, and 200 in its first only if a job could
  give it.  For that the answer is followed from `NewResponse` through `CloneHeader`, the headers that are
  added and `String` to its lines; what is not Via writes no line that a Via could be mistaken for.

`DeviceProofs` is what that rests on: which header each line of `DeviceLines` is read as, by following
the code's own parser through it - start line and Via, addresses with `"`, `<` and `>`, parameters,
CSeq, Contact, Expires, Record-Route, Authorization, Content-Length - and that a line of a body, which
may be taken for a header, is none.  `MessageProofs` proves for every message that the header list
keeps one group for a name, that `Get` finds what is in it, and what the loop of `ParseMessage` keeps.

`ClonedMessage`, in `DeviceProofs`, is what `CloneIsEqual` asks of one message, for every message that is
sound: its headers are of any number and any values, in one group for each name, the addresses in them have
both lists of their URI, no list has a key twice, a route header has a route, and a body is announced by its
Content-Length.  `Clone` copies lists by adding their pairs one by one and headers by appending them again, so
the proof is that adding pairs of distinct keys and appending headers to their groups gives back the list and
the groups.  `ReadCloned` shows that what `ParseMessage` returns is such a message if its body is as long as it
announces, for any text of which no line continues another and each line with a route header has a route: the parsers make no other header
that is not sound (`LineSounds`).

The texts have any length, so these are inductions over data.  The library's induction theorems take an
operator as a parameter, which the provers cannot instantiate; `TextProofs` states induction with sets
instead (`SetInduction`: a set of numbers that has 0 and with `n` also `n + 1` has them all; `SeqInduction`:
the same for sequences and `Append`).  A helper of `Params` that runs along a text is a recursive function,
and `Fold` names what any of them ends in: an operation is a function of `Ops(S, T)`, `RunExists` and
`RunsAgree` make a fold unique, and `FoldType`, `FoldAppend` and `FoldConcat` are its laws.  `Split`, `Keep`,
`Flat` and the loop over the headers are instances.  For that the model writes `Each`, `Keep` and `Flat` as
functions where it had operators of the library, and a route table as a plain function.

`CallAssumption` says that the domain of a platform is a text.  `DeviceAssumption` says what is assumed of the
other constants: that `Forms` are forms whose words hold no
delimiter, that numbers are written with words of their own and the code 200 as no other status the library
gives, that a branch is no other word of a Via, and that the responses to a challenge made with the
password and without it differ, which is MD5 taken as injective.

Only model-checked:

* `FramedAsSent`, `AnswerMirrorsRequest`, `LastAnsweredWins`, `NoItemLost`: they need what is read of a whole
  message to be what was sent, in the order of its lines, and not only each header by itself.
* `BuiltIsRead`, `DialogKept`: the same for the messages that the platform writes, whose headers have more
  kinds and parameters.
* `CloneIsEqual`: `ClonedMessage` is it for every sound message; that every message held is sound, the
  built and the derived ones and the one the device reads, is left to the run.
* `CloseEndsListeners` and all liveness properties: `~>` under fairness is out of the prover's reach, as
  is `ENABLED`.

## 6. Not modelled

* Binding a port that fails, and a host without an address: `ListenUDPServer` panics at start, by intent.
* A second `Close` that runs concurrently with the first.
* The parser and listener of each TCP connection: they are the ones of the UDP socket except that
  their connection is never nil.
* Of texts: upper and lower case, the wording of reasons; MD5 is an injective function of what is hashed.
* Malformed input that makes the code itself panic: an address of blanks only or without `>`, which it
  indexes beyond its end (`sip/parser.go:501`, `533`), is an error of the model's parser, and a Content-Length that
  `make` refuses (`sip/server.go:230`) makes the model's reader wait.  No such text is among those that are
  sent, no run and no theorem claims that only known inputs end the process, and what `ReadCloned` says of
  texts of any lines it says of the message that `ParseMessage` returns, if it does.
* Of headers and messages: the setters and predicates nobody calls, `XGBVer` and the cache of a `Context`.
* Of registration: what `AfterRegister` does, `SkipNotify`, `SuccessText` and `OnError`.  `NOTIFY` has the
  routes of `MESSAGE` and is not among what the device sends.
* Two servers in one process: `NewServer` replaces the global `activeTX`.  No program in
  the repository makes two.
* `Collector.Start`'s `save` belongs to the application: it returns.
* `StorePeer` and `StoreSession` with objects of the application's own, and the ranges over both maps:
  nothing in the repository calls them.
* The HTTP client, `ResolveSelfIP` and random strings of `sip/utils.go`; the HTTP server, flags and `send`
  command of the example: input and output.
* Logging, aliases.

## 7. Plan

Done: transactions and mailbox with the proof of the refinement, catalog with the proofs of its safety,
lifecycle, peers, messages and bodies, dispatch and registration, queries and dialogs, the first proofs about texts.  What is left:

1. `Transaction` with two tables, for two servers in one process, once a program makes two.
2. The parser and listener of each TCP connection in `Lifecycle`, which outlive `Close`.
3. `AnswerMirrorsRequest`: `AnswerInv` follows the Via from the request to its answer; the other
   headers that are copied need the same.
4. `CloneIsEqual`: that what `BuildHeaders`, `NewRequestFromResponse` and the reading of their texts give is
   sound, so that `ClonedMessage` applies to every message held.
