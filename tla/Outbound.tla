-------------------------------- MODULE Outbound --------------------------------
(***************************************************************************)
(* What the platform sends to a device: one request, built by Service      *)
(* (service.go, sender.go), platform.OutboundRequest or Context            *)
(* .SendRequest, completed by Server.Request (sip/server.go) and written;  *)
(* the answer, parsed; and the requests within its dialog that             *)
(* NewRequestFromResponse derives from it (sip/request.go).                *)
(*                                                                         *)
(* The device reads with the grammar of the code's own parser and answers  *)
(* as RFC 3261 asks.  The transaction that waits for the answer is in      *)
(* Transaction, the endpoint that the addresses come from in Peers.        *)
(***************************************************************************)
EXTENDS Messages, Manscdp

CONSTANTS
    Calls,          \* the calls of the application: [op, action, speed, domain]
    Platforms,      \* the addresses that the service may be created with
    MaxDerived      \* bound on the requests derived from the answer

VARIABLES
    called,         \* Nil, or the call and the service's address
    request,        \* Nil, or the request that was built
    wrote,          \* its text
    heard,          \* Nil, or what the device read
    given,          \* the text of the device's answer
    response,       \* Nil, or the Response that the application has
    derived,        \* the requests derived from it: [method, request, text, at]
    failed          \* a call has panicked

\* The domain of a call is a text.
ASSUME CallAssumption == \A call \in Calls : call.domain \in Seq(STRING)

outvars == <<called, request, wrote, heard, given, response, derived, failed>>

-----------------------------------------------------------------------------
(* The calls *)

\* The body of each call of Service.
CallBody(call) ==
    CASE call.op = "Catalog" -> CatalogXML("device")
      [] call.op = "DeviceInfo" -> DeviceInfoXML("device")
      [] call.op = "RecordInfo" -> RecordInfoXML("channel", "start", "end")
      [] call.op = "ConfigDownload" -> ConfigDownloadXML("device", "BasicParam")
      [] call.op = "DeviceConfig" -> DeviceConfigXML("channel", <<>>)
      [] call.op = "SnapShot" -> DeviceConfigXML("channel", <<"session">>)
      [] OTHER -> PTZControlXML("channel", call.action, call.speed)

\* validate, and the URI that sendMessage formats and parses.
Target(call) == ParseSipURI(<<"sip", ":", "device", "@">> \o call.domain)
Refuses(call) ==
    \/ call.domain = <<>> \/ Target(call).err
    \/ call.op = "PTZ" /\ call.action \notin PTZActions

XML == <<"Application", "/", "MANSCDP+xml">>
SDP == <<"application", "/", "sdp">>

\* sendMessage
ServiceRequest(call, platform) ==
    LET uri == Target(call).uri
    IN NewRequest("MESSAGE", uri,
                  BuildHeaders("MESSAGE", Address(Nil, uri), platform, Some(platform), XML,
                               <<"z1">>, <<"c1">>, <<"t1">>),
                  CallBody(call))

\* OutboundRequest to a channel of the device, as an INVITE with a description.
ChannelRequest(call, platform) ==
    LET uri == NewURI(Some(<<"channel">>), call.domain, Nil)
    IN NewRequest("INVITE", uri,
                  BuildHeaders("INVITE", Address(Nil, uri), platform, Some(platform), SDP,
                               <<"z1">>, <<"c1">>, <<"t1">>),
                  << <<"v", "=", "0">> >>)

\* SendRequest to the sender of a request: without a Contact.
SenderRequest(call, platform) ==
    LET to == Address(Some(<<>>), NewURI(Some(<<"device">>), call.domain, Nil))
    IN NewRequest("MESSAGE", to.uri,
                  BuildHeaders("MESSAGE", to, platform, Nil, XML, <<"z1">>, <<"c1">>, <<"t1">>),
                  CatalogXML("device"))

Built(call, platform) ==
    LET req == CASE call.op = "Invite" -> ChannelRequest(call, platform)
                 [] call.op = "Context" -> SenderRequest(call, platform)
                 [] OTHER -> ServiceRequest(call, platform)
    IN WithSentBy(req, <<"platform">>, "5060", <<"z0">>)

-----------------------------------------------------------------------------

OutInit ==
    /\ called = Nil /\ request = Nil /\ wrote = <<>> /\ heard = Nil
    /\ given = <<>> /\ response = Nil /\ derived = <<>> /\ failed = FALSE

\* An invalid endpoint, domain or action is an error of the call.
Ask ==
    /\ called = Nil
    /\ \E call \in Calls, platform \in Platforms :
        /\ called' = Some([call |-> call, platform |-> platform])
        /\ request' = IF call.op \notin {"Invite", "Context"} /\ Refuses(call) THEN Nil
                      ELSE Some(Built(call, platform))
        /\ wrote' = IF request' = Nil THEN <<>> ELSE MessageLines(request'[1])
    /\ UNCHANGED <<heard, given, response, derived, failed>>

\* The device copies what an answer repeats, and adds its tag; over a proxy
\* there is a Record-Route.
DeviceAnswers ==
    /\ wrote # <<>> /\ given = <<>>
    /\ heard' = ParseMessage(wrote)
    /\ \E contact, recorded \in BOOLEAN :
        LET copied(name) == Keep(wrote, {l \in Range(wrote) : l # <<>> /\ l[1] = name})
            tagged == <<copied("To")[1] \o <<";", "tag", "=", "d1">> >>
        IN given' = << <<Version, " ", "200", " ", "OK">> >>
                    \o copied("Via") \o copied("From") \o tagged \o copied("Call-ID")
                    \o copied("CSeq")
                    \o (IF contact
                        THEN << <<"Contact", ":", " ", "<", "sip", ":", "device", "@", "peer", ">">> >>
                        ELSE <<>>)
                    \o (IF recorded
                        THEN << <<"Record-Route", ":", " ", "<", "sip", ":", "proxy", ";", "lr",
                                  ">">> >>
                        ELSE <<>>)
                    \o << <<"Content-Length", ":", " ", "0">>, <<>> >>
    /\ UNCHANGED <<called, request, wrote, response, derived, failed>>

PlatformReads ==
    /\ given # <<>> /\ response = Nil
    /\ response' = ParseMessage(given)
    /\ UNCHANGED <<called, request, wrote, heard, given, derived, failed>>

\* The application acknowledges, cancels, ends or asks within the dialog.
DialogMethods == {"ACK", "BYE", "CANCEL", "INFO"}
Derive ==
    /\ response # Nil /\ ~failed /\ Len(derived) < MaxDerived
    /\ \E method \in DialogMethods :
        LET made == NewRequestFromResponse(method, response[1],
                                           <<"z" \o ToString(Len(derived) + 2)>>)
        IN IF DerivationPanics(response[1])
           THEN failed' = TRUE /\ UNCHANGED <<response, derived>>
           ELSE /\ response' = Some(made.response)
                /\ derived' = Append(derived, [method |-> method, request |-> made.request,
                                               text |-> <<>>, at |-> 0])
                /\ UNCHANGED failed
    /\ UNCHANGED <<called, request, wrote, heard, given>>

\* Server.Request of a derived request: its CSeq header is the response's.
SendDerived ==
    /\ \E i \in DOMAIN derived :
        LET shared == ReplaceFirst(derived[i].request.headers,
                                   FirstHeader(response[1].headers, "CSeq")[1])
            full == WithSentBy([derived[i].request EXCEPT !.headers = shared],
                               <<"platform">>, "5060", <<"z0">>)
        IN /\ derived[i].text = <<>>
           /\ derived' = [derived EXCEPT ![i].request = full, ![i].text = MessageLines(full),
                                         ![i].at = Len(derived)]
    /\ UNCHANGED <<called, request, wrote, heard, given, response, failed>>

OutNext == Ask \/ DeviceAnswers \/ PlatformReads \/ Derive \/ SendDerived

-----------------------------------------------------------------------------
(* Properties *)

\* What the application has is what the calls leave: no answer without a
\* request, no derived request without an answer.
OutTypeOK ==
    /\ heard # Nil => heard[1].type = "request"
    /\ response # Nil => response[1].type = "response" /\ response[1].status \in Statuses
    /\ Len(derived) <= MaxDerived
    /\ \A i \in DOMAIN derived : /\ derived[i].method \in DialogMethods
                                 /\ derived[i].at \in {0} \cup i..Len(derived)
    /\ failed \in BOOLEAN

\* The bytes of the command that a device finds in a body.
PTZBytes(body) ==
    LET text == XMLDecode(body, EmptyStruct).v.PTZCmd
    IN [i \in DOMAIN text |-> CHOOSE b \in 0..1023 : ToString(b) = text[i]]

\* The direction that GB/T 28181 gives the bits of the fourth byte.
DirectionOf(byte) ==
    CASE byte = 1 -> "right" [] byte = 2 -> "left" [] byte = 4 -> "down" [] byte = 8 -> "up"
      [] OTHER -> "stop"

\* Whatever the call, the service's address and the speed asked for, a device
\* reads the request as it was meant: its text written again is the text that
\* was written, it is addressed to the device, its body decodes to a command,
\* and a PTZ command is eight bytes with the direction, a speed no lower than
\* asked for within a byte, and the checksum of the seven before it.
BuiltIsRead ==
    wrote # <<>> /\ given # <<>> =>
        LET call == called[1].call
            v == XMLDecode(heard[1].body, EmptyStruct)
            bytes == PTZBytes(heard[1].body)
        IN /\ heard # Nil /\ MessageLines(heard[1]) = wrote
           /\ \A name \in {"Via", "CSeq", "From", "To", "Call-ID"} :
                Len(GetHeaders(heard[1].headers, name)) = 1
           /\ heard[1].recipient.user[1] \in {<<"device">>, <<"channel">>}
           /\ FirstHeader(heard[1].headers, "From")[1].val.uri.host # <<>>
           /\ Has(FirstHeader(heard[1].headers, "From")[1].val.params[1], <<"tag">>)
           /\ FirstHeader(heard[1].headers, "Content-Length")[1].val = Len(heard[1].body)
           /\ call.op # "Invite" => ~v.err /\ v.v.CmdType # <<>> /\ v.v.DeviceID # <<>>
           /\ call.op = "PTZ" =>
                /\ Len(bytes) = 8 /\ \A i \in 1..8 : bytes[i] \in 0..255
                /\ DirectionOf(bytes[4]) = call.action
                /\ \A i \in {5, 6} : call.speed \in 0..255 => bytes[i] = call.speed
                /\ \A i \in {5, 6} : call.speed > 255 => bytes[i] = 255
                /\ bytes[8] = FoldSeq(+, 0, Upto(bytes, 7)) % 256

\* The number that the i-th derived request is due (request.go:87-95): numbers
\* within a dialog increase by one with each request but ACK and CANCEL, which
\* have the number of the request that they acknowledge or cancel, the first.
Unnumbered == {"ACK", "CANCEL"}
OwnNumber(i) ==
    IF derived[i].method \in Unnumbered THEN 1
    ELSE 1 + Cardinality({k \in 1..i : derived[k].method \notin Unnumbered})

\* The line of a text with a header.
LineOf(text, name) == LET i == SelectInSeq(text, LAMBDA l : l # <<>> /\ l[1] = name)
                      IN IF i = 0 THEN <<>> ELSE text[i]

\* The number and the method in the CSeq line of a text.
NumberIn(text) == LineOf(text, "CSeq")[4]
MethodIn(text) == LineOf(text, "CSeq")[6]

\* "Requests within a dialog MUST contain strictly monotonically increasing and
\* contiguous CSeq sequence numbers (increasing-by-one) in each direction
\* (excepting ACK and CANCEL of course, whose numbers equal the requests being
\* acknowledged or cancelled)" (request.go:87-95): so do those that are sent.
DialogNumbers ==
    \A i \in DOMAIN derived :
        derived[i].text # <<>> => NumberIn(derived[i].text) = ToString(OwnNumber(i))

\* A derived request that is sent carries the dialog of the answer (Call-ID,
\* both tags, the routes, the device's Contact as its target) and a branch of
\* its own, whenever it is sent and whatever was derived or sent besides.  Of
\* DialogNumbers there holds as much as the CSeq that they all share allows: if
\* it is sent before the next one is derived it has its own method, and its own
\* number too unless it is an ACK or CANCEL and a request that takes a number was
\* derived before it.  Only an answer without a Contact lets no request be
\* derived: its address is taken from nil (request.go:52), and the process panics.
DialogKept ==
    /\ failed => LineOf(given, "Contact") = <<>>
    /\ \A i \in DOMAIN derived :
        LET text == derived[i].text
        IN text # <<>> =>
            /\ \A name \in {"Call-ID", "From", "To"} : LineOf(text, name) = LineOf(given, name)
            /\ After(LineOf(text, "Route"), 1) = After(LineOf(given, "Record-Route"), 1)
            /\ text[1] = <<derived[i].method, " ", "sip", ":", "device", "@", "peer", " ", Version>>
            /\ \A k \in DOMAIN derived :
                k # i => LineOf(derived[k].text, "Via") # LineOf(text, "Via")
            /\ LineOf(text, "Via") # LineOf(wrote, "Via")
            /\ derived[i].at = i =>
                /\ MethodIn(text) = derived[i].method
                /\ \/ NumberIn(text) = ToString(OwnNumber(i))
                   \/ /\ derived[i].method \in Unnumbered
                      /\ \E k \in 1..i : derived[k].method \notin Unnumbered

\* Every message that the platform or the device holds.
Held ==
    {request[i] : i \in DOMAIN request} \cup {heard[i] : i \in DOMAIN heard}
    \cup {response[i] : i \in DOMAIN response} \cup {derived[i].request : i \in DOMAIN derived}

\* The clone of a message has the text of the message, and the clone of each of
\* its headers equals it, both ways, but for two types whose Equals asks for a
\* value: Allow, of which Build stores a pointer, and X-GB-Ver.  Clone panics
\* on a message with a Route or a Record-Route, and on no other.
CloneIsEqual ==
    \A msg \in Held :
        /\ ClonePanicsOn(msg) <=> \E name \in RouteKinds : GetHeaders(msg.headers, name) # <<>>
        /\ ~ClonePanicsOn(msg) =>
            /\ MessageLines(CloneMessage(msg)) = MessageLines(msg)
            /\ \A i \in DOMAIN AllHeaders(msg.headers) :
                LET h == AllHeaders(msg.headers)[i]
                IN IF h.kind = "X-GB-Ver" THEN ~EqualHeader(h, CloneHeader(h))
                   ELSE /\ EqualHeader(h, CloneHeader(h))
                        /\ EqualHeader(CloneHeader(h), h) \/ (h.kind = "Allow" /\ h.ptr)
================================================================================
