-------------------------------- MODULE Messages --------------------------------
(***************************************************************************)
(* SIP messages (sip/message.go, request.go, response.go): their text, the *)
(* parser's goroutine on one packet (sip/parser.go), the requests that the *)
(* platform builds (sip/header.go, service.go, sip/context.go) and what is *)
(* derived from a message: the answer to a request, the request within the *)
(* dialog of a response, a clone.                                          *)
(*                                                                         *)
(* A packet is a sequence of lines; the empty line ends the headers and    *)
(* what follows is the body, one line for each unit of Content-Length.     *)
(***************************************************************************)
EXTENDS Headers

Version == "SIP/2.0"

\* SetBody, the body of a message and its length.
SetBody(msg, body) ==
    LET length == Header("Content-Length", Len(body))
    IN [msg EXCEPT !.body = body,
                   !.headers = IF GetHeaders(@, "Content-Length") = <<>>
                               THEN AppendHeader(@, length) ELSE ReplaceFirst(@, length)]

NewMessage(bare, body) == IF body = <<>> THEN bare ELSE SetBody(bare, body)

NewRequest(method, recipient, hdrs, body) ==
    NewMessage([type |-> "request", method |-> method, recipient |-> recipient,
                version |-> Version, headers |-> AppendAll(<<>>, hdrs), body |-> <<>>], body)
NewResponse(status, reason, hdrs, body) ==
    NewMessage([type |-> "response", status |-> status, reason |-> reason,
                version |-> Version, headers |-> AppendAll(<<>>, hdrs), body |-> <<>>], body)

-----------------------------------------------------------------------------
(* Text *)

StartLine(msg) ==
    IF msg.type = "request"
    THEN <<msg.method, " ">> \o UriText(msg.recipient) \o <<" ", msg.version>>
    ELSE <<msg.version, " ", ToString(msg.status), " ">> \o msg.reason

MessageLines(msg) == <<StartLine(msg)>> \o HeaderLines(msg.headers) \o << <<>> >> \o msg.body

-----------------------------------------------------------------------------
(* The parser *)

Statuses == {200, 401, 403, 405, 500}

StartsWithSIP(text) == text # <<>> /\ text[1] = Version
IsRequest(line) ==
    LET parts == Split(line, " ") IN Len(parts) = 3 /\ StartsWithSIP(parts[3])
IsResponse(line) ==
    LET parts == Split(line, " ") IN Len(parts) >= 3 /\ StartsWithSIP(parts[1])

\* The bare message of a start line, or nothing: the packet is dropped.
RequestTo(method, uri) == IF uri.err THEN Nil ELSE Some(NewRequest(method, uri.uri, <<>>, <<>>))
ParseStartLine(line) ==
    LET parts == Split(line, " ")
    IN IF IsRequest(line) THEN RequestTo(parts[1][1], ParseURI(parts[2]))
       ELSE IF IsResponse(line) /\ \E s \in Statuses : parts[2] = <<ToString(s)>>
       THEN Some(NewResponse(CHOOSE s \in Statuses : parts[2] = <<ToString(s)>>,
                             Join(After(parts, 2), <<" ">>), <<>>, <<>>))
       ELSE Nil

\* The header lines, folded lines joined.  Without the empty line that ends
\* the headers the last of them stays in the buffer.
HeaderTexts(lines) ==
    LET end == SelectInSeq(lines, LAMBDA l : l = <<>>)
        read == IF end = 0 THEN lines ELSE Upto(lines, end - 1)
        fold(texts, line) ==
            IF line[1] \notin Blank THEN Append(texts, line)
            ELSE IF texts = <<>> THEN texts
            ELSE [texts EXCEPT ![Len(texts)] = @ \o <<" ">> \o line]
        all == Scan(fold, <<>>, read)
    IN IF end = 0 /\ all # <<>> THEN Front(all) ELSE all

\* A header that does not parse is left out.  The body is what follows the
\* headers, whatever Content-Length says, but a message that announces a body
\* and has none is dropped.
Complete(msg) ==
    LET length == FirstHeader(msg.headers, "Content-Length")
    IN IF msg.body = <<>> /\ length # Nil /\ length[1].val > 0 THEN Nil ELSE Some(msg)
ReadHeaders(bare, lines) ==
    LET end == SelectInSeq(lines, LAMBDA l : l = <<>>)
        hdrs == Flat(Each(LAMBDA text : ParseHeader(text).headers, HeaderTexts(lines)))
    IN IF bare = Nil THEN Nil
       ELSE Complete([bare[1] EXCEPT !.headers = AppendAll(<<>>, hdrs),
                                     !.body = IF end = 0 THEN <<>> ELSE After(lines, end)])
ParseMessage(packet) == ReadHeaders(ParseStartLine(packet[1]), After(packet, 1))

-----------------------------------------------------------------------------
(* Building a request *)

Address(name, uri) == [name |-> name, uri |-> uri, params |-> Some(<<>>)]

\* The clone of an address that the builder stores; an empty host becomes
\* localhost.
HostedClone(addr) ==
    LET dup == CloneAddress(addr)
    IN [dup EXCEPT !.uri.host = IF @ = <<>> THEN <<"localhost">> ELSE @]

FromHeader(addr, tag) ==
    LET dup == HostedClone(addr)
    IN Header("From", [dup EXCEPT !.params[1] = IF Has(@, <<"tag">>) THEN @
                                                ELSE Add(@, <<"tag">>, Some(tag))])
\* SetTo leaves the parameters out.
ToHeader(addr) == Header("To", [HostedClone(addr) EXCEPT !.params = Nil])
ContactHeader(addr) == Header("Contact", HostedClone(addr))

NewHop(branch) ==
    [protocol |-> "SIP", version |-> "2.0", transport |-> "UDP", host |-> <<"localhost">>,
     port |-> Nil, params |-> Some(Add(<<>>, <<"branch">>, Some(branch)))]

AllowedMethods == << <<"INVITE">>, <<"ACK">>, <<"CANCEL">>, <<"MESSAGE">>, <<"REGISTER">> >>

\* What Build gives for a builder with these parts; contact is a maybe.
BuildHeaders(method, to, from, contact, contentType, branch, callID, tag) ==
    <<Header("Supported", <<>>),
      [Header("Allow", AllowedMethods) EXCEPT !.ptr = TRUE],
      Header("Via", <<NewHop(branch)>>),
      Header("CSeq", [seq |-> 1, method |-> method]),
      FromHeader(from, tag),
      ToHeader(to),
      Header("Call-ID", callID)>>
    \o [i \in DOMAIN contact |-> ContactHeader(contact[i])]
    \o <<Header("Max-Forwards", 70), Header("User-Agent", <<"GoWVP">>),
         Header("Content-Type", contentType), Header("X-GB-Ver", <<"3.0">>)>>

\* Server.Request: the first hop tells where the platform is.
WithSentBy(req, host, port, branch) ==
    LET via == FirstHeader(req.headers, "Via")[1]
        params == IF via.val[1].params # Nil THEN via.val[1].params[1]
                  ELSE Add(<<>>, <<"branch">>, Some(branch))
        rport == IF Has(params, <<"rport">>) THEN params ELSE Add(params, <<"rport">>, Nil)
        sentBy == [via.val[1] EXCEPT !.host = host, !.port = Some(port), !.params = Some(rport)]
    IN [req EXCEPT !.headers = ReplaceFirst(@, [via EXCEPT !.val[1] = sentBy])]

-----------------------------------------------------------------------------
(* What is derived from a message *)

RECORDROUTE == "Record-Route"

\* NewResponseFromRequest.  The tag goes to the To header of the request, which
\* the response shares: request is the request afterwards.
ResponsePanics(req) == CopyPanics(RECORDROUTE, req.headers)
NewResponseFromRequest(req, status, reason, tag) ==
    LET to == FirstHeader(req.headers, "To")
        tagged == IF to = Nil \/ Has(to[1].val.params[1], <<"tag">>) THEN to
                  ELSE [to EXCEPT ![1].val.params[1] = Add(@, <<"tag">>, Some(tag))]
        copied == CopyHeaders("From", req.headers, CopyHeaders("Via", req.headers,
                    CopyHeaders(RECORDROUTE, req.headers, <<>>)))
        mirrored == CopyHeaders("Call-ID", req.headers, CopyHeaders("CSeq", req.headers,
                        AppendAll(copied, tagged)))
        bare == [NewResponse(status, reason, <<>>, <<>>) EXCEPT !.headers = mirrored]
        full == SetBody(bare, <<>>)
    IN [request |-> IF to = Nil THEN req
                    ELSE [req EXCEPT !.headers = ReplaceFirst(@, tagged[1])],
        response |-> [full EXCEPT !.headers =
                        AppendHeader(@, Generic("User-Agent", <<"GoWVP/1.0">>))]]

\* The number of a request within a dialog.
NextSeqWrong(method, seq) == seq + 1
NextSeq(method, seq) == IF method \in {"ACK", "CANCEL"} THEN seq ELSE seq + 1

\* NewRequestFromResponse.  The CSeq that is changed is the response's: response
\* is the response afterwards.
DerivationPanics(resp) ==
    \/ FirstHeader(resp.headers, "Contact") = Nil
    \/ FirstHeader(resp.headers, "Via") = Nil
    \/ FirstHeader(resp.headers, "CSeq") = Nil
    \/ CopyPanics("Route", resp.headers)
NewRequestFromResponse(method, resp, branch) ==
    LET recipient == FirstHeader(resp.headers, "Contact")[1].val.uri
        vias == CopyHeaders("Via", resp.headers, <<>>)
        via == FirstHeader(vias, "Via")[1]
        branched == ReplaceFirst(vias, [via EXCEPT !.val[1].params[1] =
                                            Add(@, <<"branch">>, Some(branch))])
        recorded == GetHeaders(resp.headers, RECORDROUTE)
        route(h) == Header("Route", Each(CloneURI, h.val))
        routed == IF GetHeaders(resp.headers, "Route") # <<>>
                  THEN CopyHeaders("Route", resp.headers, branched)
                  ELSE AppendAll(branched, Each(route, recorded))
        dialog == CopyHeaders("Call-ID", resp.headers, CopyHeaders("To", resp.headers,
                    CopyHeaders("From", resp.headers, routed)))
        old == FirstHeader(resp.headers, "CSeq")[1]
        cseq == Header("CSeq", [method |-> method,
                    seq |-> NextSeq(method, old.val.seq)])
    IN [response |-> [resp EXCEPT !.headers = ReplaceFirst(@, cseq)],
        request |-> [NewRequest(method, recipient, <<>>, <<>>) EXCEPT
                        !.headers = AppendHeader(dialog, cseq)]]

\* Clone of a request or a response.
ClonePanicsOn(msg) == \E i \in DOMAIN AllHeaders(msg.headers) :
                            ClonePanics(AllHeaders(msg.headers)[i])
CloneMessage(msg) ==
    LET dup == Each(CloneHeader, AllHeaders(msg.headers))
    IN IF msg.type = "request"
       THEN NewRequest(msg.method, CloneURI(msg.recipient), dup, msg.body)
       ELSE NewResponse(msg.status, msg.reason, dup, msg.body)
================================================================================
