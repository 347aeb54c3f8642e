-------------------------------- MODULE Headers --------------------------------
(***************************************************************************)
(* The headers of a SIP message (sip/header.go) and their parsers          *)
(* (sip/parser.go).                                                        *)
(*                                                                         *)
(* A header is a record [kind, ptr, val]: kind stands for its Go type and  *)
(* is its name, ptr says whether the interface holds a pointer, and val    *)
(* depends on the kind.  The headers of a message are the groups           *)
(* [name, list] in the order of headerOrder.  Names are tokens: they are   *)
(* compared as the code compares them, in lower case.                      *)
(***************************************************************************)
EXTENDS Uris

CONSTANT Numbers    \* the numbers that occur in headers

AddressKinds == {"To", "From", "Contact"}
NumberKinds == {"Content-Length", "Max-Forwards", "Expires"}
TextKinds == {"Call-ID", "User-Agent", "Content-Type", "Accept"}
RouteKinds == {"Route", "Record-Route"}

Header(kind, val) == [kind |-> kind, ptr |-> kind \notin {"Via", "Allow"}, val |-> val]
Generic(name, text) == Header("Generic", [name |-> name, text |-> text])
NameOf(h) == IF h.kind = "Generic" THEN h.val.name ELSE h.kind

-----------------------------------------------------------------------------
(* String *)

HopText(hop) ==
    <<hop.protocol, "/", hop.version, "/", hop.transport, " ">> \o hop.host
    \o (IF hop.port = Nil THEN <<>> ELSE <<":", hop.port[1]>>)
    \o TailText(hop.params, ";", ";")

ValueText(h) ==
    CASE h.kind \in AddressKinds -> AddressText(h.val)
      [] h.kind = "Via" -> Join(Each(HopText, h.val), <<",", " ">>)
      [] h.kind = "CSeq" -> <<ToString(h.val.seq), " ", h.val.method>>
      [] h.kind \in NumberKinds -> <<ToString(h.val)>>
      [] h.kind \in TextKinds \cup {"X-GB-Ver"} -> h.val
      [] h.kind \in {"Allow", "Supported"} -> Join(h.val, <<",", " ">>)
      [] h.kind \in RouteKinds ->
            Join(Each(LAMBDA uri : <<"<">> \o UriText(uri) \o <<">">>, h.val), <<",", " ">>)
      [] OTHER -> h.val.text

HeaderText(h) == <<NameOf(h), ":", " ">> \o ValueText(h)

-----------------------------------------------------------------------------
(* Clone and Equals *)

CloneHop(hop) == [hop EXCEPT !.params = CloneMaybe(@)]

\* The Clone of a Route or Record-Route stores into an empty slice.
ClonePanics(h) == h.kind \in RouteKinds /\ h.val # <<>>

\* The numbers and texts give the same pointer, the other kinds a copy.
CloneHeader(h) ==
    CASE h.kind \in AddressKinds -> Header(h.kind, CloneAddress(h.val))
      [] h.kind = "Via" -> Header("Via", Each(CloneHop, h.val))
      [] h.kind \in {"Allow", "Supported", "X-GB-Ver", "CSeq", "Generic"} ->
            Header(h.kind, h.val)
      [] OTHER -> h

EqualHop(hop, other) ==
    /\ hop.protocol = other.protocol
    /\ hop.version = other.version
    /\ hop.transport = other.transport
    /\ hop.host = other.host
    /\ hop.port = other.port
    /\ EqualMaybe(hop.params, other.params)

\* h.Equals(o): the Equals of h's type asks for the type of o.  X-GB-Ver asks
\* for a value, which no header of a message is; the route headers compare the
\* addresses that h has.
EqualHeader(h, o) ==
    /\ h.kind = o.kind
    /\ CASE h.kind \in AddressKinds -> EqualAddress(h.val, o.val)
         [] h.kind = "Via" ->
                /\ Len(h.val) = Len(o.val)
                /\ \A i \in DOMAIN h.val : EqualHop(h.val[i], o.val[i])
         [] h.kind = "Allow" -> ~o.ptr /\ h.val = o.val
         [] h.kind = "X-GB-Ver" -> ~o.ptr /\ h.val = o.val
         [] h.kind \in RouteKinds ->
                \A i \in DOMAIN h.val : EqualURI(h.val[i], o.val[i])
         [] OTHER -> h.val = o.val

-----------------------------------------------------------------------------
(* ParseHeader *)

\* The result of a header parser: err, or a sequence of headers.
Parsed(headers) == [err |-> FALSE, headers |-> headers]
ParseError == [err |-> TRUE, headers |-> <<>>]

\* Only Contact may have several addresses.
ParseAddressHeader(kind, values) ==
    IF values.err \/ (kind # "Contact" /\ Len(values.addrs) > 1) THEN ParseError
    ELSE Parsed(Each(LAMBDA addr : Header(kind, addr), values.addrs))

\* A route header takes the URIs of the addresses.
ParseRoute(kind, values) ==
    IF values.err THEN ParseError
    ELSE Parsed(<<Header(kind, Each(LAMBDA addr : addr.uri, values.addrs))>>)

\* strconv.ParseUint; the word of no number of the model is no number.
IsNumber(text) == Len(text) = 1 /\ \E n \in Numbers : ToString(n) = text[1]
NumberOf(text) == CHOOSE n \in Numbers : ToString(n) = text[1]

ParseCSeq(text) ==
    LET parts == SplitByWhitespace(text)
    IN IF Len(parts) # 2 \/ ~IsNumber(parts[1]) \/ Len(parts[2]) # 1 THEN ParseError
       ELSE Parsed(<<Header("CSeq", [seq |-> NumberOf(parts[1]), method |-> parts[2][1]])>>)

ParseNumber(kind, text) ==
    IF IsNumber(Trim(text)) THEN Parsed(<<Header(kind, NumberOf(Trim(text)))>>) ELSE ParseError

ParseCallID(text) ==
    IF Trim(text) = <<>> \/ FirstOf(Trim(text), Blank \cup {";"}) # 0 THEN ParseError
    ELSE Parsed(<<Header("Call-ID", Trim(text))>>)

\* Allow and Supported: an empty text is a list of one empty element.
ParseList(kind, text) ==
    Parsed(<<Header(kind, Each(Trim, Split(text, ",")))>>)

\* One hop: protocol / version / transport, a blank, host[:port] and parameters.
\* fatal ends the parse, err is that of the parameters.
FatalHop == [fatal |-> TRUE, err |-> TRUE, hop |-> Nil]
HopOf(protocol, hostPort, params) ==
    LET word(i) == IF Len(Trim(protocol[i])) = 1 THEN Trim(protocol[i])[1] ELSE ""
    IN IF hostPort.err THEN FatalHop
       ELSE [fatal |-> \E i \in 1..3 : word(i) = "", err |-> params.err,
             hop |-> Some([protocol |-> word(1), version |-> word(2), transport |-> word(3),
                           host |-> hostPort.host, port |-> hostPort.port,
                           params |-> Some(params.params)])]
SentBy(protocol, cut) ==
    HopOf(protocol, ParseHostPort(cut.head),
          ParseParams(cut.tail, ";", ";", "", TRUE, TRUE))
ParseHop(section) ==
    LET parts == Split(section, "/")
        third == IF Len(parts) < 3 THEN <<>> ELSE Join(After(parts, 2), <<"/">>)
        ink == {i \in DOMAIN third : third[i] \notin Blank}
        lead == IF ink = {} THEN Len(third) ELSE Min(ink) - 1
        blank == FirstOf(After(third, lead), Blank) + lead
        body == After(third, blank)
    IN IF Len(parts) < 3 \/ blank < 2 THEN FatalHop
       ELSE SentBy(<<parts[1], parts[2], Upto(third, blank - 1)>>,
                   CutAt(body, FirstOf(body, {";"})))

\* The error of a hop's parameters is lost when another hop follows.
ViaOf(hops) ==
    IF (\E i \in DOMAIN hops : hops[i].fatal) \/ Last(hops).err THEN ParseError
    ELSE Parsed(<<Header("Via", Each(LAMBDA h : h.hop[1], hops))>>)
ParseVia(text) == ViaOf(Each(ParseHop, Split(text, ",")))

\* The compact forms of the names.
FullName(name) ==
    CASE name = "t" -> "To" [] name = "f" -> "From" [] name = "m" -> "Contact"
      [] name = "v" -> "Via" [] name = "l" -> "Content-Length" [] name = "c" -> "Content-Type"
      [] OTHER -> name

ParseValue(kind, text) ==
    CASE kind \in AddressKinds -> ParseAddressHeader(kind, ParseAddressValues(text))
      [] kind \in RouteKinds -> ParseRoute(kind, ParseAddressValues(text))
      [] kind \in NumberKinds -> ParseNumber(kind, text)
      [] kind \in TextKinds \ {"Call-ID"} -> Parsed(<<Header(kind, Trim(text))>>)
      [] kind = "Call-ID" -> ParseCallID(text)
      [] kind = "CSeq" -> ParseCSeq(text)
      [] kind = "Via" -> ParseVia(text)
      [] kind \in {"Allow", "Supported"} -> ParseList(kind, text)
      [] OTHER -> Parsed(<<Generic(kind, text)>>)

ParseHeader(line) ==
    LET colon == FirstOf(line, {":"})
    IN IF colon < 2 THEN ParseError
       ELSE ParseValue(FullName(line[1]), Trim(After(line, colon)))

-----------------------------------------------------------------------------
(* The headers of a message *)

GroupAt(headers, name) == SelectInSeq(headers, LAMBDA g : g.name = name)

GetHeaders(headers, name) ==
    IF GroupAt(headers, name) = 0 THEN <<>> ELSE headers[GroupAt(headers, name)].list

AppendHeader(headers, h) ==
    IF GroupAt(headers, NameOf(h)) = 0
    THEN Append(headers, [name |-> NameOf(h), list |-> <<h>>])
    ELSE [headers EXCEPT ![GroupAt(headers, NameOf(h))].list = Append(@, h)]

AppendAll(headers, hdrs) == Scan(AppendHeader, headers, hdrs)

\* The first header of a name, as Via, CallID, CSeq, From, To, Contact,
\* ContentLength and ContentType give it: Nil when it is missing or when the
\* header of that name has another type.
FirstHeader(headers, name) ==
    LET list == GetHeaders(headers, name)
    IN IF list = <<>> \/ list[1].kind # name THEN Nil ELSE Some(list[1])

\* Every header, group by group.
AllHeaders(headers) == Flat(Each(LAMBDA g : g.list, headers))

HeaderLines(headers) == Each(HeaderText, AllHeaders(headers))

\* CopyHeaders, once no Clone panics.
CopyHeaders(name, from, to) ==
    AppendAll(to, Each(CloneHeader, GetHeaders(from, name)))
CopyPanics(name, from) ==
    \E i \in DOMAIN GetHeaders(from, name) : ClonePanics(GetHeaders(from, name)[i])

ReplaceFirst(headers, h) ==
    [headers EXCEPT ![GroupAt(headers, NameOf(h))].list[1] = h]
================================================================================
