--------------------------------- MODULE Uris ---------------------------------
(***************************************************************************)
(* SIP URIs and the addresses of headers (sip/message.go, models.go,       *)
(* parser.go): text, parsing, cloning and equality.                        *)
(***************************************************************************)
EXTENDS Params, TLC

CONSTANTS
    LongWords,      \* the words of at least 16 characters: 20-digit identifiers
    PortWords       \* the words that ParseUint takes for a 16-bit number

-----------------------------------------------------------------------------
(* URI *)

\* The URI that the code makes for user@host; user, password and port may be nil.
NewURI(user, host, port) ==
    [encrypted |-> FALSE, user |-> user, password |-> Nil, host |-> host, port |-> port,
     params |-> Some(<<>>), headers |-> Some(<<>>)]

Shown(text) == text # Nil /\ text[1] # <<>>

UriText(uri) ==
    <<IF uri.encrypted THEN "sips" ELSE "sip", ":">>
    \o (IF ~Shown(uri.user) THEN <<>>
        ELSE uri.user[1] \o (IF Shown(uri.password) THEN <<":">> \o uri.password[1] ELSE <<>>)
             \o <<"@">>)
    \o uri.host
    \o (IF uri.port = Nil THEN <<>> ELSE <<":", uri.port[1]>>)
    \o TailText(uri.params, ";", ";")
    \o TailText(uri.headers, "?", "&")

\* Clone makes nil parameters empty ones (cloneWithNil).
CloneOrEmpty(params) == Some(IF params = Nil THEN <<>> ELSE CloneParams(params[1]))
CloneURI(uri) == [uri EXCEPT !.params = CloneOrEmpty(@), !.headers = CloneOrEmpty(@)]

\* Equals: nil parameters on the left equal any.
EqualParts(params, other) ==
    params = Nil \/ (other # Nil /\ SameParams(params[1], other[1]))
EqualURI(uri, other) ==
    /\ uri.encrypted = other.encrypted
    /\ uri.user = other.user
    /\ uri.password = other.password
    /\ uri.host = other.host
    /\ uri.port = other.port
    /\ EqualParts(uri.params, other.params)
    /\ EqualParts(uri.headers, other.headers)

-----------------------------------------------------------------------------
(* ParseURI and ParseSipURI *)

ParseHostPort(text) ==
    LET colon == FirstOf(text, {":"})
        port == After(text, colon)
    IN IF colon = 0 THEN [host |-> text, port |-> Nil, err |-> FALSE]
       ELSE [host |-> Upto(text, colon - 1),
             port |-> port,
             err |-> Len(port) # 1 \/ port[1] \notin PortWords]

\* The part before an '@'.
ParseUserInfo(text) ==
    LET colon == FirstOf(text, {":"})
    IN IF colon = 0 THEN [user |-> Some(text), password |-> Nil]
       ELSE [user |-> Some(Upto(text, colon - 1)), password |-> Some(After(text, colon))]

BadURI == [err |-> TRUE, uri |-> NewURI(Nil, <<>>, Nil)]

\* The URI of these parts, unless one is an error or more follows the headers.
URIOf(encrypted, userInfo, hostPort, tail, params, headers) ==
    IF hostPort.err \/ params.err \/ headers.err \/ headers.used # Len(tail) - params.used
    THEN BadURI
    ELSE [err |-> FALSE,
          uri |-> [encrypted |-> encrypted, user |-> userInfo.user,
                   password |-> userInfo.password, host |-> hostPort.host,
                   port |-> hostPort.port, params |-> Some(params.params),
                   headers |-> Some(headers.params)]]

\* After the user: the host and, from the first ';' or else the first '?', the
\* parameters and the headers.
ParseHeadersOfURI(encrypted, userInfo, cut, params) ==
    URIOf(encrypted, userInfo, ParseHostPort(cut.head), cut.tail, params,
          ParseParams(After(cut.tail, params.used), "?", "&", "", TRUE, FALSE))
ParseAfterUser(encrypted, userInfo, cut) ==
    ParseHeadersOfURI(encrypted, userInfo, cut,
                      IF cut.tail # <<>> /\ cut.tail[1] = "?"
                      THEN [params |-> <<>>, used |-> 0, err |-> FALSE]
                      ELSE ParseParams(cut.tail, ";", ";", "?", TRUE, TRUE))
Mark(rest) == IF FirstOf(rest, {";"}) # 0 THEN FirstOf(rest, {";"}) ELSE FirstOf(rest, {"?"})

ParseSipURI(text) ==
    LET at == FirstOf(text, {"@"})
        rest == After(text, IF at = 0 THEN 2 ELSE at)
    IN IF Len(text) < 2 \/ text[1] \notin {"sip", "sips"} \/ text[2] # ":" THEN BadURI
       ELSE ParseAfterUser(text[1] = "sips",
                           IF at = 0 THEN [user |-> Nil, password |-> Nil]
                           ELSE ParseUserInfo(SubSeq(text, 3, at - 1)),
                           CutAt(rest, Mark(rest)))

\* Only the sip and sips schemes; the wildcard '*' is an error.
ParseURI(text) ==
    IF Trim(text) = <<"*">> \/ FirstOf(text, {":"}) # 2 \/ text[1] \notin {"sip", "sips"}
    THEN BadURI
    ELSE ParseSipURI(text)

-----------------------------------------------------------------------------
(* Addresses of To, From, Contact and the route headers *)

\* A display name is written between quotes unless it is nil or empty.
AddressText(addr) ==
    (IF Shown(addr.name) THEN <<"\"">> \o addr.name[1] \o <<"\"", " ">> ELSE <<>>)
    \o <<"<">> \o UriText(addr.uri) \o <<">">> \o TailText(addr.params, ";", ";")

CloneMaybe(params) == IF params = Nil THEN Nil ELSE Some(CloneParams(params[1]))

\* A mutant: the parameters are lost.
CloneAddressWrong(addr) == [name |-> addr.name, uri |-> CloneURI(addr.uri), params |-> Nil]

CloneAddress(addr) ==
    [name |-> addr.name, uri |-> CloneURI(addr.uri), params |-> CloneMaybe(addr.params)]

EqualMaybe(params, other) ==
    \/ params = Nil /\ other = Nil
    \/ params # Nil /\ other # Nil /\ SameParams(params[1], other[1])
EqualAddress(addr, other) ==
    /\ addr.name = other.name
    /\ EqualURI(addr.uri, other.uri)
    /\ EqualMaybe(addr.params, other.params)

BadAddress == [err |-> TRUE,
               addr |-> [name |-> Nil, uri |-> BadURI.uri, params |-> Nil]]

AddressOf(name, uri, params) ==
    IF uri.err \/ params.err THEN BadAddress
    ELSE [err |-> FALSE,
          addr |-> [name |-> Some(name), uri |-> uri.uri, params |-> Some(params.params)]]

\* The display name, quoted or not, and what follows it.
DisplayName(text) ==
    LET angle == FindUnescaped(text, "<")
        close == FirstOf(After(text, 1), {"\""})
    IN IF angle > 1 /\ text[1] = "\""
       THEN [err |-> close = 0, name |-> SubSeq(text, 2, close),
             rest |-> Trim(After(text, close + 1))]
       ELSE [err |-> FALSE, name |-> Trim(CutAt(text, angle).head),
             rest |-> CutAt(text, angle).tail]

\* The name is never nil: an address without '<' is refused.  Not modelled: where
\* the code indexes beyond the text it has left (blanks alone, parser.go:501; no
\* '>', 533) it panics, and here it is an error.  No property is about such texts,
\* and none is among those that are sent.
Bracketed(name, rest) ==
    LET end == FirstOf(rest, {">"})
    IN IF FirstOf(rest, {"<"}) # 1 \/ end = 2 THEN BadAddress
       ELSE AddressOf(name, ParseURI(SubSeq(rest, 2, end - 1)),
                      ParseParams(After(rest, end), ";", ";", ",", TRUE, TRUE))
ParseAddressValue(text) ==
    LET named == DisplayName(Trim(text))
    IN IF text = <<>> \/ named.err THEN BadAddress ELSE Bracketed(named.name, named.rest)

\* The comma that ends a section is outside quotes and brackets.
AddressSections(text) ==
    LET step(s, t) ==
            CASE t = "<" /\ ~s.quotes -> [s EXCEPT !.brackets = TRUE, !.section = Append(@, t)]
              [] t = ">" /\ ~s.quotes -> [s EXCEPT !.brackets = FALSE, !.section = Append(@, t)]
              [] t = "\"" -> [s EXCEPT !.quotes = ~@, !.section = Append(@, t)]
              [] t = "," /\ ~s.quotes /\ ~s.brackets ->
                    [s EXCEPT !.done = Append(@, s.section), !.section = <<>>]
              [] OTHER -> [s EXCEPT !.section = Append(@, t)]
    IN Scan(step, [brackets |-> FALSE, quotes |-> FALSE, section |-> <<>>, done |-> <<>>],
                Append(text, ",")).done

\* The first address that does not parse ends the list.  It is no error when
\* the text has one '@' and fewer than 20 characters before it.
Forgiven(text) ==
    LET parts == Split(text, "@")
    IN Len(parts) = 2 /\ \A i \in DOMAIN parts[1] : parts[1][i] \notin LongWords
AddressesOf(values, forgiven) ==
    LET bad == SelectInSeq(values, LAMBDA v : v.err)
        good == IF bad = 0 THEN values ELSE Upto(values, bad - 1)
    IN [err |-> bad # 0 /\ ~forgiven, addrs |-> [i \in DOMAIN good |-> good[i].addr]]
ParseAddressValues(text) ==
    AddressesOf(Each(ParseAddressValue, AddressSections(text)), Forgiven(text))
================================================================================
