------------------------------ MODULE MCSignalling ------------------------------
(***************************************************************************)
(* The requests that the device chooses from, for each program, and the    *)
(* calls of the application.                                               *)
(***************************************************************************)
EXTENDS Signalling

MCNumbers == 0..9 \cup {70, 3600}

Plain == [user |-> "device", method |-> "MESSAGE", cmd |-> "", expires |-> "", auth |-> "none",
          length |-> "full", charset |-> "GB2312", items |-> <<>>, routed |-> FALSE]
Reg(expires, auth) == [Plain EXCEPT !.method = "REGISTER", !.expires = expires, !.auth = auth]
Keepalive == [Plain EXCEPT !.cmd = "Keepalive"]
Cat(charset) ==
    [Plain EXCEPT !.cmd = "Catalog", !.charset = charset,
                  !.items = << <<"Item", "ascii", "gate">>, <<"Item", "gbk", "yard">> >>]

Tab(form) == [form EXCEPT !.length = "tab"]
Compact(form) == [form EXCEPT !.length = "compact"]

\* Two requests of every kind, and a third after some of them: over TCP, a
\* Keepalive after two of which the framing may misread one.
MCFirst ==
    [p \in Programs |->
        CASE p = "plain" ->
                {Reg("3600", "none"), Tab(Reg("3600", "none")), Keepalive, Compact(Keepalive),
                 Tab(Keepalive), [Plain EXCEPT !.length = "none"],
                 [Plain EXCEPT !.cmd = "Unheard"], Cat("GB2312"), Cat(""), Cat("UTF-8"),
                 Cat("none"), [Keepalive EXCEPT !.routed = TRUE],
                 [Plain EXCEPT !.cmd = "Catalog", !.items = << <<"SumNum", "ascii", "many">> >>]}
          [] p = "hooks" -> {Reg("3600", "none"), Reg("3600", "right"), Reg("0", "right"),
                             Reg("0", "wrong")}
          [] p = "example" -> {Reg("3600", "none"), Reg("3600", "right"), Keepalive}
          [] OTHER -> {Reg("3600", "none"), Reg("3600", "right"), Reg("0", "right"),
                       Reg("0", "wrong"), Keepalive,
                       [Reg("3600", "right") EXCEPT !.user = "cam"]}]
Registering == <<Reg("3600", "right"), Reg("0", "right")>>
MCNextForms(p, forms) ==
    IF Len(forms) < 2 THEN MCFirst[p]
    ELSE CASE p = "plain" /\ forms[2].length \in {"tab", "compact"} -> {Keepalive}
           [] p = "hooks" /\ forms = Registering -> {forms[1]}
           [] OTHER -> {}

\* Whatever the program, and the forms that come third.
MCForms == UNION {MCFirst[p] : p \in Programs}

Call(op, action, speed, domain) ==
    [op |-> op, action |-> action, speed |-> speed, domain |-> domain]
MCCalls ==
    {Call(op, "", 0, <<"domain">>) : op \in {"Catalog", "DeviceInfo", "RecordInfo",
        "ConfigDownload", "DeviceConfig", "SnapShot", "Invite", "Context"}}
    \cup {Call("PTZ", c[1], c[2], <<"domain">>) :
            c \in {<<"up", -1>>, <<"left", 128>>, <<"down", 255>>, <<"right", 256>>,
                   <<"stop", 0>>, <<"zoom", 1>>}}
    \cup {Call("Catalog", "", 0, domain) :
            domain \in {<<>>, <<"domain", ":", "15060">>, <<"domain", ":", "gate">>}}

MCPlatforms ==
    {Address(Nil, PlatformUri),
     Address(Some(<<"gateway", " ", "one">>), NewURI(Some(<<"platform">>), <<>>, Nil)),
     [Address(Some(<<>>), PlatformUri) EXCEPT !.params = Some(Add(<<>>, <<"tag">>, Some(<<"own">>)))]}
================================================================================
