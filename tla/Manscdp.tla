-------------------------------- MODULE Manscdp --------------------------------
(***************************************************************************)
(* The bodies of MESSAGE requests: the queries and controls that the       *)
(* platform builds (sip/models.go, buildxml.go, ptz.go), how a body is     *)
(* encoded and decoded (sip/utils.go), and what a struct keeps of it       *)
(* (messages.go, group.go).                                                *)
(*                                                                         *)
(* A body is a sequence of lines, each a sequence of words: the XML        *)
(* declaration <<"<?xml", charset>>, with "" for no charset in it and       *)
(* "none" where the text has no declaration, and elements                  *)
(* <<name, script, value...>>.  script says what bytes stand for the       *)
(* value: "ascii", "utf8" or "gbk" (Chinese in the one code or the other). *)
(***************************************************************************)
EXTENDS Integers, Sequences, SequencesExt, TLC

Declaration(charset) == <<"<?xml", charset>>
IsDeclaration(line) == line[1] = "<?xml"
Element(name, word) == <<name, "ascii", word>>
ScriptOf(line) == IF IsDeclaration(line) THEN "ascii" ELSE line[2]

-----------------------------------------------------------------------------
(* Building *)

\* XMLEncode declares GB2312 and converts the values.
XMLEncode(elements) ==
    <<Declaration("GB2312")>>
    \o [i \in DOMAIN elements |->
            IF elements[i][2] = "utf8" THEN [elements[i] EXCEPT ![2] = "gbk"] ELSE elements[i]]

\* The templates are formatted, not encoded.
CatalogXML(id) ==
    <<Declaration("GB2312"), Element("CmdType", "Catalog"), Element("SN", "sn"),
      Element("DeviceID", id)>>
DeviceInfoXML(id) ==
    <<Declaration("GB2312"), Element("CmdType", "DeviceInfo"), Element("SN", "sn"),
      Element("DeviceID", id)>>
RecordInfoXML(id, start, end) ==
    <<Declaration("GB2312"), Element("CmdType", "RecordInfo"), Element("SN", "sn"),
      Element("DeviceID", id), Element("StartTime", start), Element("EndTime", end)>>

ConfigDownloadXML(id, configType) ==
    XMLEncode(<<Element("CmdType", "ConfigDownload"), Element("SN", "sn"),
                Element("DeviceID", id), Element("ConfigType", configType)>>)

\* snap is the session of the snapshot, or nothing.
DeviceConfigXML(id, snap) ==
    XMLEncode(<<Element("CmdType", "DeviceConfig"), Element("SN", "sn"),
                Element("DeviceID", id)>>
              \o [i \in DOMAIN snap |-> Element("SnapShotConfig", snap[i])])

PTZActions == {"up", "down", "left", "right", "stop"}

\* A mutant: a speed beyond a byte is not cut.
BuildPTZCmdWrong(action, speed) ==
    LET clamped == IF speed < 0 THEN 0 ELSE speed
        direction == CASE action = "up" -> 8 [] action = "down" -> 4
                       [] action = "left" -> 2 [] action = "right" -> 1 [] OTHER -> 0
        cmd == <<165, 15, 1, direction, clamped % 256, clamped % 256, 0>>
    IN Append(cmd, FoldSeq(+, 0, cmd) % 256)

\* The eight bytes of a PTZ command.
BuildPTZCmd(action, speed) ==
    LET clamped == IF speed < 0 THEN 0 ELSE IF speed > 255 THEN 255 ELSE speed
        direction == CASE action = "up" -> 8 [] action = "down" -> 4
                       [] action = "left" -> 2 [] action = "right" -> 1 [] OTHER -> 0
        cmd == <<165, 15, 1, direction, clamped, clamped, 0>>
    IN Append(cmd, FoldSeq(+, 0, cmd) % 256)

HexText(bytes) == [i \in DOMAIN bytes |-> ToString(bytes[i])]

PTZControlXML(id, action, speed) ==
    XMLEncode(<<Element("CmdType", "DeviceControl"), Element("SN", "sn"),
                Element("DeviceID", id),
                <<"PTZCmd", "ascii">> \o HexText(BuildPTZCmd(action, speed))>>)

-----------------------------------------------------------------------------
(* Decoding *)

\* What a struct of messages.go keeps: the last value of an element that
\* occurs once, and every Item.
EmptyStruct == [CmdType |-> <<>>, DeviceID |-> <<>>, PTZCmd |-> <<>>, ConfigType |-> <<>>,
                SumNum |-> <<>>, Item |-> <<>>]
\* MessageReceive, whose SN is a number in every body.
RouteStruct == [CmdType |-> <<>>]

\* A mutant: the last Item alone is kept.
StoreElementWrong(v, line) ==
    IF line[1] = "Item" /\ "Item" \in DOMAIN v
    THEN [v EXCEPT !.Item = <<SubSeq(line, 3, Len(line))>>]
    ELSE IF line[1] \in DOMAIN v THEN [v EXCEPT ![line[1]] = SubSeq(line, 3, Len(line))]
    ELSE v

StoreElement(v, line) ==
    IF line[1] = "Item" /\ "Item" \in DOMAIN v
    THEN [v EXCEPT !.Item = Append(@, SubSeq(line, 3, Len(line)))]
    ELSE IF line[1] \in DOMAIN v THEN [v EXCEPT ![line[1]] = SubSeq(line, 3, Len(line))]
    ELSE v

\* A declared charset other than UTF-8 is converted, unless the bytes are UTF-8
\* anyway; otherwise the decoder stops at the first value that is not UTF-8.
Converts(body) == body[1] \in {Declaration(c) : c \in {"GB2312", "GBK", "GB18030"}}
Readable(body, i) == Converts(body) \/ ScriptOf(body[i]) # "gbk"

\* An int field of the struct that gets another text.
Misfit(line, v) ==
    /\ line[1] = "SumNum" /\ "SumNum" \in DOMAIN v
    /\ \A n \in 0..9 : line[3] # ToString(n)

\* Decode into v, which may hold values already.
Decode(body, v) ==
    LET bad == {i \in DOMAIN body : ~Readable(body, i) \/ Misfit(body[i], v)}
        read == IF bad = {} THEN body ELSE SubSeq(body, 1, Min(bad) - 1)
    IN [err |-> body = <<>> \/ bad # {}, v |-> FoldLeft(StoreElement, v, read)]

\* XMLDecode: a second attempt, into the same struct, with GB2312 declared
\* instead of nothing or of UTF-8.
Redeclared(body) ==
    IF body # <<>> /\ body[1] \in {Declaration(""), Declaration("UTF-8")}
    THEN [body EXCEPT ![1] = Declaration("GB2312")] ELSE body
XMLDecode(body, v) ==
    LET first == Decode(body, v)
    IN IF first.err THEN Decode(Redeclared(body), first.v) ELSE first
================================================================================
