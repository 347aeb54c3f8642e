-------------------------------- MODULE Params --------------------------------
(***************************************************************************)
(* Parameter lists of headers and URIs (sip/header.go, headerParams) and   *)
(* the text they are written as and read from (sip/parser.go).             *)
(*                                                                         *)
(* A text is a sequence of tokens.  A token is one of the characters the   *)
(* code looks for (a delimiter, a quote, a blank) or a word that holds     *)
(* none of them.  A list is a sequence of [key, val] records in the order  *)
(* of paramOrder.  What Go has as a value that may be nil is a sequence of *)
(* at most one element: Nil, or Some(x).                                   *)
(***************************************************************************)
EXTENDS Integers, Sequences, SequencesExt

Nil == <<>>
Some(x) == <<x>>

Blank == {" ", "\t"}     \* abnfWs

\* FoldLeft of the community modules, which folds over the subsets of the domain
\* and is too slow for texts.
Scan(op(_, _), base, seq) ==
    LET state[i \in 0..Len(seq)] == IF i = 0 THEN base ELSE op(state[i - 1], seq[i])
    IN state[Len(seq)]

\* op of each element; the elements of a set, in order; what sequences hold.
\* SelectSeq of the library is recursive, which a proof cannot expand.
Each(op(_), seq) == [i \in DOMAIN seq |-> op(seq[i])]
Keep(seq, S) == Scan(LAMBDA kept, x : IF x \in S THEN Append(kept, x) ELSE kept, <<>>, seq)
Flat(seqs) == Scan(\o, <<>>, seqs)

Upto(text, i) == SubSeq(text, 1, i)
After(text, i) == SubSeq(text, i + 1, Len(text))

\* strings.Index and IndexAny, from 1; 0 when none of the tokens is there.
FirstOf(text, tokens) == SelectInSeq(text, LAMBDA t : t \in tokens)

\* A text up to a position and from it on; the whole text when there is none.
CutAt(text, i) ==
    [head |-> IF i = 0 THEN text ELSE Upto(text, i - 1),
     tail |-> IF i = 0 THEN <<>> ELSE After(text, i - 1)]

\* strings.TrimSpace
Trim(text) ==
    LET ink == {i \in DOMAIN text : text[i] \notin Blank}
    IN IF ink = {} THEN <<>> ELSE SubSeq(text, Min(ink), Max(ink))

\* strings.Split and strings.Join
Split(text, token) ==
    Scan(LAMBDA parts, t :
                IF t = token THEN Append(parts, <<>>)
                ELSE [parts EXCEPT ![Len(parts)] = Append(@, t)],
             << <<>> >>, text)
Join(parts, glue) ==
    Scan(LAMBDA text, i : text \o (IF i = 1 THEN parts[i] ELSE glue \o parts[i]),
         <<>>, [i \in DOMAIN parts |-> i])

\* The whitespace-separated fields of a text without blanks at its ends.
SplitByWhitespace(text) ==
    LET spaced == [i \in DOMAIN text |-> IF text[i] \in Blank THEN " " ELSE text[i]]
        parts == Split(spaced, " ")
    IN Keep(parts, Range(parts) \ {<<>>})

\* The first of the targets that is not between quotes.
FindUnescaped(text, target) ==
    LET Open(i) == Cardinality({k \in 1..(i - 1) : text[k] = "\""}) % 2 = 1
        found == {i \in DOMAIN text : text[i] = target /\ ~Open(i)}
    IN IF found = {} THEN 0 ELSE Min(found)

-----------------------------------------------------------------------------
(* headerParams *)

KeyAt(params, key) == SelectInSeq(params, LAMBDA p : p.key = key)
Has(params, key) == KeyAt(params, key) # 0
Get(params, key) == params[KeyAt(params, key)].val

\* A key that is there keeps its place.
Add(params, key, val) ==
    IF Has(params, key)
    THEN [params EXCEPT ![KeyAt(params, key)].val = val]
    ELSE Append(params, [key |-> key, val |-> val])

\* Clone adds the parameters to a new list, in order.
CloneParams(params) == Scan(LAMBDA dup, p : Add(dup, p.key, p.val), <<>>, params)

\* Equals, which does not look at the order.
SameParams(params, other) ==
    /\ Len(params) = Len(other)
    /\ \A i \in DOMAIN params :
        Has(other, params[i].key) /\ Get(other, params[i].key) = params[i].val

\* A value with a blank is written between quotes.
ParamText(p) ==
    IF p.val = Nil THEN p.key
    ELSE IF FirstOf(p.val[1], Blank) # 0 THEN p.key \o <<"=", "\"">> \o p.val[1] \o <<"\"">>
    ELSE p.key \o <<"=">> \o p.val[1]
ToText(params, sep) == Join(Each(ParamText, params), <<sep>>)

\* What a header or a URI writes after its address: nothing for no parameters.
TailText(params, start, sep) ==
    IF params = Nil \/ params[1] = <<>> THEN <<>> ELSE <<start>> \o ToText(params[1], sep)

-----------------------------------------------------------------------------
(* ParseParams *)

\* The state of the loop.
ParamState == [on |-> TRUE, err |-> FALSE, used |-> 1, params |-> <<>>, buffer |-> <<>>,
               key |-> <<>>, parsingKey |-> TRUE, inQuotes |-> FALSE]

\* Store off what the buffer holds: a key alone, or the value of a key.
StoreParam(s, permitSingletons) ==
    IF s.parsingKey /\ ~permitSingletons THEN [s EXCEPT !.err = TRUE, !.on = FALSE]
    ELSE [s EXCEPT
            !.params = IF s.parsingKey THEN Add(@, s.buffer, Nil)
                       ELSE Add(@, s.key, Some(s.buffer)),
            !.buffer = <<>>, !.parsingKey = TRUE]

ParseParamToken(s, source, i, sep, end, quoteValues, permitSingletons) ==
    LET t == source[i]
        Write == [s EXCEPT !.buffer = Append(@, t), !.used = i]
        Fail == [s EXCEPT !.err = TRUE, !.on = FALSE]
        badQuote == \/ s.parsingKey
                    \/ ~s.inQuotes /\ s.buffer # <<>>
                    \/ s.inQuotes /\ i < Len(source) /\ source[i + 1] # sep
    IN CASE ~s.on -> s
         [] t \in {sep, end} /\ s.inQuotes -> Write
         [] t = end /\ ~s.inQuotes -> [s EXCEPT !.on = FALSE]
         [] t = sep /\ t # end /\ ~s.inQuotes ->
                [StoreParam(s, permitSingletons) EXCEPT !.used = i]
         [] t = "\"" -> IF ~quoteValues THEN Write ELSE IF badQuote THEN Fail
                        ELSE [s EXCEPT !.inQuotes = ~@, !.used = i]
         [] t = "=" -> IF s.buffer = <<>> \/ ~s.parsingKey THEN Fail
                       ELSE [s EXCEPT !.key = s.buffer, !.buffer = <<>>,
                                      !.parsingKey = FALSE, !.used = i]
         [] OTHER -> IF t \in Blank /\ ~s.inQuotes THEN [s EXCEPT !.used = i] ELSE Write

\* The end of the loop, and what ParseParams gives; used is the number of tokens
\* that were consumed.
EndParams(s, permitSingletons) ==
    IF s.inQuotes THEN [s EXCEPT !.err = TRUE]
    ELSE IF s.err THEN s ELSE StoreParam(s, permitSingletons)
ParamsOf(s) == [params |-> s.params, used |-> s.used, err |-> s.err]

\* The parameters from the start character to the end character, or to the end
\* of source.
ParseParams(source, start, sep, end, quoteValues, permitSingletons) ==
    LET read(s, i) == ParseParamToken(s, source, i, sep, end, quoteValues, permitSingletons)
    IN IF source = <<>> THEN [params |-> <<>>, used |-> 0, err |-> FALSE]
       ELSE IF source[1] # start THEN [params |-> <<>>, used |-> 0, err |-> TRUE]
       ELSE ParamsOf(EndParams(Scan(read, ParamState, [i \in 1..(Len(source) - 1) |-> i + 1]),
                               permitSingletons))
================================================================================
