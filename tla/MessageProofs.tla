----------------------------- MODULE MessageProofs -----------------------------
(***************************************************************************)
(* Theorems about the headers of a message and the texts of URIs: what     *)
(* AppendHeader, GetHeaders and ReplaceFirst keep, and that ParseURI reads *)
(* the URI of a user at a host and that the parser of a header line hands  *)
(* its value to the parser of its name.                                    *)
(***************************************************************************)
EXTENDS TextProofs

-----------------------------------------------------------------------------
(* The headers of a message *)

\* H holds the headers; of a header nothing needs to be known but its name.
Names(H) == {NameOf(h) : h \in H}
Group(H) == [name : Names(H), list : Seq(H)]
Named(H, name) == {h \in H : NameOf(h) = name}

\* GroupAt gives 0 where no group has the name and else such a group.
LEMMA GroupAtIn ==
    ASSUME NEW G, NEW headers \in Seq(G), NEW name
    PROVE  \/ GroupAt(headers, name) = 0 /\ \A i \in 1..Len(headers) : headers[i].name # name
           \/ /\ GroupAt(headers, name) \in 1..Len(headers)
              /\ headers[GroupAt(headers, name)].name = name
<1> DEFINE I == {i \in 1..Len(headers) : headers[i].name = name}
<1>1. GroupAt(headers, name) = IF I # {} THEN Min(I) ELSE 0
  BY DEF GroupAt, SelectInSeq
<1>2. CASE I = {}
  BY <1>1, <1>2
<1>3. CASE I # {}
  <2>1. I \in SUBSET Nat
    OBVIOUS
  <2> HIDE DEF I
  <2>2. Min(I) \in I
    BY <1>3, <2>1, MinIn
  <2> QED
    BY <1>1, <1>3, <2>2 DEF I
<1> QED
  BY <1>2, <1>3

\* The place of a name depends on the names alone.
LEMMA GroupAtSame ==
    ASSUME NEW G, NEW headers \in Seq(G), NEW other \in Seq(G), NEW name,
           Len(other) = Len(headers), \A i \in 1..Len(headers) : other[i].name = headers[i].name
    PROVE  GroupAt(other, name) = GroupAt(headers, name)
<1>1. {i \in 1..Len(other) : other[i].name = name} =
            {i \in 1..Len(headers) : headers[i].name = name}
  OBVIOUS
<1> QED
  BY <1>1 DEF GroupAt, SelectInSeq

\* GroupAt gives the first group of the name.
LEMMA GroupAtIs ==
    ASSUME NEW G, NEW headers \in Seq(G), NEW name, NEW i \in 1..Len(headers),
           headers[i].name = name, \A j \in 1..(i - 1) : headers[j].name # name
    PROVE  GroupAt(headers, name) = i
<1> DEFINE I == {j \in 1..Len(headers) : headers[j].name = name}
<1>1. GroupAt(headers, name) = IF I # {} THEN Min(I) ELSE 0
  BY DEF GroupAt, SelectInSeq
<1>2. i \in I /\ I \in SUBSET Int /\ \A j \in I : i <= j
  OBVIOUS
<1> HIDE DEF I
<1>3. Min(I) = i
  BY <1>2, MinIs
<1> QED
  BY <1>1, <1>2, <1>3

\* No group before the one of GroupAt has the name.
LEMMA GroupAtFirst ==
    ASSUME NEW G, NEW headers \in Seq(G), NEW name, NEW k, k = GroupAt(headers, name),
           NEW j \in 1..(k - 1), k \in 1..Len(headers)
    PROVE  headers[j].name # name
<1> DEFINE I == {i \in 1..Len(headers) : headers[i].name = name}
<1>1. k = IF I # {} THEN Min(I) ELSE 0
  BY DEF GroupAt, SelectInSeq
<1>2. I \in SUBSET Nat
  OBVIOUS
<1>3. j \in Nat /\ j < k /\ j \in 1..Len(headers)
  OBVIOUS
<1> HIDE DEF I
<1>4. I # {} => \A y \in I : k <= y
  BY <1>1, <1>2, MinIn
<1>5. j \notin I
  BY <1>1, <1>2, <1>3, <1>4
<1> QED
  BY <1>3, <1>5 DEF I

\* AppendHeader keeps groups of headers.
LEMMA AppendHeaderType ==
    ASSUME NEW H, NEW headers \in Seq(Group(H)), NEW h \in H
    PROVE  AppendHeader(headers, h) \in Seq(Group(H))
<1> DEFINE n == NameOf(h)
           at == GroupAt(headers, n)
           fresh == [name |-> n, list |-> <<h>>]
           old == headers[at]
<1>1. \/ at = 0
      \/ at \in 1..Len(headers)
  BY GroupAtIn
<1>2. CASE at = 0
  <2>1. AppendHeader(headers, h) = Append(headers, fresh)
    BY <1>2 DEF AppendHeader
  <2>2. fresh \in Group(H)
    BY DEF Group, Names
  <2> HIDE DEF fresh
  <2> QED
    BY <2>1, <2>2
<1>3. CASE at \in 1..Len(headers)
  <2>1. old \in Group(H)
    BY <1>3
  <2> DEFINE new == [old EXCEPT !.list = Append(@, h)]
  <2>2. new \in Group(H)
    <3> HIDE DEF old
    <3> QED
      BY <2>1 DEF Group
  <2>3. AppendHeader(headers, h) = [headers EXCEPT ![at] = new]
    BY <1>3 DEF AppendHeader
  <2> HIDE DEF new, at
  <2> QED
    BY <1>3, <2>2, <2>3, ExceptSeq
<1> QED
  BY <1>1, <1>2, <1>3

\* What a message has of a name once a header is appended.
LEMMA GetAppended ==
    ASSUME NEW H, NEW headers \in Seq(Group(H)), NEW h \in H, NEW name
    PROVE  GetHeaders(AppendHeader(headers, h), name) =
                IF NameOf(h) = name THEN Append(GetHeaders(headers, name), h)
                ELSE GetHeaders(headers, name)
<1> DEFINE n == NameOf(h)
           at == GroupAt(headers, n)
           fresh == [name |-> n, list |-> <<h>>]
           old == headers[at]
           after == AppendHeader(headers, h)
           len == Len(headers)
<1>0. /\ len \in Nat /\ at \in {0} \cup 1..len
      /\ GroupAt(headers, name) \in {0} \cup 1..len
  BY GroupAtIn
<1>1. CASE at = 0
  <2>1. after = Append(headers, fresh)
    BY <1>1 DEF AppendHeader
  <2>2. fresh \in Group(H) /\ fresh.name = n /\ fresh.list = <<h>>
    BY DEF Group, Names
  <2> HIDE DEF after, fresh
  <2>3. /\ after \in Seq(Group(H)) /\ Len(after) = len + 1 /\ after[len + 1] = fresh
        /\ \A i \in 1..len : after[i] = headers[i]
    BY <2>1, <2>2
  <2>4. \A i \in 1..len : headers[i].name # n
    BY <1>0, <1>1, GroupAtIn
  <2>5. CASE n = name
    <3>1. GroupAt(after, name) = len + 1
      <4>1. after[len + 1].name = name /\ len + 1 \in 1..Len(after)
            /\ \A j \in 1..((len + 1) - 1) : after[j].name # name
        BY <1>0, <2>2, <2>3, <2>4, <2>5
      <4> HIDE DEF len
      <4> QED
        BY <2>3, <4>1, GroupAtIs
    <3>2. GetHeaders(after, name) = <<h>>
      BY <1>0, <2>2, <2>3, <3>1 DEF GetHeaders
    <3>3. GetHeaders(headers, name) = <<>>
      BY <1>1, <2>5 DEF GetHeaders
    <3> QED
      BY <2>5, <3>2, <3>3 DEF after
  <2>6. CASE n # name
    <3>1. CASE GroupAt(headers, name) = 0
      <4>1. \A i \in 1..len : headers[i].name # name
        BY <1>0, <3>1, GroupAtIn
      <4>2. \A i \in 1..Len(after) : after[i].name # name
        BY <1>0, <2>2, <2>3, <2>6, <4>1
      <4>3. GroupAt(after, name) = 0
        BY <2>3, <4>2, GroupAtIn
      <4> QED
        BY <2>6, <3>1, <4>3 DEF GetHeaders, after
    <3>2. CASE GroupAt(headers, name) \in 1..len
      <4> DEFINE k == GroupAt(headers, name)
      <4>1. headers[k].name = name /\ \A j \in 1..(k - 1) : headers[j].name # name
        BY <1>0, <3>2, GroupAtIn, GroupAtFirst
      <4> HIDE DEF k
      <4>2. k \in 1..Len(after) /\ after[k].name = name
                  /\ \A j \in 1..(k - 1) : after[j].name # name
        BY <1>0, <2>3, <3>2, <4>1 DEF k
      <4>3. GroupAt(after, name) = k
        BY <2>3, <4>2, GroupAtIs
      <4>4. after[k].list = headers[k].list /\ k # 0
        BY <1>0, <2>3, <3>2 DEF k
      <4> QED
        BY <2>6, <4>3, <4>4 DEF GetHeaders, k, after
    <3> QED
      BY <1>0, <3>1, <3>2
  <2> QED
    BY <2>5, <2>6
<1>2. CASE at \in 1..len
  <2>1. old \in Group(H)
    BY <1>2
  <2> DEFINE new == [old EXCEPT !.list = Append(@, h)]
  <2>2. new \in Group(H) /\ new.name = old.name /\ new.list = Append(old.list, h)
    <3> HIDE DEF old
    <3> QED
      BY <2>1 DEF Group
  <2>3. after = [headers EXCEPT ![at] = new]
    BY <1>2 DEF AppendHeader
  <2>4. old.name = n
    BY <1>0, <1>2, GroupAtIn
  <2> HIDE DEF new, after
  <2>5. /\ after \in Seq(Group(H)) /\ Len(after) = len
        /\ \A i \in 1..len : after[i] = IF i = at THEN new ELSE headers[i]
    <3> HIDE DEF at
    <3> QED
      BY <1>2, <2>2, <2>3, ExceptSeq
  <2>6. GroupAt(after, name) = GroupAt(headers, name)
    <3>1. \A i \in 1..len : after[i].name = headers[i].name
      BY <2>2, <2>5
    <3> QED
      BY <2>5, <3>1, GroupAtSame
  <2>7. CASE n = name
    <3>1. GetHeaders(after, name) = new.list
      BY <1>0, <1>2, <2>5, <2>6, <2>7 DEF GetHeaders
    <3>2. GetHeaders(headers, name) = old.list
      BY <1>0, <1>2, <2>7 DEF GetHeaders
    <3> QED
      BY <2>2, <2>7, <3>1, <3>2 DEF after
  <2>8. CASE n # name
    <3>1. GroupAt(headers, name) # at \/ GroupAt(headers, name) = 0
      BY <1>0, <1>2, <2>4, <2>8, GroupAtIn
    <3> QED
      BY <1>0, <1>2, <2>5, <2>6, <2>8, <3>1 DEF GetHeaders, after
  <2> QED
    BY <2>7, <2>8
<1> QED
  BY <1>0, <1>1, <1>2

AppendF(H) == [headers \in Seq(Group(H)) |-> [h \in H |-> AppendHeader(headers, h)]]

\* The steps of AppendAll keep groups of headers.
LEMMA AppendOps ==
    ASSUME NEW H
    PROVE  AppendF(H) \in Ops(Seq(Group(H)), H)
  BY AppendHeaderType DEF AppendF, Ops

\* AppendAll is the fold of AppendHeader.
LEMMA AppendFold ==
    ASSUME NEW H, NEW headers \in Seq(Group(H)), NEW seq \in Seq(H)
    PROVE  AppendAll(headers, seq) = Fold(AppendF(H), headers, seq)
<1> DEFINE S == Seq(Group(H))
           F == AppendF(H)
           base == headers
           op(s, x) == AppendHeader(s, x)
           eq(g) == g = [i \in 0..Len(seq) |-> IF i = 0 THEN base ELSE op(g[i - 1], seq[i])]
           h == CHOOSE g : eq(g)
<1>1. AppendAll(headers, seq) = h[Len(seq)]
  BY DEF AppendAll, Scan
<1>2. F \in Ops(S, H) /\ base \in S
  BY AppendOps
<1>3. \A s \in S, x \in H : F[s][x] = op(s, x)
  BY DEF AppendF
<1>4. \A i \in 1..Len(seq) : seq[i] \in H
  BY ElementOfSeq
<1> HIDE DEF S, F, base, op, h
<1>5. eq(h)
  <2>1. PICK g : /\ g = [i \in 0..Len(seq) |-> IF i = 0 THEN base ELSE F[g[i - 1]][seq[i]]]
                 /\ \A i \in 1..Len(seq) : g[i - 1] \in S /\ seq[i] \in H
    <3> HIDE DEF eq
    <3> QED
      BY <1>2, RunIs
  <2>2. \A i \in 1..Len(seq) : F[g[i - 1]][seq[i]] = op(g[i - 1], seq[i])
    BY <1>3, <2>1
  <2>3. eq(g)
    BY <2>1, <2>2, SMTT(30)
  <2> HIDE DEF eq
  <2> QED
    BY <2>3 DEF h
<1>6. Follows(h, S, F, base, seq)
  BY <1>3, <1>4, <1>5 DEF Follows
<1>7. h[Len(seq)] = Fold(F, base, seq)
  BY <1>2, <1>6, FollowsFold
<1> QED
  BY <1>1, <1>7 DEF F, base

\* AppendAll keeps groups of headers.
LEMMA AppendAllType ==
    ASSUME NEW H, NEW headers \in Seq(Group(H)), NEW hdrs \in Seq(H)
    PROVE  AppendAll(headers, hdrs) \in Seq(Group(H))
<1> DEFINE S == Seq(Group(H))
<1>1. AppendF(H) \in Ops(S, H) /\ headers \in S
  BY AppendOps
<1>2. AppendAll(headers, hdrs) = Fold(AppendF(H), headers, hdrs)
  BY AppendFold
<1> HIDE DEF S
<1>3. Fold(AppendF(H), headers, hdrs) \in S
  BY <1>1, FoldType
<1> QED
  BY <1>2, <1>3 DEF S

\* AppendAll of nothing.
LEMMA AppendAllEmpty ==
    ASSUME NEW H, NEW headers \in Seq(Group(H))
    PROVE  AppendAll(headers, <<>>) = headers
<1>1. <<>> \in Seq(H)
  OBVIOUS
<1>2. AppendAll(headers, <<>>) = Fold(AppendF(H), headers, <<>>)
  BY <1>1, AppendFold
<1> QED
  BY <1>2, FoldEmpty

\* AppendAll takes its last header last.
LEMMA AppendAllAppend ==
    ASSUME NEW H, NEW headers \in Seq(Group(H)), NEW hdrs \in Seq(H), NEW h \in H
    PROVE  AppendAll(headers, Append(hdrs, h)) = AppendHeader(AppendAll(headers, hdrs), h)
<1> DEFINE S == Seq(Group(H))
           a == AppendAll(headers, hdrs)
<1>1. AppendF(H) \in Ops(S, H) /\ headers \in S
  BY AppendOps
<1>2. a = Fold(AppendF(H), headers, hdrs)
  BY AppendFold
<1>3. Append(hdrs, h) \in Seq(H)
  OBVIOUS
<1>4. AppendAll(headers, Append(hdrs, h)) = Fold(AppendF(H), headers, Append(hdrs, h))
  BY <1>3, AppendFold
<1>5. a \in Seq(Group(H))
  BY AppendAllType
<1> HIDE DEF S, a
<1>6. Fold(AppendF(H), headers, Append(hdrs, h)) = AppendF(H)[a][h]
  BY <1>1, <1>2, FoldAppend
<1>7. AppendF(H)[a][h] = AppendHeader(a, h)
  BY <1>5 DEF AppendF
<1> QED
  BY <1>4, <1>6, <1>7 DEF a

\* A message has of a name the headers that were appended, in order.
LEMMA GetAppendedAll ==
    ASSUME NEW H, NEW headers \in Seq(Group(H)), NEW hdrs \in Seq(H), NEW name,
           GetHeaders(headers, name) \in Seq(H)
    PROVE  GetHeaders(AppendAll(headers, hdrs), name) =
                GetHeaders(headers, name) \o Keep(hdrs, Named(H, name))
<1> DEFINE b == GetHeaders(headers, name)
           W == Named(H, name)
           K == {s \in Seq(H) : GetHeaders(AppendAll(headers, s), name) = b \o Keep(s, W)}
<1>1. <<>> \in K
  <2>1. b \o <<>> = b /\ <<>> \in Seq(H)
    OBVIOUS
  <2>2. AppendAll(headers, <<>>) = headers /\ Keep(<<>>, W) = <<>>
    BY AppendAllEmpty, KeepEmpty
  <2> HIDE DEF W
  <2> QED
    BY <2>1, <2>2
<1>2. ASSUME NEW s \in Seq(H), NEW h \in H, s \in K
      PROVE  Append(s, h) \in K
  <2> DEFINE a == AppendAll(headers, s)
             k == Keep(s, W)
             o == <<h>>
  <2>1. GetHeaders(a, name) = b \o k
    BY <1>2
  <2> HIDE DEF K
  <2>2. a \in Seq(Group(H))
    BY AppendAllType
  <2>3. AppendAll(headers, Append(s, h)) = AppendHeader(a, h)
    BY AppendAllAppend
  <2>4. k \in Seq(H) /\ Keep(Append(s, h), W) = IF h \in W THEN Append(k, h) ELSE k
    <3> HIDE DEF W
    <3> QED
      BY KeepAppend
  <2>5. h \in W <=> NameOf(h) = name
    BY DEF Named
  <2> HIDE DEF a
  <2>6. GetHeaders(AppendHeader(a, h), name) =
            IF NameOf(h) = name THEN Append(GetHeaders(a, name), h) ELSE GetHeaders(a, name)
    BY <2>2, GetAppended
  <2>7. Append(b \o k, h) = b \o Append(k, h)
    <3>0. k \in Seq(H) /\ b \in Seq(H)
      BY <2>4
    <3> HIDE DEF k, b
    <3> DEFINE x == Append(b \o k, h)
               y == b \o Append(k, h)
    <3>1. x \in Seq(H) /\ y \in Seq(H) /\ Len(x) = Len(y)
      BY <3>0
    <3>2. \A i \in 1..Len(x) : x[i] = y[i]
      BY <3>0
    <3> HIDE DEF x, y
    <3>3. x = y
      BY <3>1, <3>2, SameSeq
    <3> QED
      BY <3>3 DEF x, y
  <2> HIDE DEF b, k, W
  <2>8. GetHeaders(AppendAll(headers, Append(s, h)), name) = b \o Keep(Append(s, h), W)
    BY <2>1, <2>3, <2>4, <2>5, <2>6, <2>7
  <2>9. Append(s, h) \in Seq(H)
    OBVIOUS
  <2> QED
    BY <2>8, <2>9 DEF K
<1>3. Seq(H) \subseteq K
  <2> HIDE DEF K
  <2> QED
    BY <1>1, <1>2, SeqInduction
<1> QED
  BY <1>3

\* GetHeaders gives headers.
LEMMA GetHeadersType ==
    ASSUME NEW H, NEW headers \in Seq(Group(H)), NEW name
    PROVE  GetHeaders(headers, name) \in Seq(H)
<1> DEFINE at == GroupAt(headers, name)
<1>1. at = 0 \/ at \in 1..Len(headers)
  BY GroupAtIn
<1>2. CASE at = 0
  <2>1. GetHeaders(headers, name) = <<>>
    BY <1>2 DEF GetHeaders
  <2>2. <<>> \in Seq(H)
    OBVIOUS
  <2> QED
    BY <2>1, <2>2
<1>3. CASE at \in 1..Len(headers)
  <2>1. headers[at] \in Group(H)
    BY <1>3
  <2>2. GetHeaders(headers, name) = headers[at].list
    BY <1>3 DEF GetHeaders
  <2> HIDE DEF at
  <2> QED
    BY <2>1, <2>2 DEF Group
<1> QED
  BY <1>1, <1>2, <1>3

\* A new header in place of the first of its name leaves the other names alone.
LEMMA GetReplaced ==
    ASSUME NEW H, NEW headers \in Seq(Group(H)), NEW h \in H, NEW name, name # NameOf(h),
           GetHeaders(headers, NameOf(h)) # <<>>
    PROVE  /\ ReplaceFirst(headers, h) \in Seq(Group(H))
           /\ GetHeaders(ReplaceFirst(headers, h), name) = GetHeaders(headers, name)
<1> DEFINE n == NameOf(h)
           at == GroupAt(headers, n)
           old == headers[at]
           new == [old EXCEPT !.list[1] = h]
           after == ReplaceFirst(headers, h)
<1>1. at \in 1..Len(headers) /\ old.name = n
  BY GroupAtIn DEF GetHeaders
<1>2. old \in Group(H)
  BY <1>1
<1>3. old.list # <<>>
  BY <1>1 DEF GetHeaders
<1>4. new \in Group(H) /\ new.name = n
  <2> HIDE DEF old
  <2>1. old.list \in Seq(H) /\ 1 \in 1..Len(old.list)
    BY <1>2, <1>3, EmptySeq DEF Group
  <2> DEFINE list == [old.list EXCEPT ![1] = h]
  <2>2. list \in Seq(H)
    BY <2>1, ExceptSeq
  <2>3. new = [old EXCEPT !.list = list]
    OBVIOUS
  <2> HIDE DEF list, new
  <2> QED
    BY <1>1, <1>2, <2>2, <2>3 DEF Group
<1>5. after = [headers EXCEPT ![at] = new]
  BY <1>1 DEF ReplaceFirst
<1> HIDE DEF new, after
<1>6. /\ after \in Seq(Group(H)) /\ Len(after) = Len(headers)
      /\ \A i \in 1..Len(headers) : after[i] = IF i = at THEN new ELSE headers[i]
  <2> HIDE DEF at
  <2> QED
    BY <1>1, <1>4, <1>5, ExceptSeq
<1>7. GroupAt(after, name) = GroupAt(headers, name)
  <2>1. \A i \in 1..Len(headers) : after[i].name = headers[i].name
    BY <1>1, <1>4, <1>6
  <2> QED
    BY <1>6, <2>1, GroupAtSame
<1>8. GroupAt(headers, name) = 0 \/ (GroupAt(headers, name) \in 1..Len(headers)
                                      /\ headers[GroupAt(headers, name)].name = name)
  BY GroupAtIn
<1>9. GetHeaders(after, name) = GetHeaders(headers, name)
  BY <1>1, <1>6, <1>7, <1>8 DEF GetHeaders
<1> QED
  BY <1>6, <1>9 DEF after

\* The first header of a message: h heads its first group.
Leads(headers, h) ==
    /\ headers # <<>> /\ headers[1].name = NameOf(h)
    /\ headers[1].list # <<>> /\ headers[1].list[1] = h

\* The first header appended to no headers leads them.
LEMMA LeadsFirst ==
    ASSUME NEW h
    PROVE  Leads(AppendHeader(<<>>, h), h)
<1>2. GroupAt(<<>>, NameOf(h)) = 0
  BY DEF GroupAt, SelectInSeq
<1> DEFINE g == [name |-> NameOf(h), list |-> <<h>>]
<1>3. AppendHeader(<<>>, h) = <<g>>
  BY <1>2 DEF AppendHeader
<1>4. g.name = NameOf(h) /\ g.list = <<h>>
  OBVIOUS
<1> HIDE DEF g
<1> QED
  BY <1>3, <1>4 DEF Leads

\* It leads still when another one is appended.
LEMMA LeadsOn ==
    ASSUME NEW H, NEW headers \in Seq(Group(H)), NEW h, NEW x \in H, Leads(headers, h)
    PROVE  Leads(AppendHeader(headers, x), h)
<1> DEFINE n == NameOf(x)
           at == GroupAt(headers, n)
           fresh == [name |-> n, list |-> <<x>>]
           old == headers[at]
           new == [old EXCEPT !.list = Append(@, x)]
           after == AppendHeader(headers, x)
<1>0. Len(headers) \in Nat \ {0} /\ headers[1] \in Group(H)
  BY EmptySeq DEF Leads
<1>1. at = 0 \/ at \in 1..Len(headers)
  BY GroupAtIn
<1>2. CASE at = 0
  <2>1. after = Append(headers, fresh)
    BY <1>2 DEF AppendHeader
  <2> HIDE DEF after, fresh
  <2>2. after # <<>> /\ after[1] = headers[1]
    BY <1>0, <2>1
  <2> QED
    BY <2>2 DEF Leads, after
<1>3. CASE at \in 1..Len(headers)
  <2>1. old \in Group(H)
    BY <1>3
  <2>2. new \in Group(H) /\ new.name = old.name /\ new.list = Append(old.list, x)
    <3> DEFINE list == Append(old.list, x)
    <3>1. new = [old EXCEPT !.list = list]
      OBVIOUS
    <3> HIDE DEF old
    <3>2. list \in Seq(H)
      BY <2>1 DEF Group
    <3> HIDE DEF list, new
    <3>3. new \in Group(H) /\ new.name = old.name /\ new.list = list
      BY <2>1, <3>1, <3>2 DEF Group
    <3> QED
      BY <3>3 DEF list
  <2>3. after = [headers EXCEPT ![at] = new]
    BY <1>3 DEF AppendHeader
  <2> HIDE DEF new, after
  <2>4. /\ after \in Seq(Group(H)) /\ Len(after) = Len(headers)
        /\ \A i \in 1..Len(headers) : after[i] = IF i = at THEN new ELSE headers[i]
    <3> HIDE DEF at
    <3> QED
      BY <1>3, <2>2, <2>3, ExceptSeq
  <2>5. after # <<>> /\ after[1] = IF at = 1 THEN new ELSE headers[1]
    BY <1>0, <2>4
  <2>6. CASE at = 1
    <3>1. old.name = NameOf(h) /\ old.list # <<>> /\ old.list[1] = h
      BY <2>6 DEF Leads
    <3>2. old.list \in Seq(H)
      BY <2>1 DEF Group
    <3> HIDE DEF old
    <3>3. new.list # <<>> /\ new.list[1] = h
      BY <2>2, <3>1, <3>2, EmptySeq
    <3> QED
      BY <2>2, <2>5, <2>6, <3>1, <3>3 DEF Leads, after
  <2>7. CASE at # 1
    BY <2>5, <2>7 DEF Leads, after
  <2> QED
    BY <2>6, <2>7
<1> QED
  BY <1>1, <1>2, <1>3

\* It leads still when others are appended.
LEMMA LeadsAll ==
    ASSUME NEW H, NEW headers \in Seq(Group(H)), NEW h, NEW hdrs \in Seq(H), Leads(headers, h)
    PROVE  Leads(AppendAll(headers, hdrs), h)
<1> DEFINE K == {s \in Seq(H) : Leads(AppendAll(headers, s), h)}
<1>1. <<>> \in K
  <2>1. AppendAll(headers, <<>>) = headers /\ <<>> \in Seq(H)
    BY AppendAllEmpty
  <2> QED
    BY <2>1
<1>2. ASSUME NEW s \in Seq(H), NEW x \in H, s \in K
      PROVE  Append(s, x) \in K
  <2> DEFINE a == AppendAll(headers, s)
  <2>1. Leads(a, h)
    BY <1>2
  <2> HIDE DEF K
  <2>2. a \in Seq(Group(H))
    BY AppendAllType
  <2>3. AppendAll(headers, Append(s, x)) = AppendHeader(a, x)
    BY AppendAllAppend
  <2> HIDE DEF a
  <2>4. Leads(AppendHeader(a, x), h)
    BY <2>1, <2>2, LeadsOn
  <2>5. Append(s, x) \in Seq(H)
    OBVIOUS
  <2> QED
    BY <2>3, <2>4, <2>5 DEF K
<1>3. Seq(H) \subseteq K
  <2> HIDE DEF K
  <2> QED
    BY <1>1, <1>2, SeqInduction
<1> QED
  BY <1>3

\* It leads still when a header of another name is replaced.
LEMMA LeadsReplaced ==
    ASSUME NEW H, NEW headers \in Seq(Group(H)), NEW h, NEW x \in H, Leads(headers, h),
           NameOf(x) # NameOf(h), GetHeaders(headers, NameOf(x)) # <<>>
    PROVE  Leads(ReplaceFirst(headers, x), h)
<1> DEFINE at == GroupAt(headers, NameOf(x))
           new == [headers[at] EXCEPT !.list[1] = x]
           after == ReplaceFirst(headers, x)
<1>1. at \in 1..Len(headers) /\ headers[at].name = NameOf(x)
  BY GroupAtIn DEF GetHeaders
<1>2. at # 1
  BY <1>1 DEF Leads
<1>3. after = [headers EXCEPT ![at] = new]
  BY <1>1 DEF ReplaceFirst
<1> HIDE DEF new, after, at
<1>4. after # <<>> /\ after[1] = headers[1]
  <2>1. DOMAIN after = DOMAIN headers /\ 1 \in DOMAIN headers
    BY <1>1, <1>3
  <2>2. after[1] = headers[1]
    BY <1>2, <1>3, <2>1
  <2>3. DOMAIN <<>> = {}
    OBVIOUS
  <2> QED
    BY <2>1, <2>2, <2>3
<1> QED
  BY <1>4 DEF Leads, after

\* What leads the first part of Flat leads the whole.
LEMMA FlatFirst ==
    ASSUME NEW T, NEW seqs \in Seq(Seq(T)), seqs # <<>>, seqs[1] # <<>>
    PROVE  Flat(seqs) # <<>> /\ Flat(seqs)[1] = seqs[1][1]
<1> DEFINE S == Seq(T)
           Good(s) == s # <<>> /\ s[1] # <<>> => Flat(s) # <<>> /\ Flat(s)[1] = s[1][1]
           K == {s \in Seq(S) : Good(s)}
<1>1. <<>> \in K
  OBVIOUS
<1>2. ASSUME NEW s \in Seq(S), NEW t \in S, s \in K
      PROVE  Append(s, t) \in K
  <2> DEFINE f == Flat(s)
             r == Append(s, t)
  <2>1. Good(s)
    BY <1>2
  <2> HIDE DEF K
  <2>2. f \in Seq(T) /\ Flat(r) = f \o t
    BY FlatType, FlatAppend
  <2>3. r \in Seq(S) /\ Len(r) = Len(s) + 1 /\ (s # <<>> => r[1] = s[1]) /\ (s = <<>> => r[1] = t)
    BY EmptySeq
  <2>4. s = <<>> => f = <<>>
    BY FlatEmpty
  <2> HIDE DEF f, r
  <2>5. CASE s = <<>>
    <3>1. Flat(r) = t
      BY <2>2, <2>4, <2>5, CatEmpty
    <3> QED
      BY <2>3, <2>5, <3>1 DEF K, r
  <2>6. CASE s # <<>>
    <3> SUFFICES ASSUME r[1] # <<>> PROVE Flat(r) # <<>> /\ Flat(r)[1] = r[1][1]
      BY <2>3 DEF K, r
    <3>1. f # <<>> /\ f[1] = r[1][1]
      BY <2>1, <2>3, <2>6 DEF f
    <3>2. Len(f) \in Nat \ {0} /\ t \in Seq(T)
      BY <2>2, <3>1, EmptySeq
    <3>3. Len(f \o t) # 0 /\ (f \o t)[1] = f[1]
      BY <2>2, <3>2
    <3>4. f \o t # <<>>
      BY <3>3
    <3> QED
      BY <2>2, <3>1, <3>3, <3>4
  <2> QED
    BY <2>5, <2>6
<1>3. Seq(S) \subseteq K
  <2> HIDE DEF K
  <2> QED
    BY <1>1, <1>2, SeqInduction
<1>4. Good(seqs)
  BY <1>3
<1> QED
  BY <1>4

\* AllHeaders gives headers.
LEMMA AllHeadersType ==
    ASSUME NEW H, NEW headers \in Seq(Group(H))
    PROVE  AllHeaders(headers) \in Seq(H)
<1> DEFINE lists == [i \in DOMAIN headers |-> headers[i].list]
<1>1. AllHeaders(headers) = Flat(lists)
  BY DEF AllHeaders, Each
<1>2. lists \in Seq(Seq(H))
  <2>0. \A i \in 1..Len(headers) : headers[i] \in Group(H)
    BY ElementOfSeq
  <2>1. \A i \in 1..Len(headers) : headers[i].list \in Seq(H)
    BY <2>0 DEF Group
  <2>2. DOMAIN headers = 1..Len(headers) /\ Len(headers) \in Nat
    OBVIOUS
  <2> QED
    BY <2>1, <2>2
<1> HIDE DEF lists
<1> QED
  BY <1>1, <1>2, FlatType

\* The header that leads the groups is written first.
LEMMA AllLead ==
    ASSUME NEW H, NEW headers \in Seq(Group(H)), NEW h, Leads(headers, h)
    PROVE  AllHeaders(headers) # <<>> /\ AllHeaders(headers)[1] = h
<1> DEFINE lists == [i \in DOMAIN headers |-> headers[i].list]
<1>1. AllHeaders(headers) = Flat(lists)
  BY DEF AllHeaders, Each
<1>2. DOMAIN headers = 1..Len(headers) /\ Len(headers) \in Nat \ {0}
  BY EmptySeq DEF Leads
<1>3. lists \in Seq(Seq(H)) /\ lists # <<>> /\ lists[1] = headers[1].list
  <2>0. \A i \in 1..Len(headers) : headers[i] \in Group(H)
    BY ElementOfSeq
  <2>1. \A i \in 1..Len(headers) : headers[i].list \in Seq(H)
    BY <2>0 DEF Group
  <2>2. lists \in Seq(Seq(H)) /\ Len(lists) # 0 /\ lists[1] = headers[1].list
    BY <1>2, <2>1
  <2> QED
    BY <2>2
<1> HIDE DEF lists
<1>4. lists[1] # <<>> /\ lists[1][1] = h
  BY <1>3 DEF Leads
<1> QED
  BY <1>1, <1>3, <1>4, FlatFirst

-----------------------------------------------------------------------------
(* Tokens.  A literal within a sequence is beyond the provers: the tokens of *)
(* the text have names here, which are expanded only to tell them apart.     *)

Space == " "
Tab == "\t"
Colon == ":"
Semi == ";"
Comma == ","
Slash == "/"
Langle == "<"
Rangle == ">"
Quote == "\""
AtSign == "@"
Equals == "="
QMark == "?"
Empty == ""
MarkSet == {Space, Tab, Colon, Semi, Comma, Slash, Langle, Rangle, Quote, AtSign, Equals, QMark,
            Empty}

SipWord == "sip"
SIPWord == "SIP"
NumberWord == "2.0"
TCPWord == "TCP"
PeerWord == "peer"
PortWord == "5060"
BranchWord == "branch"
TagWord == "tag"
DWord == "d"
PlatformWord == "platform"
DomainWord == "domain"
ProxyWord == "proxy"
LrWord == "lr"
RegisterWord == "REGISTER"
MessageWord == "MESSAGE"
RegWord == "reg"
FixedWords == {SipWord, SIPWord, NumberWord, TCPWord, PeerWord, PortWord, BranchWord, TagWord,
               DWord, PlatformWord, DomainWord, ProxyWord, LrWord, RegisterWord, MessageWord, RegWord,
               Version}

ViaName == "Via"
FromName == "From"
ToName == "To"
CallName == "Call-ID"
CSeqName == "CSeq"
RouteName == "Record-Route"
AuthName == "Authorization"
ExpiresName == "Expires"
LengthName == "Content-Length"
ShortName == "l"
NameWords == {ViaName, FromName, ToName, CallName, CSeqName, RouteName, AuthName, ExpiresName,
              LengthName, ShortName}

UserKey == "username"
RealmKey == "realm"
NonceKey == "nonce"
UriKey == "uri"
QopKey == "qop"
NcKey == "nc"
CnonceKey == "cnonce"
ResponseKey == "response"
DeviceWord == "device"
NWord == "n"
UWord == "u"
AuthWord == "auth"
OneWord == "1"
CWord == "c"
DigestWords == {UserKey, RealmKey, NonceKey, UriKey, QopKey, NcKey, CnonceKey, ResponseKey,
                DeviceWord, NWord, UWord, AuthWord, OneWord, CWord}

Token == STRING \cup MarkSet \cup FixedWords \cup NameWords \cup DigestWords
Word == Token \ MarkSet

\* The marks are tokens.
LEMMA MarksAreTokens ==
    /\ Space \in Token /\ Tab \in Token /\ Colon \in Token /\ Semi \in Token /\ Comma \in Token
    /\ Slash \in Token /\ Langle \in Token /\ Rangle \in Token /\ Quote \in Token
    /\ AtSign \in Token /\ Equals \in Token /\ QMark \in Token /\ SipWord \in Token
  BY DEF Token, MarkSet, FixedWords

\* No two marks are the same, and none is the scheme.
LEMMA MarksDiffer ==
    /\ Space \notin {Tab, Colon, Semi, Comma, Slash, Langle, Rangle, Quote, AtSign, Equals, QMark}
    /\ Tab \notin {Colon, Semi, Comma, Slash, Langle, Rangle, Quote, AtSign, Equals, QMark}
    /\ Colon \notin {Semi, Comma, Slash, Langle, Rangle, Quote, AtSign, Equals, QMark}
    /\ Semi \notin {Comma, Slash, Langle, Rangle, Quote, AtSign, Equals, QMark}
    /\ Comma \notin {Slash, Langle, Rangle, Quote, AtSign, Equals, QMark}
    /\ Slash \notin {Langle, Rangle, Quote, AtSign, Equals, QMark}
    /\ Langle \notin {Rangle, Quote, AtSign, Equals, QMark}
    /\ Rangle \notin {Quote, AtSign, Equals, QMark}
    /\ Quote \notin {AtSign, Equals, QMark}
    /\ AtSign \notin {Equals, QMark} /\ Equals # QMark
    /\ SipWord \notin MarkSet
  BY DEF Space, Tab, Colon, Semi, Comma, Slash, Langle, Rangle, Quote, AtSign, Equals, QMark, Empty,
         MarkSet, SipWord

\* The fixed words are words and no marks.
LEMMA FixedAreWords == FixedWords \cup NameWords \cup DigestWords \subseteq Word
<1>1. FixedWords \cap MarkSet = {}
  BY DEF FixedWords, MarkSet, Space, Tab, Colon, Semi, Comma, Slash, Langle, Rangle, Quote, AtSign,
         Equals, QMark, Empty, SipWord, SIPWord, NumberWord, TCPWord, PeerWord,
         PortWord, BranchWord, TagWord, DWord, PlatformWord, DomainWord, ProxyWord, LrWord, RegisterWord,
         MessageWord, RegWord, Version
<1>2. NameWords \cap MarkSet = {}
  BY DEF NameWords, MarkSet, Space, Tab, Colon, Semi, Comma, Slash, Langle, Rangle, Quote, AtSign,
         Equals, QMark, Empty, ViaName, FromName, ToName, CallName, CSeqName,
         RouteName, AuthName, ExpiresName, LengthName, ShortName
<1>3. DigestWords \cap MarkSet = {}
  BY DEF DigestWords, MarkSet, Space, Tab, Colon, Semi, Comma, Slash, Langle, Rangle, Quote, AtSign,
         Equals, QMark, Empty, UserKey, RealmKey, NonceKey, UriKey, QopKey, NcKey,
         CnonceKey, ResponseKey, DeviceWord, NWord, UWord, AuthWord, OneWord, CWord
<1> QED
  BY <1>1, <1>2, <1>3 DEF Word, Token

\* A word is a token and no mark.
LEMMA WordIs ==
    ASSUME NEW w \in Word
    PROVE  /\ w \in Token
           /\ w \notin {Space, Tab, Colon, Semi, Comma, Slash, Langle, Rangle, Quote, AtSign,
                        Equals, QMark, Empty}
  BY DEF Word, MarkSet

\* The blanks are two marks.
LEMMA BlankIs == Blank = {Space, Tab}
  BY DEF Blank, Space, Tab

-----------------------------------------------------------------------------
(* URIs *)

\* The text of a URI of a user at a host.
UriOf(u, h) == <<SipWord, Colon, u, AtSign, h>>

\* The tokens of a URI.
LEMMA UriOfIs ==
    ASSUME NEW u \in Word, NEW h \in Word, NEW text, text = UriOf(u, h)
    PROVE  /\ text \in Seq(Token) /\ Len(text) = 5
           /\ text[1] = SipWord /\ text[2] = Colon /\ text[3] = u /\ text[4] = AtSign /\ text[5] = h
  BY MarksAreTokens, WordIs DEF UriOf

\* A stretch of one element.
LEMMA SubOne ==
    ASSUME NEW T, NEW s \in Seq(T), NEW i \in 1..Len(s)
    PROVE  SubSeq(s, i, i) = <<s[i]>>
<1> DEFINE r == SubSeq(s, i, i)
           o == <<s[i]>>
<1>0. i \in 1..(Len(s) + 1) /\ i \in (i - 1)..Len(s) /\ i - i + 1 = 1 /\ 1 \in 1..(i - i + 1)
      /\ i + 1 - 1 = i
  OBVIOUS
<1>1. r \in Seq(T) /\ Len(r) = 1
  BY <1>0, SubType
<1>2. r[1] = s[i]
  <2>1. r[1] = s[i + 1 - 1]
    BY <1>0, SubAt
  <2> QED
    BY <1>0, <2>1
<1>3. o \in Seq(T) /\ Len(o) = 1 /\ o[1] = s[i]
  BY ElementOfSeq
<1> HIDE DEF r, o
<1>4. \A j \in 1..Len(r) : r[j] = o[j]
  BY <1>1, <1>2, <1>3
<1>5. r = o
  BY <1>1, <1>3, <1>4, SameSeq
<1> QED
  BY <1>5 DEF r, o

\* Without parameters there is nothing to read.
LEMMA ParseNoParams ==
    ASSUME NEW start, NEW sep, NEW end, NEW quoteValues, NEW permitSingletons
    PROVE  ParseParams(<<>>, start, sep, end, quoteValues, permitSingletons) =
                [params |-> <<>>, used |-> 0, err |-> FALSE]
  BY DEF ParseParams

\* A word is read as a host without a port.
LEMMA ParsePlainHost ==
    ASSUME NEW h \in Word
    PROVE  ParseHostPort(<<h>>) = [host |-> <<h>>, port |-> Nil, err |-> FALSE]
<1>1. <<h>> \in Seq(Token) /\ Free(<<h>>, {Colon})
  BY WordIs DEF Free
<1>2. FirstOf(<<h>>, {Colon}) = 0
  BY <1>1, FirstNone
<1> DEFINE text == <<h>>
<1>3. FirstOf(text, {":"}) = 0
  BY <1>2 DEF Colon
<1> HIDE DEF text
<1>4. ParseHostPort(text) = [host |-> text, port |-> Nil, err |-> FALSE]
  BY <1>3 DEF ParseHostPort
<1> QED
  BY <1>4 DEF text

\* A word is read as a user without a password.
LEMMA ParsePlainUser ==
    ASSUME NEW u \in Word
    PROVE  ParseUserInfo(<<u>>) = [user |-> Some(<<u>>), password |-> Nil]
<1>1. <<u>> \in Seq(Token) /\ Free(<<u>>, {Colon})
  BY WordIs DEF Free
<1>2. FirstOf(<<u>>, {Colon}) = 0
  BY <1>1, FirstNone
<1> DEFINE text == <<u>>
<1>3. FirstOf(text, {":"}) = 0
  BY <1>2 DEF Colon
<1> HIDE DEF text
<1>4. ParseUserInfo(text) = [user |-> Some(text), password |-> Nil]
  BY <1>3 DEF ParseUserInfo
<1> QED
  BY <1>4 DEF text

\* A word starts neither parameters nor headers.
LEMMA NoMark ==
    ASSUME NEW h \in Word
    PROVE  Mark(<<h>>) = 0
<1>1. /\ <<h>> \in Seq(Token) /\ Free(<<h>>, {Semi}) /\ Free(<<h>>, {QMark})
  BY WordIs DEF Free
<1>2. FirstOf(<<h>>, {Semi}) = 0 /\ FirstOf(<<h>>, {QMark}) = 0
  BY <1>1, FirstNone
<1> DEFINE text == <<h>>
<1>3. FirstOf(text, {";"}) = 0 /\ FirstOf(text, {"?"}) = 0
  BY <1>2 DEF Semi, QMark
<1> HIDE DEF text
<1>4. Mark(text) = 0
  BY <1>3 DEF Mark
<1> QED
  BY <1>4 DEF text

\* A URI that ends with its host.
LEMMA ParseBareHost ==
    ASSUME NEW h \in Word, NEW encrypted, NEW info
    PROVE  ParseAfterUser(encrypted, info, CutAt(<<h>>, 0)) =
              [err |-> FALSE,
               uri |-> [encrypted |-> encrypted, user |-> info.user, password |-> info.password,
                        host |-> <<h>>, port |-> Nil, params |-> Some(<<>>),
                        headers |-> Some(<<>>)]]
<1> DEFINE none == [params |-> <<>>, used |-> 0, err |-> FALSE]
           cut == CutAt(<<h>>, 0)
           host == <<h>>
<1>1. cut.head = host /\ cut.tail = <<>>
  BY DEF CutAt
<1>2. After(<<>>, 0) = <<>>
  BY DEF After
<1>3. ParseParams(<<>>, ";", ";", "?", TRUE, TRUE) = none
      /\ ParseParams(<<>>, "?", "&", "", TRUE, FALSE) = none
  BY ParseNoParams
<1>4. ParseHostPort(host) = [host |-> host, port |-> Nil, err |-> FALSE]
  BY ParsePlainHost
<1>5. none.used = 0 /\ none.params = <<>> /\ none.err = FALSE /\ Len(<<>>) = 0
  OBVIOUS
<1> HIDE DEF cut, host, none
<1>6. ParseAfterUser(encrypted, info, cut) = ParseHeadersOfURI(encrypted, info, cut, none)
  BY <1>1, <1>3 DEF ParseAfterUser
<1>7. ParseHeadersOfURI(encrypted, info, cut, none) =
        URIOf(encrypted, info, ParseHostPort(host), <<>>, none, none)
  BY <1>1, <1>2, <1>3, <1>5 DEF ParseHeadersOfURI
<1>8. URIOf(encrypted, info, [host |-> host, port |-> Nil, err |-> FALSE], <<>>, none, none) =
        [err |-> FALSE,
         uri |-> [encrypted |-> encrypted, user |-> info.user, password |-> info.password,
                  host |-> host, port |-> Nil, params |-> Some(<<>>), headers |-> Some(<<>>)]]
  BY <1>5 DEF URIOf
<1> QED
  BY <1>4, <1>6, <1>7, <1>8 DEF cut, host

\* ParseSipURI reads the URI of a user at a host.
LEMMA ParseSipURIOf ==
    ASSUME NEW u \in Word, NEW h \in Word
    PROVE  ParseSipURI(UriOf(u, h)) = [err |-> FALSE, uri |-> NewURI(Some(<<u>>), <<h>>, Nil)]
<1> DEFINE text == UriOf(u, h)
           info == [user |-> Some(<<u>>), password |-> Nil]
           host == <<h>>
<1>1. /\ text \in Seq(Token) /\ Len(text) = 5
      /\ text[1] = SipWord /\ text[2] = Colon /\ text[3] = u /\ text[4] = AtSign /\ text[5] = h
  BY UriOfIs
<1> HIDE DEF text
<1>2. u \in Token /\ h \in Token
  BY WordIs
<1>3. FirstOf(text, {AtSign}) = 4
  <2>1. \A j \in 1..(4 - 1) : text[j] \notin {AtSign}
    BY <1>1, WordIs, MarksDiffer DEF MarkSet
  <2>2. 4 \in 1..Len(text) /\ text[4] \in {AtSign}
    BY <1>1
  <2> QED
    BY <1>1, <2>1, <2>2, FirstIs
<1>4. SubSeq(text, 5, 5) = <<text[5]>> /\ SubSeq(text, 3, 3) = <<text[3]>>
  <2>1. 5 \in 1..Len(text) /\ 3 \in 1..Len(text)
    BY <1>1
  <2> QED
    BY <1>1, <2>1, SubOne
<1>5. After(text, 4) = host /\ SubSeq(text, 3, 3) = <<u>>
  BY <1>1, <1>4 DEF After
<1>6. ParseUserInfo(SubSeq(text, 3, 3)) = info
  BY <1>5, ParsePlainUser
<1>7. Mark(host) = 0
  BY NoMark
<1>8. ParseAfterUser(FALSE, info, CutAt(host, 0)) =
              [err |-> FALSE,
               uri |-> [encrypted |-> FALSE, user |-> info.user, password |-> info.password,
                        host |-> host, port |-> Nil, params |-> Some(<<>>),
                        headers |-> Some(<<>>)]]
  BY ParseBareHost
<1>9. [err |-> FALSE,
       uri |-> [encrypted |-> FALSE, user |-> info.user, password |-> info.password,
                host |-> host, port |-> Nil, params |-> Some(<<>>), headers |-> Some(<<>>)]]
      = [err |-> FALSE, uri |-> NewURI(Some(<<u>>), host, Nil)]
  <2>1. info.user = Some(<<u>>) /\ info.password = Nil
    OBVIOUS
  <2> HIDE DEF info, host
  <2> QED
    BY <2>1 DEF NewURI
<1> HIDE DEF host, info
<1>10. /\ text[1] \in {"sip", "sips"} /\ text[1] # "sips" /\ text[2] = ":"
       /\ ~(Len(text) < 2)
  BY <1>1 DEF SipWord, Colon
<1>11. FirstOf(text, {"@"}) = 4
  BY <1>3 DEF AtSign
<1>12. ParseSipURI(text) = ParseAfterUser(FALSE, ParseUserInfo(SubSeq(text, 3, 3)),
                                          CutAt(After(text, 4), Mark(After(text, 4))))
  <2>1. ParseSipURI(text) = ParseAfterUser(text[1] = "sips", ParseUserInfo(SubSeq(text, 3, 4 - 1)),
                                           CutAt(After(text, 4), Mark(After(text, 4))))
    BY <1>10, <1>11 DEF ParseSipURI
  <2>2. (text[1] = "sips") = FALSE /\ 4 - 1 = 3
    BY <1>10
  <2> QED
    BY <2>1, <2>2
<1> QED
  BY <1>5, <1>6, <1>7, <1>8, <1>9, <1>12 DEF text, host

\* ParseURI leaves a text with the scheme sip to ParseSipURI.
LEMMA ParseSchemed ==
    ASSUME NEW text \in Seq(Token), Len(text) \in Nat \ {0, 1}, text[1] = SipWord, text[2] = Colon,
           text[Len(text)] \notin Blank
    PROVE  ParseURI(text) = ParseSipURI(text)
<1>1. Trim(text) = text
  <2>1. text[1] \notin Blank
    <3>1. SipWord \notin Blank
      BY DEF SipWord, Blank
    <3> QED
      BY <3>1
  <2>2. text # <<>>
    OBVIOUS
  <2> QED
    BY <2>1, <2>2, TrimInk
<1>2. FirstOf(text, {Colon}) = 2
  <2>1. \A j \in 1..(2 - 1) : text[j] \notin {Colon}
    <3>1. SipWord \notin {Colon}
      BY DEF SipWord, Colon
    <3> QED
      BY <3>1
  <2>2. 2 \in 1..Len(text)
    <3>1. \A n \in Nat \ {0, 1} : 2 \in 1..n
      OBVIOUS
    <3> QED
      BY <3>1
  <2>3. text[2] \in {Colon}
    OBVIOUS
  <2> QED
    BY <2>1, <2>2, <2>3, FirstIs
<1>3. text[1] \in {"sip", "sips"} /\ text[1] # "*"
  BY DEF SipWord
<1>4. Trim(text) # <<"*">>
  <2> DEFINE star == "*"
             o == <<star>>
  <2>1. o[1] = star
    OBVIOUS
  <2>2. text[1] # star
    BY <1>3
  <2> HIDE DEF o, star
  <2>3. text # o
    BY <2>1, <2>2
  <2> QED
    BY <1>1, <2>3 DEF o, star
<1>5. FirstOf(text, {":"}) = 2
  BY <1>2 DEF Colon
<1> QED
  BY <1>3, <1>4, <1>5 DEF ParseURI

\* ParseURI reads the URI of a user at a host.
LEMMA ParseURIOf ==
    ASSUME NEW u \in Word, NEW h \in Word
    PROVE  ParseURI(UriOf(u, h)) = [err |-> FALSE, uri |-> NewURI(Some(<<u>>), <<h>>, Nil)]
<1> DEFINE text == UriOf(u, h)
<1>1. /\ text \in Seq(Token) /\ Len(text) = 5
      /\ text[1] = SipWord /\ text[2] = Colon /\ text[3] = u /\ text[4] = AtSign /\ text[5] = h
  BY UriOfIs
<1>2. text[Len(text)] \notin Blank
  BY <1>1, WordIs, BlankIs
<1>3. ParseSipURI(text) = [err |-> FALSE, uri |-> NewURI(Some(<<u>>), <<h>>, Nil)]
  BY ParseSipURIOf
<1>4. Len(text) \in Nat \ {0, 1}
  BY <1>1
<1> HIDE DEF text
<1>5. ParseURI(text) = ParseSipURI(text)
  BY <1>1, <1>2, <1>4, ParseSchemed
<1> QED
  BY <1>3, <1>5 DEF text

\* The written form of the same URI.
LEMMA UriTextOf ==
    ASSUME NEW u \in Word, NEW h \in Word
    PROVE  UriText(NewURI(Some(<<u>>), <<h>>, Nil)) = UriOf(u, h)
<1> DEFINE uri == NewURI(Some(<<u>>), <<h>>, Nil)
           name == <<u>>
           host == <<h>>
<1>1. /\ uri.encrypted = FALSE /\ uri.user = Some(name) /\ uri.password = Nil
      /\ uri.host = host /\ uri.port = Nil /\ uri.params = Some(<<>>) /\ uri.headers = Some(<<>>)
  BY DEF NewURI
<1>2. name # <<>> /\ host # <<>>
  OBVIOUS
<1> HIDE DEF uri, name, host
<1>3. Shown(uri.user) /\ ~Shown(uri.password) /\ uri.user[1] = name
  BY <1>1, <1>2 DEF Shown, Some, Nil
<1>4. TailText(uri.params, ";", ";") = <<>> /\ TailText(uri.headers, "?", "&") = <<>>
  BY <1>1 DEF TailText, Some
<1>5. UriText(uri) = <<SipWord, Colon>> \o (name \o <<>> \o <<AtSign>>) \o host \o <<>> \o <<>>
            \o <<>>
  BY <1>1, <1>3, <1>4 DEF UriText, SipWord, Colon, AtSign, Nil
<1> DEFINE a == <<SipWord, Colon>>
           b == <<AtSign>>
           c == name \o <<>> \o b
<1>6. a \in Seq(Token) /\ b \in Seq(Token) /\ name \in Seq(Token) /\ host \in Seq(Token)
  BY MarksAreTokens, WordIs DEF name, host
<1>7. a[1] = SipWord /\ a[2] = Colon /\ Len(a) = 2 /\ b[1] = AtSign /\ Len(b) = 1
      /\ name[1] = u /\ Len(name) = 1 /\ host[1] = h /\ Len(host) = 1
  BY DEF name, host
<1> HIDE DEF a, b
<1>8. name \o <<>> = name
  BY <1>6, CatEmpty
<1>9. c \in Seq(Token) /\ Len(c) = 2 /\ c[1] = u /\ c[2] = AtSign
  <2>1. c = name \o b
    BY <1>8
  <2> HIDE DEF c
  <2>2. c \in Seq(Token) /\ Len(c) = 1 + 1
    <3>1. name \in Seq(Token) /\ b \in Seq(Token) /\ Len(name) = 1 /\ Len(b) = 1
      BY <1>6, <1>7
    <3>2. name \o b \in Seq(Token) /\ Len(name \o b) = 1 + 1
      BY <3>1, CatType
    <3> QED
      BY <2>1, <3>2
  <2>3. 1 \in 1..Len(name) /\ 1 \in 1..Len(b)
    BY <1>7
  <2>4. c[1] = name[1]
    BY <1>6, <2>1, <2>3, CatLeft
  <2>5. c[Len(name) + 1] = b[1]
    BY <1>6, <2>1, <2>3, CatRight
  <2> QED
    BY <1>7, <2>2, <2>4, <2>5
<1> HIDE DEF c
<1> DEFINE d == a \o c
           e == d \o host
<1>10. d \in Seq(Token) /\ Len(d) = 4 /\ d[1] = SipWord /\ d[2] = Colon /\ d[3] = u /\ d[4] = AtSign
  <2>0. a \in Seq(Token) /\ c \in Seq(Token) /\ Len(a) = 2 /\ Len(c) = 2
    BY <1>6, <1>7, <1>9
  <2>1. d \in Seq(Token) /\ Len(d) = 2 + 2
    <3>1. a \in Seq(Token) /\ c \in Seq(Token)
      BY <2>0
    <3>2. a \o c \in Seq(Token) /\ Len(a \o c) = Len(a) + Len(c)
      BY <3>1, CatType
    <3> QED
      BY <2>0, <3>2
  <2>2. \A i \in 1..Len(a) : d[i] = a[i]
    <3>1. a \in Seq(Token) /\ c \in Seq(Token)
      BY <2>0
    <3>2. ASSUME NEW i \in 1..Len(a) PROVE (a \o c)[i] = a[i]
      BY <3>1, CatLeft
    <3> QED
      BY <3>2
  <2>3. \A i \in 1..Len(c) : d[Len(a) + i] = c[i]
    <3>1. a \in Seq(Token) /\ c \in Seq(Token)
      BY <2>0
    <3>2. ASSUME NEW i \in 1..Len(c) PROVE (a \o c)[Len(a) + i] = c[i]
      BY <3>1, CatRight
    <3> QED
      BY <3>2
  <2> HIDE DEF d
  <2>4. d[1] = a[1] /\ d[2] = a[2] /\ d[2 + 1] = c[1] /\ d[2 + 2] = c[2]
    BY <2>0, <2>2, <2>3
  <2> QED
    BY <1>7, <1>9, <2>1, <2>4
<1> HIDE DEF d
<1>11. e \in Seq(Token) /\ Len(e) = 5 /\ e[1] = SipWord /\ e[2] = Colon /\ e[3] = u /\ e[4] = AtSign
       /\ e[5] = h
  <2>0. d \in Seq(Token) /\ host \in Seq(Token) /\ Len(d) = 4 /\ Len(host) = 1
    BY <1>6, <1>7, <1>10
  <2>a. d \in Seq(Token)
    BY <1>10
  <2>b. host \in Seq(Token)
    BY <1>6
  <2>2. /\ e \in Seq(Token) /\ Len(e) = Len(d) + Len(host)
        /\ \A i \in 1..Len(d) : e[i] = d[i]
        /\ \A i \in 1..Len(host) : e[Len(d) + i] = host[i]
    BY <2>a, <2>b, CatIs
  <2>3. e[1] = d[1] /\ e[2] = d[2] /\ e[3] = d[3] /\ e[4] = d[4]
    <3>1. 1 \in 1..4 /\ 2 \in 1..4 /\ 3 \in 1..4 /\ 4 \in 1..4
      OBVIOUS
    <3> QED
      BY <2>0, <2>2, <3>1
  <2>4. e[4 + 1] = host[1]
    <3>1. 1 \in 1..1
      OBVIOUS
    <3> QED
      BY <2>0, <2>2, <3>1
  <2> QED
    BY <1>7, <1>10, <2>0, <2>2, <2>3, <2>4
<1> HIDE DEF e
<1>12. e \o <<>> \o <<>> \o <<>> = e
  BY <1>11, CatEmpty
<1>13. e = UriOf(u, h)
  <2> DEFINE t == UriOf(u, h)
  <2>1. /\ t \in Seq(Token) /\ Len(t) = 5
        /\ t[1] = SipWord /\ t[2] = Colon /\ t[3] = u /\ t[4] = AtSign /\ t[5] = h
    BY UriOfIs
  <2> HIDE DEF t
  <2>2. \A i \in 1..Len(e) : e[i] = t[i]
    BY <1>11, <2>1
  <2>3. e = t
    BY <1>11, <2>1, <2>2, SameSeq
  <2> QED
    BY <2>3 DEF t
<1> QED
  BY <1>5, <1>12, <1>13 DEF a, b, c, d, e, uri, host

-----------------------------------------------------------------------------
(* Lines *)

\* The blank after a colon is trimmed.
LEMMA TrimSpaced ==
    ASSUME NEW text \in Seq(Token), text # <<>>, text[1] \notin Blank, text[Len(text)] \notin Blank
    PROVE  Trim(Cons(Space, text)) = text
<1> DEFINE u == Cons(Space, text)
           ink == {i \in DOMAIN u : u[i] \notin Blank}
           n == Len(text)
<1>1. n \in Nat \ {0}
  BY EmptySeq
<1>2. Space \in Token
  BY MarksAreTokens
<1>3. u \in Seq(Token) /\ Len(u) = n + 1 /\ u[1] = Space /\ After(u, 1) = text
  BY <1>2, ConsIs
<1>4. \A i \in 1..n : u[i + 1] = text[i]
  BY <1>2, ConsAt
<1> HIDE DEF u, n
<1>5. DOMAIN u = 1..(n + 1)
  BY <1>3
<1>6. Space \in Blank
  BY DEF Space, Blank
<1>7. 2 \in ink /\ n + 1 \in ink
  <2>1. u[1 + 1] = text[1] /\ u[n + 1] = text[n]
    BY <1>1, <1>4
  <2> QED
    BY <1>1, <1>5, <2>1 DEF n
<1>8. \A i \in ink : 2 <= i /\ i <= n + 1
  <2> SUFFICES ASSUME NEW i \in ink PROVE 2 <= i /\ i <= n + 1
    OBVIOUS
  <2>1. i \in 1..(n + 1) /\ i # 1
    BY <1>1, <1>3, <1>5, <1>6
  <2> QED
    BY <1>1, <2>1
<1>9. ink \in SUBSET Int
  BY <1>1, <1>5
<1>10. Trim(u) = IF ink = {} THEN <<>> ELSE SubSeq(u, Min(ink), Max(ink))
  BY DEF Trim
<1> HIDE DEF ink
<1>11. Min(ink) = 2 /\ Max(ink) = n + 1
  <2>1. 2 \in ink
    BY <1>7
  <2>2. n + 1 \in ink
    BY <1>7
  <2> QED
    BY <1>8, <1>9, <2>1, <2>2, MinIs, MaxIs
<1>12. Trim(u) = SubSeq(u, 2, n + 1)
  BY <1>1, <1>7, <1>10, <1>11
<1>13. After(u, 1) = SubSeq(u, 1 + 1, n + 1)
  BY <1>3 DEF After
<1>14. Trim(u) = text
  BY <1>3, <1>12, <1>13
<1> QED
  BY <1>14 DEF u

\* The line of a header as a message writes it.
HeaderLine(name, text) == Cons(name, Cons(Colon, Cons(Space, text)))

\* The tokens of a header line.
LEMMA HeaderLineIs ==
    ASSUME NEW name \in Token, NEW text \in Seq(Token)
    PROVE  /\ HeaderLine(name, text) \in Seq(Token) /\ HeaderLine(name, text) # <<>>
           /\ HeaderLine(name, text)[1] = name
<1>1. Space \in Token /\ Colon \in Token
  BY MarksAreTokens
<1>2. Cons(Space, text) \in Seq(Token)
  BY <1>1, ConsIs
<1>3. Cons(Colon, Cons(Space, text)) \in Seq(Token)
  BY <1>1, <1>2, ConsIs
<1> QED
  BY <1>3, ConsIs DEF HeaderLine

\* ParseHeader leaves the value of a line to the parser of its name, in full.
LEMMA ParseLine ==
    ASSUME NEW name \in Token \ {Colon}, NEW text \in Seq(Token), text # <<>>,
           text[1] \notin Blank, text[Len(text)] \notin Blank
    PROVE  ParseHeader(HeaderLine(name, text)) = ParseValue(FullName(name), text)
<1> DEFINE s == Cons(Space, text)
           r == Cons(Colon, s)
           line == Cons(name, r)
<1>1. Space \in Token /\ Colon \in Token /\ name \in Token
  BY MarksAreTokens
<1>2. Trim(s) = text
  BY TrimSpaced
<1>3. s \in Seq(Token)
  BY <1>1, ConsIs
<1>4. Len(s) \in Nat
  BY <1>3
<1> HIDE DEF s
<1>5. r \in Seq(Token) /\ Len(r) = Len(s) + 1 /\ After(r, 1) = s
  BY <1>1, <1>3, ConsIs
<1>6. FirstOf(r, {Colon}) = 1
  BY <1>1, <1>3, ConsFirst
<1> HIDE DEF r
<1>7. r \in Seq(Token) /\ 1 \in 0..Len(r)
  BY <1>4, <1>5
<1>8. FirstOf(line, {Colon}) = 1 + 1
  BY <1>1, <1>6, <1>7, ConsFirst
<1>9. After(line, 1 + 1) = s
  BY <1>1, <1>5, <1>7, ConsAfter
<1>10. line[1] = name
  BY <1>1, <1>7, ConsIs
<1>11. HeaderLine(name, text) = line
  BY DEF HeaderLine, r, s
<1> HIDE DEF line
<1>12. FirstOf(line, {":"}) = 2
  BY <1>8 DEF Colon
<1>13. ParseHeader(line) = ParseValue(FullName(line[1]), Trim(After(line, 2)))
  BY <1>12 DEF ParseHeader
<1> QED
  BY <1>2, <1>9, <1>10, <1>11, <1>13



-----------------------------------------------------------------------------
(* What the functions on texts give, for texts over any tokens *)

\* A stretch of a text is a text over the same tokens.
LEMMA StretchType ==
    ASSUME NEW T, NEW s \in Seq(T), NEW m \in Nat \ {0}, NEW n \in Int, n <= Len(s)
    PROVE  SubSeq(s, m, n) \in Seq(T)
  OBVIOUS

\* So is what follows its n-th token.
LEMMA AfterType ==
    ASSUME NEW T, NEW s \in Seq(T), NEW n \in Nat
    PROVE  After(s, n) \in Seq(T)
<1>1. n + 1 \in Nat \ {0} /\ Len(s) \in Int /\ Len(s) <= Len(s)
  OBVIOUS
<1> QED
  BY <1>1, StretchType DEF After

\* So is what comes before its n-th token.
LEMMA UptoType ==
    ASSUME NEW T, NEW s \in Seq(T), NEW n \in Int, n <= Len(s)
    PROVE  Upto(s, n) \in Seq(T)
<1>1. 1 \in Nat \ {0}
  OBVIOUS
<1> QED
  BY <1>1, StretchType DEF Upto

\* FirstOf gives a place in the text, or 0.
LEMMA FirstType ==
    ASSUME NEW T, NEW text \in Seq(T), NEW tokens
    PROVE  FirstOf(text, tokens) \in 0..Len(text)
<1> DEFINE f == FirstOf(text, tokens)
<1>1. Len(text) \in Nat
  OBVIOUS
<1>2. f = 0 \/ f \in 1..Len(text)
  BY FirstIn
<1> QED
  BY <1>1, <1>2

\* Both sides of a cut are texts over the same tokens.
LEMMA CutType ==
    ASSUME NEW T, NEW text \in Seq(T), NEW i \in 0..Len(text)
    PROVE  CutAt(text, i).head \in Seq(T) /\ CutAt(text, i).tail \in Seq(T)
<1>1. CASE i = 0
  BY <1>1, EmptySeq DEF CutAt
<1>2. CASE i # 0
  <2>1. i - 1 \in Nat /\ i - 1 \in Int /\ i - 1 <= Len(text)
    BY <1>2
  <2>2. Upto(text, i - 1) \in Seq(T) /\ After(text, i - 1) \in Seq(T)
    BY <2>1, UptoType, AfterType
  <2> QED
    BY <1>2, <2>2 DEF CutAt
<1> QED
  BY <1>1, <1>2

\* So is a trimmed text.
LEMMA TrimType ==
    ASSUME NEW T, NEW text \in Seq(T)
    PROVE  Trim(text) \in Seq(T)
<1> DEFINE ink == {i \in DOMAIN text : text[i] \notin Blank}
<1>1. CASE ink = {}
  BY <1>1, EmptySeq DEF Trim
<1>2. CASE ink # {}
  <2>1. ink \in SUBSET Nat /\ ink \in SUBSET (0..Len(text)) /\ Len(text) \in Nat
        /\ \A i \in ink : i \in Nat \ {0} /\ i \in Int /\ i <= Len(text)
    OBVIOUS
  <2>2. Trim(text) = SubSeq(text, Min(ink), Max(ink))
    BY <1>2 DEF Trim
  <2> HIDE DEF ink
  <2>3. Min(ink) \in ink
    BY <1>2, <2>1, MinIn
  <2>4. Max(ink) \in ink
    BY <1>2, <2>1, MaxIn
  <2>5. Min(ink) \in Nat \ {0} /\ Max(ink) \in Int /\ Max(ink) <= Len(text)
    BY <2>1, <2>3, <2>4
  <2> QED
    BY <2>2, <2>5, StretchType
<1> QED
  BY <1>1, <1>2

\* Split gives at least one part, each over the same tokens.
LEMMA SplitType ==
    ASSUME NEW T, NEW token, NEW text \in Seq(T)
    PROVE  Split(text, token) \in Seq(Seq(T)) \ {<<>>}
<1>1. Split(text, token) = Fold(SplitF(T, token), << <<>> >>, text)
  BY SplitFold
<1>2. SplitF(T, token) \in Ops(Seq(Seq(T)) \ {<<>>}, T) /\ << <<>> >> \in Seq(Seq(T)) \ {<<>>}
  BY SplitOps
<1> DEFINE S == Seq(Seq(T)) \ {<<>>}
<1> HIDE DEF S
<1>3. Fold(SplitF(T, token), << <<>> >>, text) \in S
  <2>1. SplitF(T, token) \in Ops(S, T)
    BY <1>2 DEF S
  <2>2. << <<>> >> \in S
    BY <1>2 DEF S
  <2> QED
    BY <2>1, <2>2, FoldType
<1> QED
  BY <1>1, <1>3 DEF S

\* The step of Join, as a function.
JoinF(T, parts, glue) ==
    [text \in Seq(T) |-> [i \in DOMAIN parts |->
        text \o (IF i = 1 THEN parts[i] ELSE glue \o parts[i])]]

\* It keeps texts over T.
LEMMA JoinOps ==
    ASSUME NEW T, NEW parts \in Seq(Seq(T)), NEW glue \in Seq(T)
    PROVE  JoinF(T, parts, glue) \in Ops(Seq(T), DOMAIN parts) /\ <<>> \in Seq(T)
<1>1. ASSUME NEW text \in Seq(T), NEW i \in DOMAIN parts
      PROVE  (text \o (IF i = 1 THEN parts[i] ELSE glue \o parts[i])) \in Seq(T)
  <2>1. parts[i] \in Seq(T)
    OBVIOUS
  <2>2. glue \o parts[i] \in Seq(T)
    BY <2>1, CatType
  <2> DEFINE more == IF i = 1 THEN parts[i] ELSE glue \o parts[i]
  <2>3. more \in Seq(T)
    BY <2>1, <2>2
  <2> HIDE DEF more
  <2>4. text \o more \in Seq(T)
    BY <2>3, CatType
  <2> QED
    BY <2>4 DEF more
<1>2. <<>> \in Seq(T)
  BY EmptySeq
<1> QED
  BY <1>1, <1>2 DEF JoinF, Ops

\* Parts and glue over the same tokens are joined to a text over them.
LEMMA JoinType ==
    ASSUME NEW T, NEW parts \in Seq(Seq(T)), NEW glue \in Seq(T)
    PROVE  Join(parts, glue) \in Seq(T)
<1> DEFINE S == Seq(T)
           I == DOMAIN parts
           F == JoinF(T, parts, glue)
           base == <<>>
           seq == [i \in DOMAIN parts |-> i]
           op(s, i) == s \o (IF i = 1 THEN parts[i] ELSE glue \o parts[i])
           eq(g) == g = [i \in 0..Len(seq) |-> IF i = 0 THEN base ELSE op(g[i - 1], seq[i])]
           h == CHOOSE g : eq(g)
<1>1. Join(parts, glue) = h[Len(seq)]
  BY DEF Join, Scan
<1>2. F \in Ops(S, I) /\ base \in S
  BY JoinOps
<1>3. \A s \in S, x \in I : F[s][x] = op(s, x)
  BY DEF JoinF
<1>0. seq \in Seq(I)
  OBVIOUS
<1>4. \A i \in 1..Len(seq) : seq[i] \in I
  BY <1>0, ElementOfSeq
<1> HIDE DEF S, F, I, base, op, h, seq
<1>5. eq(h)
  <2>1. PICK g : /\ g = [i \in 0..Len(seq) |-> IF i = 0 THEN base ELSE F[g[i - 1]][seq[i]]]
                 /\ \A i \in 1..Len(seq) : g[i - 1] \in S /\ seq[i] \in I
    <3> HIDE DEF eq
    <3> QED
      BY <1>0, <1>2, RunIs
  <2>2. \A i \in 1..Len(seq) : F[g[i - 1]][seq[i]] = op(g[i - 1], seq[i])
    BY <1>3, <2>1
  <2>3. eq(g)
    <3>1. ASSUME NEW i \in 0..Len(seq)
          PROVE  (IF i = 0 THEN base ELSE F[g[i - 1]][seq[i]])
                    = (IF i = 0 THEN base ELSE op(g[i - 1], seq[i]))
      <4>1. Len(seq) \in Nat
        BY <1>0
      <4>2. i = 0 \/ i \in 1..Len(seq)
        BY <4>1
      <4> QED
        BY <2>2, <4>2
    <3>2. [i \in 0..Len(seq) |-> IF i = 0 THEN base ELSE F[g[i - 1]][seq[i]]]
            = [i \in 0..Len(seq) |-> IF i = 0 THEN base ELSE op(g[i - 1], seq[i])]
      BY <3>1
    <3> QED
      BY <2>1, <3>2
  <2> HIDE DEF eq
  <2> QED
    BY <2>3 DEF h
<1>6. Follows(h, S, F, base, seq)
  BY <1>3, <1>4, <1>5 DEF Follows
<1>7. h[Len(seq)] = Fold(F, base, seq)
  BY <1>0, <1>2, <1>6, FollowsFold
<1>8. Fold(F, base, seq) \in S
  BY <1>0, <1>2, FoldType
<1> QED
  BY <1>1, <1>7, <1>8 DEF S

-----------------------------------------------------------------------------
(* Lists of parameters *)

\* A value that may be nil is a sequence of at most one text.
Param(T) == [key : Seq(T), val : Seq(Seq(T))]

\* A key and a value make such a parameter.
LEMMA ParamIs ==
    ASSUME NEW T, NEW key \in Seq(T), NEW val \in Seq(Seq(T))
    PROVE  [key |-> key, val |-> val] \in Param(T)
  BY DEF Param

\* KeyAt gives the place of a parameter, or 0.
LEMMA KeyAtIn ==
    ASSUME NEW T, NEW params \in Seq(Param(T)), NEW key
    PROVE  KeyAt(params, key) = 0 \/ KeyAt(params, key) \in 1..Len(params)
<1> DEFINE I == {i \in 1..Len(params) : params[i].key = key}
<1>1. KeyAt(params, key) = IF I # {} THEN Min(I) ELSE 0
  BY DEF KeyAt, SelectInSeq
<1>2. CASE I = {}
  BY <1>1, <1>2
<1>3. CASE I # {}
  <2>1. I \in SUBSET Nat /\ I \subseteq 1..Len(params)
    OBVIOUS
  <2> HIDE DEF I
  <2>2. Min(I) \in I
    BY <1>3, <2>1, MinIn
  <2> QED
    BY <1>1, <1>3, <2>1, <2>2
<1> QED
  BY <1>2, <1>3

\* What it gives has the key; if it gives none, no parameter has it.
LEMMA KeyAtIs ==
    ASSUME NEW T, NEW params \in Seq(Param(T)), NEW key
    PROVE  IF KeyAt(params, key) = 0 THEN \A i \in 1..Len(params) : params[i].key # key
           ELSE params[KeyAt(params, key)].key = key
<1> DEFINE I == {i \in 1..Len(params) : params[i].key = key}
<1>1. KeyAt(params, key) = IF I # {} THEN Min(I) ELSE 0
  BY DEF KeyAt, SelectInSeq
<1>2. CASE I = {}
  BY <1>1, <1>2
<1>3. CASE I # {}
  <2>1. I \in SUBSET Nat /\ 0 \notin I
    OBVIOUS
  <2>2. \A i \in I : params[i].key = key
    OBVIOUS
  <2> HIDE DEF I
  <2>3. Min(I) \in I
    BY <1>3, <2>1, MinIn
  <2> QED
    BY <1>1, <1>3, <2>1, <2>2, <2>3
<1> QED
  BY <1>2, <1>3

\* Sequences of parameters in which no key comes twice.
Lists(T) ==
    {p \in Seq(Param(T)) : \A i, j \in 1..Len(p) : p[i].key = p[j].key => i = j}

\* Add keeps a sequence of parameters.
LEMMA AddIn ==
    ASSUME NEW T, NEW params \in Seq(Param(T)), NEW key \in Seq(T), NEW val \in Seq(Seq(T))
    PROVE  Add(params, key, val) \in Seq(Param(T))
<1> DEFINE k == KeyAt(params, key)
<1>0. k = 0 \/ k \in 1..Len(params)
  BY KeyAtIn
<1>1. CASE k = 0
  <2>1. Add(params, key, val) = Append(params, [key |-> key, val |-> val])
    BY <1>1 DEF Add, Has
  <2>2. [key |-> key, val |-> val] \in Param(T)
    BY ParamIs
  <2> QED
    BY <2>1, <2>2
<1>2. CASE k \in 1..Len(params)
  <2>1. Add(params, key, val) = [params EXCEPT ![k].val = val]
    BY <1>2 DEF Add, Has
  <2> HIDE DEF k
  <2>2. params[k] \in Param(T)
    BY <1>2
  <2>3. [params[k] EXCEPT !.val = val] \in Param(T)
    BY <2>2 DEF Param
  <2>4. [params EXCEPT ![k].val = val] = [params EXCEPT ![k] = [params[k] EXCEPT !.val = val]]
    OBVIOUS
  <2> DEFINE p == [params[k] EXCEPT !.val = val]
  <2> HIDE DEF p
  <2>5. [params EXCEPT ![k] = p] \in Seq(Param(T))
    <3>1. p \in Param(T)
      BY <2>3 DEF p
    <3> QED
      BY <1>2, <3>1
  <2> QED
    BY <2>1, <2>4, <2>5 DEF p
<1> QED
  BY <1>0, <1>1, <1>2

\* And no key comes twice.
LEMMA AddType ==
    ASSUME NEW T, NEW params \in Lists(T), NEW key \in Seq(T), NEW val \in Seq(Seq(T))
    PROVE  Add(params, key, val) \in Lists(T)
<1> DEFINE k == KeyAt(params, key)
           added == Add(params, key, val)
<1>1. params \in Seq(Param(T)) /\ \A i, j \in 1..Len(params) : params[i].key = params[j].key => i = j
  BY DEF Lists
<1>2. added \in Seq(Param(T))
  BY <1>1, AddIn
<1>3. k = 0 \/ k \in 1..Len(params)
  BY <1>1, KeyAtIn
<1>4. \A i, j \in 1..Len(added) : added[i].key = added[j].key => i = j
  <2>1. CASE k = 0
    <3>1. added = Append(params, [key |-> key, val |-> val])
      BY <2>1 DEF Add, Has
    <3>2. \A i \in 1..Len(params) : params[i].key # key
      BY <1>1, <2>1, KeyAtIs
    <3> HIDE DEF added, k
    <3>3. Len(added) = Len(params) + 1 /\ added[Len(params) + 1].key = key
      BY <1>1, <3>1
    <3>4. \A i \in 1..Len(params) : added[i] = params[i]
      BY <1>1, <3>1
    <3>5. Len(params) \in Nat
      BY <1>1
    <3>6. \A i \in 1..Len(params) : added[i].key = params[i].key /\ added[i].key # key
      BY <3>2, <3>4
    <3>7. \A i \in 1..Len(added) : i \in 1..Len(params) \/ i = Len(params) + 1
      BY <3>3, <3>5
    <3> QED
      BY <1>1, <3>3, <3>6, <3>7, Zenon
  <2>2. CASE k \in 1..Len(params)
    <3>1. added = [params EXCEPT ![k].val = val]
      BY <2>2 DEF Add, Has
    <3> HIDE DEF added, k
    <3>2. Len(added) = Len(params)
      BY <1>1, <3>1
    <3>3. \A i \in 1..Len(params) : params[i] \in Param(T)
      BY <1>1
    <3>4. \A i \in 1..Len(params) : added[i].key = params[i].key
      BY <1>1, <2>2, <3>1, <3>3 DEF Param
    <3> QED
      BY <1>1, <3>2, <3>4
  <2> QED
    BY <1>3, <2>1, <2>2
<1> QED
  BY <1>2, <1>4, Zenon DEF Lists

\* No parameters are such a sequence.
LEMMA NoneIn ==
    ASSUME NEW T
    PROVE  <<>> \in Lists(T)
  BY EmptySeq DEF Lists

\* The step of CloneParams, as a function.
CloneF(T) == [dup \in Lists(T) |-> [p \in Param(T) |-> Add(dup, p.key, p.val)]]

\* It keeps sequences of parameters.
LEMMA CloneOps ==
    ASSUME NEW T
    PROVE  CloneF(T) \in Ops(Lists(T), Param(T)) /\ <<>> \in Lists(T)
<1>1. ASSUME NEW dup \in Lists(T), NEW p \in Param(T)
      PROVE  Add(dup, p.key, p.val) \in Lists(T)
  <2>1. p.key \in Seq(T) /\ p.val \in Seq(Seq(T))
    BY DEF Param
  <2> QED
    BY <2>1, AddType
<1>2. <<>> \in Lists(T)
  BY NoneIn
<1> QED
  BY <1>1, <1>2 DEF CloneF, Ops

\* CloneParams is the fold of Add.
LEMMA CloneFold ==
    ASSUME NEW T, NEW params \in Lists(T)
    PROVE  CloneParams(params) = Fold(CloneF(T), <<>>, params)
<1> DEFINE S == Lists(T)
           P == Param(T)
           F == CloneF(T)
           base == <<>>
           op(s, p) == Add(s, p.key, p.val)
           eq(g) == g = [i \in 0..Len(params) |-> IF i = 0 THEN base ELSE op(g[i - 1], params[i])]
           h == CHOOSE g : eq(g)
<1>1. CloneParams(params) = h[Len(params)]
  BY DEF CloneParams, Scan
<1>2. F \in Ops(S, P) /\ base \in S
  BY CloneOps, Zenon
<1>3. \A s \in S, x \in P : F[s][x] = op(s, x)
  BY DEF CloneF
<1>0. params \in Seq(P)
  BY DEF Lists
<1>4. \A i \in 1..Len(params) : params[i] \in P
  BY <1>0, ElementOfSeq
<1> HIDE DEF S, F, P, base, op, h
<1>5. eq(h)
  <2>1. PICK g : /\ g = [i \in 0..Len(params) |-> IF i = 0 THEN base ELSE F[g[i - 1]][params[i]]]
                 /\ \A i \in 1..Len(params) : g[i - 1] \in S /\ params[i] \in P
    <3> HIDE DEF eq
    <3> QED
      BY <1>0, <1>2, RunIs
  <2>2. \A i \in 1..Len(params) : F[g[i - 1]][params[i]] = op(g[i - 1], params[i])
    BY <1>3, <2>1
  <2>3. eq(g)
    BY <2>1, <2>2, SMTT(30)
  <2> HIDE DEF eq
  <2> QED
    BY <2>3 DEF h
<1>6. Follows(h, S, F, base, params)
  BY <1>3, <1>4, <1>5 DEF Follows
<1>7. h[Len(params)] = Fold(F, base, params)
  BY <1>0, <1>2, <1>6, FollowsFold
<1> QED
  BY <1>1, <1>7 DEF F, base

\* A clone of parameters is a sequence of parameters.
LEMMA CloneParamsType ==
    ASSUME NEW T, NEW params \in Lists(T)
    PROVE  CloneParams(params) \in Lists(T)
<1> DEFINE S == Lists(T)
           P == Param(T)
<1>1. CloneParams(params) = Fold(CloneF(T), <<>>, params)
  BY CloneFold
<1>2. CloneF(T) \in Ops(S, P) /\ <<>> \in S
  BY CloneOps, Zenon
<1>3. params \in Seq(P)
  BY DEF Lists
<1> HIDE DEF S, P
<1>4. Fold(CloneF(T), <<>>, params) \in S
  BY <1>2, <1>3, FoldType
<1> QED
  BY <1>1, <1>4 DEF S

\* A parameter is written with its own tokens, "=" and quotes.
LEMMA ParamTextType ==
    ASSUME NEW T, Equals \in T, Quote \in T, NEW p \in Param(T)
    PROVE  ParamText(p) \in Seq(T)
<1> DEFINE v == p.val[1]
           opening == <<Equals, Quote>>
           one == <<Equals>>
           close == <<Quote>>
<1>1. p.key \in Seq(T) /\ p.val \in Seq(Seq(T))
  BY DEF Param
<1>2. CASE p.val = Nil
  BY <1>1, <1>2 DEF ParamText
<1>3. CASE p.val # Nil
  <2>1. v \in Seq(T)
    BY <1>1, <1>3 DEF Nil
  <2>2. opening \in Seq(T) /\ one \in Seq(T) /\ close \in Seq(T)
    OBVIOUS
  <2>3. \/ ParamText(p) = ((p.key \o opening) \o v) \o close
        \/ ParamText(p) = (p.key \o one) \o v
    BY <1>3 DEF ParamText, Equals, Quote
  <2> HIDE DEF v, opening, one, close
  <2>4. p.key \o opening \in Seq(T) /\ p.key \o one \in Seq(T)
    BY <1>1, <2>2, CatType
  <2>5. (p.key \o opening) \o v \in Seq(T) /\ (p.key \o one) \o v \in Seq(T)
    BY <2>1, <2>4, CatType
  <2>6. ((p.key \o opening) \o v) \o close \in Seq(T)
    BY <2>2, <2>5, CatType
  <2> QED
    BY <2>3, <2>5, <2>6
<1> QED
  BY <1>2, <1>3

\* So are parameters, with their start and separator.
LEMMA TailTextType ==
    ASSUME NEW T, Equals \in T, Quote \in T, NEW start \in T, NEW sep \in T,
           NEW params \in Seq(Lists(T))
    PROVE  TailText(params, start, sep) \in Seq(T)
<1>1. CASE params = Nil
  BY <1>1, EmptySeq DEF TailText
<1>2. CASE params # Nil
  <2> DEFINE list == params[1]
             texts == Each(ParamText, list)
  <2>1. list \in Seq(Param(T))
    BY <1>2 DEF Nil, Lists
  <2>2. \A i \in DOMAIN list : ParamText(list[i]) \in Seq(T)
    BY <2>1, ParamTextType
  <2>3. texts \in Seq(Seq(T))
    BY <2>1, <2>2 DEF Each
  <2>4. <<sep>> \in Seq(T) /\ <<start>> \in Seq(T)
    OBVIOUS
  <2>5. \/ TailText(params, start, sep) = <<>>
        \/ TailText(params, start, sep) = <<start>> \o Join(texts, <<sep>>)
    BY DEF TailText, ToText
  <2> HIDE DEF list, texts
  <2>6. Join(texts, <<sep>>) \in Seq(T)
    BY <2>3, <2>4, JoinType
  <2>7. <<start>> \o Join(texts, <<sep>>) \in Seq(T)
    BY <2>4, <2>6, CatType
  <2> QED
    BY <2>5, <2>7, EmptySeq
<1> QED
  BY <1>1, <1>2



-----------------------------------------------------------------------------
(* What ParseParams gives *)

\* The states of the reader of parameters, over T.
PStates(T) == [on : BOOLEAN, err : BOOLEAN, used : Nat, params : Lists(T),
               buffer : Seq(T), key : Seq(T), parsingKey : BOOLEAN, inQuotes : BOOLEAN]

\* Such a state from its parts.
PState(on, err, used, params, buffer, key, parsingKey, inQuotes) ==
    [on |-> on, err |-> err, used |-> used, params |-> params, buffer |-> buffer, key |-> key,
     parsingKey |-> parsingKey, inQuotes |-> inQuotes]

\* A state is made from parts of these types.
LEMMA PStateIn ==
    ASSUME NEW T, NEW on \in BOOLEAN, NEW err \in BOOLEAN, NEW used \in Nat,
           NEW params \in Lists(T), NEW buffer \in Seq(T), NEW key \in Seq(T),
           NEW parsingKey \in BOOLEAN, NEW inQuotes \in BOOLEAN
    PROVE  PState(on, err, used, params, buffer, key, parsingKey, inQuotes) \in PStates(T)
  BY DEF PState, PStates

\* It is the record of its parts.
LEMMA PStateIs ==
    ASSUME NEW T, NEW s \in PStates(T)
    PROVE  /\ s = PState(s.on, s.err, s.used, s.params, s.buffer, s.key, s.parsingKey, s.inQuotes)
           /\ s.on \in BOOLEAN /\ s.err \in BOOLEAN /\ s.used \in Nat
           /\ s.params \in Lists(T) /\ s.buffer \in Seq(T) /\ s.key \in Seq(T)
           /\ s.parsingKey \in BOOLEAN /\ s.inQuotes \in BOOLEAN
  BY DEF PState, PStates

\* To store a parameter keeps the state typed.
LEMMA StoreParamType ==
    ASSUME NEW T, NEW s \in PStates(T), NEW permitSingletons
    PROVE  StoreParam(s, permitSingletons) \in PStates(T)
<1>1. /\ s = PState(s.on, s.err, s.used, s.params, s.buffer, s.key, s.parsingKey, s.inQuotes)
      /\ s.on \in BOOLEAN /\ s.err \in BOOLEAN /\ s.used \in Nat
      /\ s.params \in Lists(T) /\ s.buffer \in Seq(T) /\ s.key \in Seq(T)
      /\ s.parsingKey \in BOOLEAN /\ s.inQuotes \in BOOLEAN
  BY PStateIs
<1> DEFINE alone == Add(s.params, s.buffer, Nil)
           valued == Add(s.params, s.key, Some(s.buffer))
<1>2. alone \in Lists(T)
  <2>1. Nil \in Seq(Seq(T))
    BY EmptySeq DEF Nil
  <2> QED
    BY <1>1, <2>1, AddType
<1>3. valued \in Lists(T)
  <2>1. Some(s.buffer) \in Seq(Seq(T))
    BY <1>1 DEF Some
  <2> QED
    BY <1>1, <2>1, AddType
<1> DEFINE r == StoreParam(s, permitSingletons)
<1>4. \/ r = [s EXCEPT !.err = TRUE, !.on = FALSE]
      \/ r = [s EXCEPT !.params = alone, !.buffer = <<>>, !.parsingKey = TRUE]
      \/ r = [s EXCEPT !.params = valued, !.buffer = <<>>, !.parsingKey = TRUE]
  BY DEF StoreParam
<1> HIDE DEF alone, valued, r
<1>5. \/ r = PState(FALSE, TRUE, s.used, s.params, s.buffer, s.key, s.parsingKey, s.inQuotes)
      \/ r = PState(s.on, s.err, s.used, alone, <<>>, s.key, TRUE, s.inQuotes)
      \/ r = PState(s.on, s.err, s.used, valued, <<>>, s.key, TRUE, s.inQuotes)
  BY <1>1, <1>4 DEF PState
<1>6. <<>> \in Seq(T) /\ TRUE \in BOOLEAN /\ FALSE \in BOOLEAN
  BY EmptySeq
<1>7. /\ PState(FALSE, TRUE, s.used, s.params, s.buffer, s.key, s.parsingKey, s.inQuotes)
            \in PStates(T)
      /\ PState(s.on, s.err, s.used, alone, <<>>, s.key, TRUE, s.inQuotes) \in PStates(T)
      /\ PState(s.on, s.err, s.used, valued, <<>>, s.key, TRUE, s.inQuotes) \in PStates(T)
  BY <1>1, <1>2, <1>3, <1>6, PStateIn
<1> QED
  BY <1>5, <1>7 DEF r

\* So does to read one token.
LEMMA ParamTokenType ==
    ASSUME NEW T, NEW source \in Seq(T), NEW s \in PStates(T), NEW i \in 1..Len(source),
           NEW sep, NEW end, NEW quoteValues, NEW permitSingletons
    PROVE  ParseParamToken(s, source, i, sep, end, quoteValues, permitSingletons) \in PStates(T)
<1>1. /\ s = PState(s.on, s.err, s.used, s.params, s.buffer, s.key, s.parsingKey, s.inQuotes)
      /\ s.on \in BOOLEAN /\ s.err \in BOOLEAN /\ s.used \in Nat
      /\ s.params \in Lists(T) /\ s.buffer \in Seq(T) /\ s.key \in Seq(T)
      /\ s.parsingKey \in BOOLEAN /\ s.inQuotes \in BOOLEAN
  BY PStateIs
<1> DEFINE t == source[i]
           stored == StoreParam(s, permitSingletons)
           written == Append(s.buffer, t)
           r == ParseParamToken(s, source, i, sep, end, quoteValues, permitSingletons)
<1>2. t \in T /\ i \in Nat
  OBVIOUS
<1>3. \/ r = s
      \/ r = [s EXCEPT !.buffer = written, !.used = i]
      \/ r = [s EXCEPT !.on = FALSE]
      \/ r = [stored EXCEPT !.used = i]
      \/ r = [s EXCEPT !.err = TRUE, !.on = FALSE]
      \/ r = [s EXCEPT !.inQuotes = ~s.inQuotes, !.used = i]
      \/ r = [s EXCEPT !.key = s.buffer, !.buffer = <<>>, !.parsingKey = FALSE, !.used = i]
      \/ r = [s EXCEPT !.used = i]
  BY DEF ParseParamToken
<1>4. stored \in PStates(T) /\ written \in Seq(T)
  BY <1>1, <1>2, StoreParamType
<1> HIDE DEF stored, written, r
<1>5. [stored EXCEPT !.used = i] \in PStates(T)
  BY <1>2, <1>4 DEF PStates
<1>6. \/ r = s
      \/ r = PState(s.on, s.err, i, s.params, written, s.key, s.parsingKey, s.inQuotes)
      \/ r = PState(FALSE, s.err, s.used, s.params, s.buffer, s.key, s.parsingKey, s.inQuotes)
      \/ r = [stored EXCEPT !.used = i]
      \/ r = PState(FALSE, TRUE, s.used, s.params, s.buffer, s.key, s.parsingKey, s.inQuotes)
      \/ r = PState(s.on, s.err, i, s.params, s.buffer, s.key, s.parsingKey, ~s.inQuotes)
      \/ r = PState(s.on, s.err, i, s.params, <<>>, s.buffer, FALSE, s.inQuotes)
      \/ r = PState(s.on, s.err, i, s.params, s.buffer, s.key, s.parsingKey, s.inQuotes)
  BY <1>1, <1>3 DEF PState
<1>7. <<>> \in Seq(T) /\ TRUE \in BOOLEAN /\ FALSE \in BOOLEAN /\ (~s.inQuotes) \in BOOLEAN
  BY EmptySeq
<1>8. /\ PState(s.on, s.err, i, s.params, written, s.key, s.parsingKey, s.inQuotes) \in PStates(T)
      /\ PState(FALSE, s.err, s.used, s.params, s.buffer, s.key, s.parsingKey, s.inQuotes)
            \in PStates(T)
      /\ PState(FALSE, TRUE, s.used, s.params, s.buffer, s.key, s.parsingKey, s.inQuotes)
            \in PStates(T)
  BY <1>1, <1>2, <1>4, <1>7, PStateIn
<1>9. /\ PState(s.on, s.err, i, s.params, s.buffer, s.key, s.parsingKey, ~s.inQuotes)
            \in PStates(T)
      /\ PState(s.on, s.err, i, s.params, <<>>, s.buffer, FALSE, s.inQuotes) \in PStates(T)
      /\ PState(s.on, s.err, i, s.params, s.buffer, s.key, s.parsingKey, s.inQuotes)
            \in PStates(T)
  BY <1>1, <1>2, <1>4, <1>7, PStateIn
<1> QED
  BY <1>5, <1>6, <1>8, <1>9 DEF r

\* The step of ParseParams over the places of a text, as a function.
ReadF(T, source, sep, end, quoteValues, permitSingletons) ==
    [s \in PStates(T) |-> [i \in 1..Len(source) |->
        ParseParamToken(s, source, i, sep, end, quoteValues, permitSingletons)]]

\* It keeps states typed.
LEMMA ReadOps ==
    ASSUME NEW T, NEW source \in Seq(T), NEW sep, NEW end, NEW quoteValues, NEW permitSingletons
    PROVE  /\ ReadF(T, source, sep, end, quoteValues, permitSingletons)
                    \in Ops(PStates(T), 1..Len(source))
           /\ ParamState \in PStates(T)
<1>1. \A s \in PStates(T), i \in 1..Len(source) :
        ParseParamToken(s, source, i, sep, end, quoteValues, permitSingletons) \in PStates(T)
  BY ParamTokenType
<1>2. ParamState \in PStates(T)
  BY EmptySeq, NoneIn DEF ParamState, PStates
<1> QED
  BY <1>1, <1>2 DEF ReadF, Ops

\* The state after the last token.
ReadState(source, sep, end, quoteValues, permitSingletons) ==
    Scan(LAMBDA s, i : ParseParamToken(s, source, i, sep, end, quoteValues, permitSingletons),
         ParamState, [i \in 1..(Len(source) - 1) |-> i + 1])

\* That state is typed.
LEMMA ReadType ==
    ASSUME NEW T, NEW source \in Seq(T), source # <<>>, NEW sep, NEW end, NEW quoteValues,
           NEW permitSingletons
    PROVE  ReadState(source, sep, end, quoteValues, permitSingletons) \in PStates(T)
<1> DEFINE S == PStates(T)
           I == 1..Len(source)
           F == ReadF(T, source, sep, end, quoteValues, permitSingletons)
           base == ParamState
           seq == [i \in 1..(Len(source) - 1) |-> i + 1]
           op(s, i) == ParseParamToken(s, source, i, sep, end, quoteValues, permitSingletons)
           eq(g) == g = [i \in 0..Len(seq) |-> IF i = 0 THEN base ELSE op(g[i - 1], seq[i])]
           h == CHOOSE g : eq(g)
<1>1. ReadState(source, sep, end, quoteValues, permitSingletons) = h[Len(seq)]
  BY DEF ReadState, Scan
<1>2. F \in Ops(S, I) /\ base \in S
  BY ReadOps
<1>3. \A s \in S, x \in I : F[s][x] = op(s, x)
  BY DEF ReadF
<1>0. seq \in Seq(I)
  <2>1. Len(source) \in Nat \ {0}
    OBVIOUS
  <2>2. Len(source) - 1 \in Nat /\ \A i \in 1..(Len(source) - 1) : i + 1 \in I
    BY <2>1
  <2> QED
    BY <2>2
<1>4. \A i \in 1..Len(seq) : seq[i] \in I
  BY <1>0, ElementOfSeq
<1> HIDE DEF S, F, I, base, op, h, seq
<1>5. eq(h)
  <2>1. PICK g : /\ g = [i \in 0..Len(seq) |-> IF i = 0 THEN base ELSE F[g[i - 1]][seq[i]]]
                 /\ \A i \in 1..Len(seq) : g[i - 1] \in S /\ seq[i] \in I
    <3> HIDE DEF eq
    <3> QED
      BY <1>0, <1>2, RunIs
  <2>2. \A i \in 1..Len(seq) : F[g[i - 1]][seq[i]] = op(g[i - 1], seq[i])
    BY <1>3, <2>1
  <2>3. eq(g)
    <3>1. ASSUME NEW i \in 0..Len(seq)
          PROVE  (IF i = 0 THEN base ELSE F[g[i - 1]][seq[i]])
                    = (IF i = 0 THEN base ELSE op(g[i - 1], seq[i]))
      <4>1. Len(seq) \in Nat
        BY <1>0
      <4>2. i = 0 \/ i \in 1..Len(seq)
        BY <4>1
      <4> QED
        BY <2>2, <4>2
    <3>2. [i \in 0..Len(seq) |-> IF i = 0 THEN base ELSE F[g[i - 1]][seq[i]]]
            = [i \in 0..Len(seq) |-> IF i = 0 THEN base ELSE op(g[i - 1], seq[i])]
      BY <3>1
    <3> QED
      BY <2>1, <3>2
  <2> HIDE DEF eq
  <2> QED
    BY <2>3 DEF h
<1>6. Follows(h, S, F, base, seq)
  BY <1>3, <1>4, <1>5 DEF Follows
<1>7. h[Len(seq)] = Fold(F, base, seq)
  BY <1>0, <1>2, <1>6, FollowsFold
<1>8. Fold(F, base, seq) \in S
  BY <1>0, <1>2, FoldType
<1> QED
  BY <1>1, <1>7, <1>8 DEF S

\* ParseParams gives parameters over the tokens of its text.
LEMMA ParseParamsType ==
    ASSUME NEW T, NEW source \in Seq(T), NEW start, NEW sep, NEW end, NEW quoteValues,
           NEW permitSingletons
    PROVE  /\ ParseParams(source, start, sep, end, quoteValues, permitSingletons).params
                    \in Lists(T)
           /\ ParseParams(source, start, sep, end, quoteValues, permitSingletons).used \in Nat
<1> DEFINE s == ReadState(source, sep, end, quoteValues, permitSingletons)
           e == EndParams(s, permitSingletons)
           r == ParseParams(source, start, sep, end, quoteValues, permitSingletons)
<1>0. <<>> \in Lists(T)
  BY NoneIn
<1>1. CASE source = <<>> \/ source[1] # start
  BY <1>0, <1>1 DEF ParseParams
<1>2. CASE ~(source = <<>> \/ source[1] # start)
  <2>1. r = ParamsOf(e)
    BY <1>2 DEF ParseParams, ReadState
  <2>2. s \in PStates(T)
    BY <1>2, ReadType
  <2>3. \/ e = [s EXCEPT !.err = TRUE] \/ e = s \/ e = StoreParam(s, permitSingletons)
    BY DEF EndParams
  <2> HIDE DEF s, e
  <2>4. [s EXCEPT !.err = TRUE] \in PStates(T)
    BY <2>2 DEF PStates
  <2>5. StoreParam(s, permitSingletons) \in PStates(T)
    BY <2>2, StoreParamType
  <2>6. e \in PStates(T)
    BY <2>2, <2>3, <2>4, <2>5
  <2>7. e.params \in Lists(T) /\ e.used \in Nat
    BY <2>6, PStateIs
  <2> QED
    BY <2>1, <2>7 DEF ParamsOf
<1> QED
  BY <1>1, <1>2



-----------------------------------------------------------------------------
(* Hops and URIs over any tokens *)

\* The hops of a Via header, over T.
Hops(T) == [protocol : T, version : T, transport : T, host : Seq(T), port : Seq(T),
            params : Seq(Lists(T))]

\* Their parameters may be nil.
WholeHops(T) == {hop \in Hops(T) : Len(hop.params) <= 1}

\* Host and port are texts over the same tokens.
LEMMA HostPortType ==
    ASSUME NEW T, NEW text \in Seq(T)
    PROVE  ParseHostPort(text).host \in Seq(T) /\ ParseHostPort(text).port \in Seq(T)
<1> DEFINE colon == FirstOf(text, {Colon})
           port == After(text, colon)
<1>1. colon \in 0..Len(text) /\ Len(text) \in Nat
  BY FirstType
<1>2. CASE colon = 0
  <2>1. ParseHostPort(text) = [host |-> text, port |-> Nil, err |-> FALSE]
    BY <1>2 DEF ParseHostPort, Colon
  <2> QED
    BY <2>1, EmptySeq DEF Nil
<1>3. CASE colon # 0
  <2>1. ParseHostPort(text) = [host |-> Upto(text, colon - 1), port |-> port,
                               err |-> Len(port) # 1 \/ port[1] \notin PortWords]
    BY <1>3 DEF ParseHostPort, Colon
  <2> HIDE DEF colon
  <2>2. colon - 1 \in Int /\ colon - 1 <= Len(text) /\ colon \in Nat
    BY <1>1
  <2>3. Upto(text, colon - 1) \in Seq(T)
    BY <2>2, UptoType
  <2>4. port \in Seq(T)
    BY <2>2, AfterType
  <2> QED
    BY <2>1, <2>3, <2>4
<1> QED
  BY <1>2, <1>3

\* A hop is read over the tokens of its text.
LEMMA HopOfType ==
    ASSUME NEW T, Empty \in T, NEW protocol \in Seq(Seq(T)), Len(protocol) = 3, NEW hostPort,
           hostPort.host \in Seq(T), hostPort.port \in Seq(T), NEW params,
           params.params \in Lists(T)
    PROVE  HopOf(protocol, hostPort, params).fatal
              \/ HopOf(protocol, hostPort, params).hop[1] \in WholeHops(T)
<1> DEFINE word(i) == IF Len(Trim(protocol[i])) = 1 THEN Trim(protocol[i])[1] ELSE Empty
           a == word(1)
           b == word(2)
           c == word(3)
           hop == [protocol |-> a, version |-> b, transport |-> c, host |-> hostPort.host,
                   port |-> hostPort.port, params |-> Some(params.params)]
<1>1. CASE hostPort.err
  BY <1>1 DEF HopOf, FatalHop
<1>2. CASE ~hostPort.err
  <2>1. HopOf(protocol, hostPort, params).hop = Some(hop)
    <3>1. HopOf(protocol, hostPort, params) =
            [fatal |-> \E i \in 1..3 : word(i) = Empty, err |-> params.err, hop |-> Some(hop)]
      BY <1>2 DEF HopOf, Empty
    <3> HIDE DEF hop, word
    <3> QED
      BY <3>1
  <2>2. ASSUME NEW i \in 1..3
        PROVE  word(i) \in T
    <3>1. protocol[i] \in Seq(T)
      <4>1. i \in 1..Len(protocol)
        OBVIOUS
      <4> QED
        BY <4>1, ElementOfSeq
    <3>2. Trim(protocol[i]) \in Seq(T)
      BY <3>1, TrimType
    <3>3. CASE Len(Trim(protocol[i])) = 1
      BY <3>2, <3>3
    <3>4. CASE Len(Trim(protocol[i])) # 1
      BY <3>4
    <3> QED
      BY <3>3, <3>4
  <2>3. a \in T /\ b \in T /\ c \in T
    BY <2>2
  <2> HIDE DEF a, b, c, word
  <2>4. Some(params.params) \in Seq(Lists(T))
    BY DEF Some
  <2>5. hop \in WholeHops(T)
    <3>1. hop \in Hops(T)
      BY <2>3, <2>4 DEF Hops
    <3>2. Len(hop.params) <= 1
      BY DEF Some
    <3> QED
      BY <3>1, <3>2 DEF WholeHops
  <2>6. Some(hop)[1] = hop
    BY DEF Some
  <2> QED
    BY <2>1, <2>5, <2>6
<1> QED
  BY <1>1, <1>2

\* So is its sent-by part.
LEMMA SentByType ==
    ASSUME NEW T, Empty \in T, NEW protocol \in Seq(Seq(T)), Len(protocol) = 3, NEW cut,
           cut.head \in Seq(T), cut.tail \in Seq(T)
    PROVE  SentBy(protocol, cut).fatal \/ SentBy(protocol, cut).hop[1] \in WholeHops(T)
<1> DEFINE hostPort == ParseHostPort(cut.head)
           params == ParseParams(cut.tail, ";", ";", "", TRUE, TRUE)
<1>1. hostPort.host \in Seq(T) /\ hostPort.port \in Seq(T)
  BY HostPortType
<1>2. params.params \in Lists(T)
  BY ParseParamsType
<1>3. SentBy(protocol, cut) = HopOf(protocol, hostPort, params)
  BY DEF SentBy
<1> HIDE DEF hostPort, params
<1>4. HopOf(protocol, hostPort, params).fatal \/ HopOf(protocol, hostPort, params).hop[1] \in WholeHops(T)
  BY <1>1, <1>2, HopOfType
<1> QED
  BY <1>3, <1>4

\* The three texts of a protocol.
LEMMA ThreeTexts ==
    ASSUME NEW S, NEW a \in S, NEW b \in S, NEW c \in S
    PROVE  <<a, b, c>> \in Seq(S) /\ Len(<<a, b, c>>) = 3
  OBVIOUS

\* ParseHop gives a hop over the tokens of its text.
LEMMA ParseHopType ==
    ASSUME NEW T, Empty \in T, Slash \in T, NEW section \in Seq(T)
    PROVE  ParseHop(section).fatal \/ ParseHop(section).hop[1] \in WholeHops(T)
<1> DEFINE parts == Split(section, Slash)
           third == IF Len(parts) < 3 THEN <<>> ELSE Join(After(parts, 2), <<Slash>>)
           ink == {i \in DOMAIN third : third[i] \notin Blank}
           lead == IF ink = {} THEN Len(third) ELSE Min(ink) - 1
           rest == After(third, lead)
           blank == FirstOf(rest, Blank) + lead
           body == After(third, blank)
           protocol == <<parts[1], parts[2], Upto(third, blank - 1)>>
           cut == CutAt(body, FirstOf(body, {Semi}))
<1>1. CASE Len(parts) < 3 \/ blank < 2
  BY <1>1 DEF ParseHop, FatalHop, Slash
<1>2. CASE ~(Len(parts) < 3 \/ blank < 2)
  <2>1. ParseHop(section) = SentBy(protocol, cut)
    BY <1>2 DEF ParseHop, Slash, Semi
  <2>2. parts \in Seq(Seq(T)) /\ Len(parts) \in Nat
    BY SplitType
  <2>3. third \in Seq(T)
    <3>1. <<Slash>> \in Seq(T)
      OBVIOUS
    <3> HIDE DEF parts
    <3>2. After(parts, 2) \in Seq(Seq(T))
      <4>1. 2 \in Nat
        OBVIOUS
      <4> QED
        BY <2>2, <4>1, AfterType
    <3>3. Join(After(parts, 2), <<Slash>>) \in Seq(T)
      BY <3>1, <3>2, JoinType
    <3> QED
      BY <1>2, <3>3
  <2>4. parts[1] \in Seq(T) /\ parts[2] \in Seq(T)
    <3>1. 1 \in 1..Len(parts) /\ 2 \in 1..Len(parts)
      BY <1>2, <2>2
    <3> HIDE DEF parts
    <3> QED
      BY <2>2, <3>1, ElementOfSeq
  <2> HIDE DEF parts, third
  <2>5. lead \in 0..Len(third) /\ Len(third) \in Nat
    <3>1. Len(third) \in Nat
      BY <2>3
    <3>2. CASE ink = {}
      BY <3>1, <3>2
    <3>3. CASE ink # {}
      <4>1. ink \in SUBSET Nat /\ \A i \in ink : i \in 1..Len(third)
        BY <2>3
      <4> HIDE DEF ink
      <4>2. Min(ink) \in ink
        BY <3>3, <4>1, MinIn
      <4>3. Min(ink) \in 1..Len(third)
        BY <4>1, <4>2
      <4> QED
        BY <3>1, <3>3, <4>3
    <3> QED
      BY <3>1, <3>2, <3>3
  <2> HIDE DEF lead
  <2>6. rest \in Seq(T) /\ Len(rest) = Len(third) - lead
    <3>1. lead + 1 \in 1..(Len(third) + 1) /\ Len(third) \in ((lead + 1) - 1)..Len(third)
          /\ Len(third) - (lead + 1) + 1 = Len(third) - lead
      BY <2>5
    <3> QED
      BY <2>3, <3>1, SubType DEF After
  <2> HIDE DEF rest
  <2>7. FirstOf(rest, Blank) \in 0..Len(rest)
    BY <2>6, FirstType
  <2>8. blank \in Nat /\ blank <= Len(third) /\ blank - 1 \in Int /\ blank - 1 <= Len(third)
    BY <2>5, <2>6, <2>7
  <2> HIDE DEF blank
  <2>9. body \in Seq(T)
    BY <2>3, <2>8, AfterType
  <2>10. Upto(third, blank - 1) \in Seq(T)
    BY <2>3, <2>8, UptoType
  <2>11. protocol \in Seq(Seq(T)) /\ Len(protocol) = 3
    BY <2>4, <2>10, ThreeTexts
  <2> HIDE DEF body, protocol
  <2>12. FirstOf(body, {Semi}) \in 0..Len(body)
    BY <2>9, FirstType
  <2>13. cut.head \in Seq(T) /\ cut.tail \in Seq(T)
    BY <2>9, <2>12, CutType
  <2> HIDE DEF cut
  <2>14. SentBy(protocol, cut).fatal \/ SentBy(protocol, cut).hop[1] \in WholeHops(T)
    BY <2>11, <2>13, SentByType
  <2> QED
    BY <2>1, <2>14
<1> QED
  BY <1>1, <1>2

\* ParseVia gives hops over the tokens of its text.
LEMMA ParseViaType ==
    ASSUME NEW T, Empty \in T, Slash \in T, NEW text \in Seq(T)
    PROVE  \/ ParseVia(text).headers = <<>>
           \/ \E hops \in Seq(WholeHops(T)) : ParseVia(text).headers = <<Header("Via", hops)>>
<1> DEFINE sections == Split(text, Comma)
           hops == Each(ParseHop, sections)
           vals == Each(LAMBDA h : h.hop[1], hops)
<1>1. ParseVia(text) = ViaOf(hops)
  BY DEF ParseVia, Comma
<1>2. sections \in Seq(Seq(T))
  BY SplitType
<1> HIDE DEF sections
<1>3. \A i \in DOMAIN sections : ParseHop(sections[i]).fatal
                                    \/ ParseHop(sections[i]).hop[1] \in WholeHops(T)
  <2>1. \A i \in DOMAIN sections : sections[i] \in Seq(T)
    BY <1>2
  <2> QED
    BY <2>1, ParseHopType
<1>4. CASE \E i \in DOMAIN hops : hops[i].fatal
  BY <1>1, <1>4 DEF ViaOf, ParseError
<1>5. CASE \A i \in DOMAIN hops : ~hops[i].fatal
  <2>1. DOMAIN hops = DOMAIN sections /\ \A i \in DOMAIN hops : hops[i] = ParseHop(sections[i])
    BY DEF Each
  <2>2. DOMAIN hops = 1..Len(sections) /\ Len(sections) \in Nat
    BY <1>2, <2>1
  <2>3. vals = [i \in DOMAIN hops |-> hops[i].hop[1]]
    BY DEF Each
  <2>4. \A i \in DOMAIN hops : hops[i].hop[1] \in WholeHops(T)
    BY <1>3, <1>5, <2>1
  <2> HIDE DEF hops
  <2>5. vals \in Seq(WholeHops(T))
    BY <2>2, <2>3, <2>4
  <2>6. \/ ViaOf(hops) = ParseError
        \/ ViaOf(hops) = Parsed(<<Header("Via", vals)>>)
    BY <1>5 DEF ViaOf
  <2>7. ParseError.headers = <<>> /\ Parsed(<<Header("Via", vals)>>).headers = <<Header("Via", vals)>>
    BY DEF ParseError, Parsed
  <2> QED
    BY <1>1, <2>5, <2>6, <2>7
<1> QED
  BY <1>4, <1>5

\* A clone of a hop is a hop.
LEMMA CloneHopType ==
    ASSUME NEW T, NEW hop \in Hops(T)
    PROVE  CloneHop(hop) \in Hops(T)
<1>1. hop.params \in Seq(Lists(T))
  BY DEF Hops
<1>2. CloneMaybe(hop.params) \in Seq(Lists(T))
  <2>1. CASE hop.params = Nil
    BY <2>1, EmptySeq DEF CloneMaybe, Nil
  <2>2. CASE hop.params # Nil
    <3>1. hop.params[1] \in Lists(T)
      BY <1>1, <2>2 DEF Nil
    <3>2. CloneParams(hop.params[1]) \in Lists(T)
      BY <3>1, CloneParamsType
    <3> QED
      BY <2>2, <3>2 DEF CloneMaybe, Some
  <2> QED
    BY <2>1, <2>2
<1> DEFINE p == CloneMaybe(hop.params)
<1>3. CloneHop(hop) = [hop EXCEPT !.params = p]
  BY DEF CloneHop
<1> HIDE DEF p
<1>4. p \in Seq(Lists(T))
  BY <1>2 DEF p
<1> QED
  BY <1>3, <1>4 DEF Hops

\* The tokens that the texts of hops, URIs and parameters put between words.
Glue == {Space, Colon, Semi, Comma, Slash, Quote, Equals}

\* A hop is written with its own tokens and these.
LEMMA HopTextType ==
    ASSUME NEW T, Glue \subseteq T, NEW hop \in Hops(T)
    PROVE  HopText(hop) \in Seq(T)
<1> DEFINE head == <<hop.protocol, Slash, hop.version, Slash, hop.transport, Space>>
           port == IF hop.port = Nil THEN <<>> ELSE <<Colon, hop.port[1]>>
           tail == TailText(hop.params, ";", ";")
<1>1. /\ hop.protocol \in T /\ hop.version \in T /\ hop.transport \in T /\ hop.host \in Seq(T)
      /\ hop.port \in Seq(T) /\ hop.params \in Seq(Lists(T))
  BY DEF Hops
<1>2. Space \in T /\ Colon \in T /\ Semi \in T /\ Slash \in T /\ Quote \in T /\ Equals \in T
  BY DEF Glue
<1>3. HopText(hop) = ((head \o hop.host) \o port) \o tail
  BY DEF HopText, Slash, Space, Colon
<1>4. head \in Seq(T)
  BY <1>1, <1>2
<1>5. port \in Seq(T)
  <2>1. CASE hop.port = Nil
    BY <2>1, EmptySeq
  <2>2. CASE hop.port # Nil
    <3>1. hop.port[1] \in T
      BY <1>1, <2>2 DEF Nil
    <3> QED
      BY <1>2, <2>2, <3>1
  <2> QED
    BY <2>1, <2>2
<1>6. tail \in Seq(T)
  <2>1. tail = TailText(hop.params, Semi, Semi)
    BY DEF Semi
  <2> QED
    BY <1>1, <1>2, <2>1, TailTextType
<1> HIDE DEF head, port, tail
<1>7. head \o hop.host \in Seq(T)
  BY <1>1, <1>4, CatType
<1>8. (head \o hop.host) \o port \in Seq(T)
  BY <1>5, <1>7, CatType
<1>9. ((head \o hop.host) \o port) \o tail \in Seq(T)
  BY <1>6, <1>8, CatType
<1> QED
  BY <1>3, <1>9

\* What several values are joined with.
ListText(texts) == Join(texts, <<",", " ">>)

\* It is the join with a comma and a blank.
LEMMA ListIs ==
    ASSUME NEW texts
    PROVE  ListText(texts) = Join(texts, <<Comma, Space>>)
  BY DEF ListText, Comma, Space

\* The value of a Via header is the list of its hops.
LEMMA ValueOfVia ==
    ASSUME NEW h, h.kind = "Via"
    PROVE  ValueText(h) = ListText(Each(HopText, h.val))
<1>1. h.kind \notin AddressKinds
  BY DEF AddressKinds
<1> QED
  BY <1>1 DEF ValueText, ListText, NumberKinds, TextKinds, RouteKinds

\* What a Via header is written as again, when it is cloned, has no tokens but
\* those that it was read from and the ones in between.
LEMMA ViaTextType ==
    ASSUME NEW T, Glue \subseteq T, ViaName \in T, NEW hops \in Seq(Hops(T))
    PROVE  /\ HeaderText(CloneHeader(Header("Via", hops))) \in Seq(T)
           /\ NameOf(CloneHeader(Header("Via", hops))) = ViaName
<1> DEFINE h == Header("Via", hops)
           clones == Each(CloneHop, hops)
           texts == Each(HopText, clones)
           c == Header("Via", clones)
           start == <<ViaName, Colon, Space>>
           sep == <<Comma, Space>>
<1>1. h.kind = "Via" /\ h.val = hops /\ c.kind = "Via" /\ c.val = clones
  BY DEF Header
<1>2. CloneHeader(h) = c
  BY <1>1 DEF CloneHeader, AddressKinds
<1>3. clones \in Seq(Hops(T))
  <2>1. \A i \in DOMAIN hops : CloneHop(hops[i]) \in Hops(T)
    BY CloneHopType
  <2> QED
    BY <2>1 DEF Each
<1>4. texts \in Seq(Seq(T))
  <2> HIDE DEF clones
  <2>1. \A i \in DOMAIN clones : HopText(clones[i]) \in Seq(T)
    BY <1>3, HopTextType
  <2> QED
    BY <1>3, <2>1 DEF Each
<1>5. NameOf(c) = ViaName
  BY <1>1 DEF NameOf, ViaName
<1>6. ValueText(c) = Join(texts, sep)
  BY <1>1, ValueOfVia, ListIs
<1>7. HeaderText(c) = start \o ValueText(c)
  BY <1>5 DEF HeaderText, Colon, Space
<1>8. Comma \in T /\ Space \in T /\ Colon \in T
  BY DEF Glue
<1>9. start \in Seq(T) /\ sep \in Seq(T)
  BY <1>8
<1> HIDE DEF texts, start, sep, c, h
<1>10. Join(texts, sep) \in Seq(T)
  BY <1>4, <1>9, JoinType
<1>11. start \o Join(texts, sep) \in Seq(T)
  BY <1>9, <1>10, CatType
<1> QED
  BY <1>2, <1>5, <1>6, <1>7, <1>11 DEF h



-----------------------------------------------------------------------------
(* URIs and addresses over any tokens *)

\* The word "sips", by name.
SipsWord == "sips"

\* The token "&", by name.
Ampersand == "&"

\* The tokens that a URI and an address are written with.
UriGlue == {SipWord, SipsWord, Colon, AtSign, Semi, QMark, Ampersand, Equals, Quote}

\* URIs whose parts are over T.
URIs(T) == [encrypted : BOOLEAN, user : Seq(Seq(T)), password : Seq(Seq(T)), host : Seq(T),
            port : Seq(T), params : Seq(Lists(T)), headers : Seq(Lists(T))]

\* Such a URI from its parts.
URIRecord(encrypted, user, password, host, port, params, headers) ==
    [encrypted |-> encrypted, user |-> user, password |-> password, host |-> host, port |-> port,
     params |-> params, headers |-> headers]

\* A record of these parts is a URI.
LEMMA URIIn ==
    ASSUME NEW T, NEW encrypted \in BOOLEAN, NEW user \in Seq(Seq(T)),
           NEW password \in Seq(Seq(T)), NEW host \in Seq(T), NEW port \in Seq(T),
           NEW params \in Seq(Lists(T)), NEW headers \in Seq(Lists(T))
    PROVE  URIRecord(encrypted, user, password, host, port, params, headers) \in URIs(T)
  BY DEF URIRecord, URIs

\* NewURI gives a URI.
LEMMA NewURIType ==
    ASSUME NEW T, NEW user \in Seq(Seq(T)), NEW host \in Seq(T), NEW port \in Seq(T)
    PROVE  NewURI(user, host, port) \in URIs(T)
<1>0. <<>> \in Lists(T)
  BY NoneIn
<1>1. Some(<<>>) \in Seq(Lists(T)) /\ Nil \in Seq(Seq(T)) /\ FALSE \in BOOLEAN
  BY <1>0, EmptySeq DEF Some, Nil
<1>2. NewURI(user, host, port) =
        URIRecord(FALSE, user, Nil, host, port, Some(<<>>), Some(<<>>))
  BY DEF NewURI, URIRecord
<1>3. Some(<<>>) \in Seq(Lists(T))
  BY <1>1
<1>4. Nil \in Seq(Seq(T))
  BY <1>1
<1> HIDE DEF URIRecord
<1> QED
  BY <1>2, <1>3, <1>4, URIIn

\* The URI that a failed parse gives.
LEMMA BadURIType ==
    ASSUME NEW T
    PROVE  BadURI.uri \in URIs(T)
<1>1. BadURI.uri = NewURI(Nil, <<>>, Nil)
  BY DEF BadURI
<1>2. Nil \in Seq(Seq(T)) /\ Nil \in Seq(T) /\ <<>> \in Seq(T)
  BY EmptySeq DEF Nil
<1> QED
  BY <1>1, <1>2, NewURIType

\* ParseUserInfo splits a text.
LEMMA UserInfoType ==
    ASSUME NEW T, NEW text \in Seq(T)
    PROVE  ParseUserInfo(text).user \in Seq(Seq(T)) /\ ParseUserInfo(text).password \in Seq(Seq(T))
<1> DEFINE colon == FirstOf(text, {Colon})
<1>1. colon \in 0..Len(text) /\ Len(text) \in Nat
  BY FirstType
<1>2. CASE colon = 0
  <2>1. ParseUserInfo(text) = [user |-> Some(text), password |-> Nil]
    BY <1>2 DEF ParseUserInfo, Colon
  <2>2. Nil \in Seq(Seq(T)) /\ Some(text) \in Seq(Seq(T))
    BY EmptySeq DEF Nil, Some
  <2> QED
    BY <2>1, <2>2
<1>3. CASE colon # 0
  <2>1. ParseUserInfo(text) = [user |-> Some(Upto(text, colon - 1)),
                               password |-> Some(After(text, colon))]
    BY <1>3 DEF ParseUserInfo, Colon
  <2> HIDE DEF colon
  <2>2. colon - 1 \in Int /\ colon - 1 <= Len(text) /\ colon \in Nat
    BY <1>1
  <2>3. Upto(text, colon - 1) \in Seq(T)
    BY <2>2, UptoType
  <2>4. After(text, colon) \in Seq(T)
    BY <2>2, AfterType
  <2>5. Some(Upto(text, colon - 1)) \in Seq(Seq(T)) /\ Some(After(text, colon)) \in Seq(Seq(T))
    BY <2>3, <2>4 DEF Some
  <2> QED
    BY <2>1, <2>5
<1> QED
  BY <1>2, <1>3

\* URIOf gives a URI of the parts that it is given.
LEMMA URIOfType ==
    ASSUME NEW T, NEW encrypted \in BOOLEAN, NEW userInfo, userInfo.user \in Seq(Seq(T)),
           userInfo.password \in Seq(Seq(T)), NEW hostPort, hostPort.host \in Seq(T),
           hostPort.port \in Seq(T), NEW tail, NEW params, params.params \in Lists(T),
           NEW headers, headers.params \in Lists(T)
    PROVE  URIOf(encrypted, userInfo, hostPort, tail, params, headers).uri \in URIs(T)
<1> DEFINE u == URIRecord(encrypted, userInfo.user, userInfo.password, hostPort.host,
                          hostPort.port, Some(params.params), Some(headers.params))
           result == URIOf(encrypted, userInfo, hostPort, tail, params, headers)
<1>1. result = BadURI \/ result = [err |-> FALSE, uri |-> u]
  BY DEF URIOf, URIRecord
<1>2. Some(params.params) \in Seq(Lists(T))
  BY DEF Some
<1>3. Some(headers.params) \in Seq(Lists(T))
  BY DEF Some
<1>4. u \in URIs(T)
  BY <1>2, <1>3, URIIn
<1> HIDE DEF u, result
<1>5. CASE result = BadURI
  BY <1>5, BadURIType DEF result
<1>6. CASE result = [err |-> FALSE, uri |-> u]
  BY <1>4, <1>6 DEF result
<1> QED
  BY <1>1, <1>5, <1>6

\* What follows the user of a URI.
LEMMA AfterUserType ==
    ASSUME NEW T, NEW encrypted \in BOOLEAN, NEW userInfo, userInfo.user \in Seq(Seq(T)),
           userInfo.password \in Seq(Seq(T)), NEW cut, cut.head \in Seq(T), cut.tail \in Seq(T)
    PROVE  ParseAfterUser(encrypted, userInfo, cut).uri \in URIs(T)
<1> DEFINE none == [params |-> <<>>, used |-> 0, err |-> FALSE]
           some == ParseParams(cut.tail, ";", ";", "?", TRUE, TRUE)
           params == IF cut.tail # <<>> /\ cut.tail[1] = "?" THEN none ELSE some
           rest == After(cut.tail, params.used)
           headers == ParseParams(rest, "?", "&", "", TRUE, FALSE)
           hostPort == ParseHostPort(cut.head)
<1>1. ParseAfterUser(encrypted, userInfo, cut) =
        URIOf(encrypted, userInfo, hostPort, cut.tail, params, headers)
  BY DEF ParseAfterUser, ParseHeadersOfURI
<1>2. none.params \in Lists(T) /\ none.used \in Nat
  BY NoneIn
<1>3. some.params \in Lists(T) /\ some.used \in Nat
  BY ParseParamsType
<1>4. params = none \/ params = some
  OBVIOUS
<1> HIDE DEF none, some, params
<1>5. params.params \in Lists(T) /\ params.used \in Nat
  BY <1>2, <1>3, <1>4
<1>6. rest \in Seq(T)
  BY <1>5, AfterType
<1> HIDE DEF rest
<1>7. headers.params \in Lists(T)
  BY <1>6, ParseParamsType
<1>8. hostPort.host \in Seq(T) /\ hostPort.port \in Seq(T)
  BY HostPortType
<1> HIDE DEF headers, hostPort
<1> QED
  BY <1>1, <1>5, <1>7, <1>8, URIOfType

\* The URI that ParseSipURI gives is made of the tokens of the text.
LEMMA ParseSipURIType ==
    ASSUME NEW T, NEW text \in Seq(T)
    PROVE  ParseSipURI(text).uri \in URIs(T)
<1> DEFINE at == FirstOf(text, {AtSign})
           rest == After(text, IF at = 0 THEN 2 ELSE at)
           nobody == [user |-> Nil, password |-> Nil]
           info == IF at = 0 THEN nobody ELSE ParseUserInfo(SubSeq(text, 3, at - 1))
           cut == CutAt(rest, Mark(rest))
           encrypted == (text[1] = "sips")
<1>1. \/ ParseSipURI(text) = BadURI
      \/ ParseSipURI(text) = ParseAfterUser(encrypted, info, cut)
  BY DEF ParseSipURI, AtSign
<1>2. at \in 0..Len(text) /\ Len(text) \in Nat
  BY FirstType
<1>3. encrypted \in BOOLEAN
  OBVIOUS
<1>4. info.user \in Seq(Seq(T)) /\ info.password \in Seq(Seq(T))
  <2>1. CASE at = 0
    <3>1. info = nobody /\ Nil \in Seq(Seq(T))
      BY <2>1, EmptySeq DEF Nil
    <3> QED
      BY <3>1
  <2>2. CASE at # 0
    <3>1. at - 1 \in Int /\ at - 1 <= Len(text) /\ 3 \in Nat \ {0}
      BY <1>2
    <3>2. info = ParseUserInfo(SubSeq(text, 3, at - 1))
      BY <2>2
    <3> HIDE DEF at, info
    <3>3. SubSeq(text, 3, at - 1) \in Seq(T)
      BY <3>1, StretchType
    <3> QED
      BY <3>2, <3>3, UserInfoType
  <2> QED
    BY <2>1, <2>2
<1>5. rest \in Seq(T)
  <2>1. (IF at = 0 THEN 2 ELSE at) \in Nat
    BY <1>2
  <2> QED
    BY <2>1, AfterType
<1> HIDE DEF info, rest, encrypted
<1>6. cut.head \in Seq(T) /\ cut.tail \in Seq(T)
  <2>1. Mark(rest) \in 0..Len(rest)
    <3>1. FirstOf(rest, {";"}) \in 0..Len(rest)
      BY <1>5, FirstType
    <3>2. FirstOf(rest, {"?"}) \in 0..Len(rest)
      BY <1>5, FirstType
    <3> QED
      BY <3>1, <3>2 DEF Mark
  <2> QED
    BY <1>5, <2>1, CutType
<1> HIDE DEF cut
<1>7. ParseAfterUser(encrypted, info, cut).uri \in URIs(T)
  BY <1>3, <1>4, <1>6, AfterUserType
<1> QED
  BY <1>1, <1>7, BadURIType

\* The URI that ParseURI gives is made of the tokens of the text.
LEMMA ParseURIType ==
    ASSUME NEW T, NEW text \in Seq(T)
    PROVE  ParseURI(text).uri \in URIs(T)
<1>1. ParseURI(text) = BadURI \/ ParseURI(text) = ParseSipURI(text)
  BY DEF ParseURI
<1> QED
  BY <1>1, BadURIType, ParseSipURIType

\* The text of a URI is made of its tokens and those in between.
LEMMA UriTextType ==
    ASSUME NEW T, UriGlue \subseteq T, NEW uri \in URIs(T)
    PROVE  UriText(uri) \in Seq(T)
<1> DEFINE scheme == <<IF uri.encrypted THEN SipsWord ELSE SipWord, Colon>>
           password == IF Shown(uri.password) THEN <<Colon>> \o uri.password[1] ELSE <<>>
           user == IF ~Shown(uri.user) THEN <<>> ELSE (uri.user[1] \o password) \o <<AtSign>>
           port == IF uri.port = Nil THEN <<>> ELSE <<Colon, uri.port[1]>>
           params == TailText(uri.params, Semi, Semi)
           headers == TailText(uri.headers, QMark, Ampersand)
<1>1. /\ uri.user \in Seq(Seq(T)) /\ uri.password \in Seq(Seq(T)) /\ uri.host \in Seq(T)
      /\ uri.port \in Seq(T) /\ uri.params \in Seq(Lists(T))
      /\ uri.headers \in Seq(Lists(T))
  BY DEF URIs
<1>2. /\ SipWord \in T /\ SipsWord \in T /\ Colon \in T /\ AtSign \in T /\ Semi \in T /\ QMark \in T
      /\ Ampersand \in T /\ Equals \in T /\ Quote \in T
  BY DEF UriGlue
<1>3. UriText(uri) = ((((scheme \o user) \o uri.host) \o port) \o params) \o headers
  BY DEF UriText, SipsWord, SipWord, Colon, AtSign, Semi, QMark, Ampersand
<1>4. scheme \in Seq(T)
  BY <1>2
<1>5. password \in Seq(T)
  <2>1. CASE ~Shown(uri.password)
    BY <2>1, EmptySeq
  <2>2. CASE Shown(uri.password)
    <3>1. uri.password[1] \in Seq(T)
      BY <1>1, <2>2 DEF Shown, Nil
    <3>2. <<Colon>> \in Seq(T)
      BY <1>2
    <3>3. <<Colon>> \o uri.password[1] \in Seq(T)
      BY <3>1, <3>2, CatType
    <3> QED
      BY <2>2, <3>3
  <2> QED
    BY <2>1, <2>2
<1> HIDE DEF password
<1>6. user \in Seq(T)
  <2>1. CASE ~Shown(uri.user)
    BY <2>1, EmptySeq
  <2>2. CASE Shown(uri.user)
    <3>1. uri.user[1] \in Seq(T)
      BY <1>1, <2>2 DEF Shown, Nil
    <3>2. <<AtSign>> \in Seq(T)
      BY <1>2
    <3>3. uri.user[1] \o password \in Seq(T)
      BY <1>5, <3>1, CatType
    <3>4. (uri.user[1] \o password) \o <<AtSign>> \in Seq(T)
      BY <3>2, <3>3, CatType
    <3> QED
      BY <2>2, <3>4
  <2> QED
    BY <2>1, <2>2
<1>7. port \in Seq(T)
  <2>1. CASE uri.port = Nil
    BY <2>1, EmptySeq
  <2>2. CASE uri.port # Nil
    <3>1. uri.port[1] \in T
      BY <1>1, <2>2 DEF Nil
    <3> QED
      BY <1>2, <2>2, <3>1
  <2> QED
    BY <2>1, <2>2
<1>8. params \in Seq(T)
  BY <1>1, <1>2, TailTextType
<1>9. headers \in Seq(T)
  BY <1>1, <1>2, TailTextType
<1> HIDE DEF scheme, user, port, params, headers
<1>10. scheme \o user \in Seq(T)
  BY <1>4, <1>6, CatType
<1>11. (scheme \o user) \o uri.host \in Seq(T)
  BY <1>1, <1>10, CatType
<1>12. ((scheme \o user) \o uri.host) \o port \in Seq(T)
  BY <1>7, <1>11, CatType
<1>13. (((scheme \o user) \o uri.host) \o port) \o params \in Seq(T)
  BY <1>8, <1>12, CatType
<1>14. ((((scheme \o user) \o uri.host) \o port) \o params) \o headers \in Seq(T)
  BY <1>9, <1>13, CatType
<1> QED
  BY <1>3, <1>14

================================================================================
