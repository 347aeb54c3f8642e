----------------------------- MODULE DeviceProofs ------------------------------
(***************************************************************************)
(* Theorems about what a device writes and what the parser makes of it.    *)
(* Every line that a device with a form of F writes is in LinesOf(F), and  *)
(* a packet of such lines gives no request or one that carries only        *)
(* headers of F: the addresses, digests and routes of the forms in F; the  *)
(* start line of the one answer the device is known to give is read as     *)
(* such; a text is whole (Whole) if every start line in it is followed by  *)
(* its own headers. No state is involved, so that what is said here holds  *)
(* for any packet the framing may cut.                                     *)
(***************************************************************************)
EXTENDS Inbound, MessageProofs, FiniteSetTheorems

-----------------------------------------------------------------------------
(* The device's text *)

\* What a line of a header is.
LEMMA LineIs ==
    ASSUME NEW name \in Token, NEW text \in Seq(Token)
    PROVE  Line(name, text) = HeaderLine(name, text)
<1> DEFINE c == <<Colon, Space>>
<1>1. Colon \in Token /\ Space \in Token
  BY MarksAreTokens
<1>2. Line(name, text) = <<name, Colon, Space>> \o text
  BY DEF Line, Colon, Space
<1>3. <<name, Colon, Space>> = Cons(name, c)
  BY Three
<1>4. c = Cons(Colon, <<Space>>)
  BY Two
<1>5. <<Space>> \in Seq(Token)
  BY <1>1
<1>9. c \in Seq(Token)
  BY <1>1
<1>6. <<Space>> \o text = Cons(Space, text)
  BY DEF Cons
<1> HIDE DEF c
<1>7. Cons(name, c) \o text = Cons(name, c \o text)
  BY <1>9, ConsCat
<1>8. Cons(Colon, <<Space>>) \o text = Cons(Colon, <<Space>> \o text)
  <2> DEFINE o == <<Space>>
  <2>1. o \in Seq(Token)
    BY <1>5
  <2> HIDE DEF o
  <2>2. Cons(Colon, o) \o text = Cons(Colon, o \o text)
    BY <1>1, <2>1, ConsCat
  <2> QED
    BY <2>2 DEF o
<1> QED
  BY <1>2, <1>3, <1>4, <1>6, <1>7, <1>8 DEF HeaderLine

\* The texts of the headers.
ViaText(n) == <<SIPWord, Slash, NumberWord, Slash, TCPWord, Space, PeerWord, Colon, PortWord, Semi,
                BranchWord, Equals, Branch(n)>>
FromText(user) == (<<Langle>> \o UriOf(user, DomainWord))
      \o <<Rangle, Semi, TagWord, Equals, DWord>>
PlatformText == (<<Langle>> \o UriOf(PlatformWord, DomainWord)) \o <<Rangle>>
StartText(method) ==
    (<<method, Space>> \o UriOf(PlatformWord, DomainWord)) \o <<Space, Version>>
ProxyText == <<Langle, SipWord, Colon, ProxyWord, Rangle>>

\* These texts are made of tokens.
LEMMA TextsTyped ==
    ASSUME NEW n, Branch(n) \in Token, NEW user \in Word, NEW method \in Token
    PROVE  /\ ViaText(n) \in Seq(Token) /\ FromText(user) \in Seq(Token)
           /\ PlatformText \in Seq(Token) /\ StartText(method) \in Seq(Token)
           /\ ProxyText \in Seq(Token)
<1>1. /\ Space \in Token /\ Colon \in Token /\ Semi \in Token /\ Slash \in Token /\ Langle \in Token
      /\ Rangle \in Token /\ Equals \in Token /\ SipWord \in Token
  BY MarksAreTokens
<1>2. FixedWords \subseteq Token
  BY FixedAreWords DEF Word
<1>3. /\ SIPWord \in Token /\ NumberWord \in Token /\ TCPWord \in Token /\ PeerWord \in Token
      /\ PortWord \in Token /\ BranchWord \in Token /\ TagWord \in Token /\ DWord \in Token
      /\ ProxyWord \in Token /\ Version \in Token
  BY <1>2 DEF FixedWords
<1>4. PlatformWord \in Word /\ DomainWord \in Word
  BY FixedAreWords DEF FixedWords
<1> DEFINE u == UriOf(user, DomainWord)
           p == UriOf(PlatformWord, DomainWord)
<1>5. u \in Seq(Token)
  BY <1>4, UriOfIs
<1>6. p \in Seq(Token)
  BY <1>4, UriOfIs
<1> HIDE DEF u, p
<1>7. ViaText(n) \in Seq(Token)
  BY <1>1, <1>3 DEF ViaText
<1>8. ProxyText \in Seq(Token)
  BY <1>1, <1>3 DEF ProxyText
<1> DEFINE a == <<Langle>>
           b == <<Rangle, Semi, TagWord, Equals, DWord>>
           c == <<Rangle>>
           d == <<method, Space>>
           e == <<Space, Version>>
<1>9. a \in Seq(Token)
  BY <1>1
<1>10. b \in Seq(Token)
  BY <1>1, <1>3
<1>11. c \in Seq(Token)
  BY <1>1
<1>12. d \in Seq(Token)
  BY <1>1
<1>13. e \in Seq(Token)
  BY <1>1, <1>3
<1> HIDE DEF a, b, c, d, e
<1>14. a \o u \in Seq(Token) /\ a \o p \in Seq(Token) /\ d \o p \in Seq(Token)
  BY <1>5, <1>6, <1>9, <1>12, CatType
<1>15. (a \o u) \o b \in Seq(Token) /\ (a \o p) \o c \in Seq(Token) /\ (d \o p) \o e \in Seq(Token)
  BY <1>10, <1>11, <1>13, <1>14, CatType
<1> QED
  BY <1>7, <1>8, <1>15 DEF FromText, PlatformText, StartText, a, b, c, d, e, u, p

\* A line of a body: words, none of them a colon.
BodyWords == (Word \ {Version}) \cup {Empty}
BodyLines == {l \in Seq(BodyWords) : l # <<>>}

\* What DeviceAssumption calls a word is one, and is no mark of the framing.
LEMMA WordOf ==
    ASSUME NEW token, IsWord(token)
    PROVE  token \in Word /\ token # Version /\ token # LengthName
  BY DEF IsWord, Word, Token, Marks, MarkSet, LengthName, Space, Tab, Colon, Semi, Comma, Slash,
         Langle, Rangle, Quote, AtSign, Equals, QMark, Empty

\* Sequences of two elements of a set.
LEMMA TwoIn ==
    ASSUME NEW X, NEW x \in X, NEW y \in X
    PROVE  <<x, y>> \in Seq(X)
  OBVIOUS

\* The same for three elements.
LEMMA ThreeIn ==
    ASSUME NEW X, NEW x \in X, NEW y \in X, NEW z \in X
    PROVE  <<x, y, z>> \in Seq(X)
  OBVIOUS

\* A body has lines without marks, and none is empty.
LEMMA BodyIs ==
    ASSUME NEW form \in Forms
    PROVE  BodyOf(form) \in Seq(BodyLines)
<1>1. IsForm(form)
  BY DeviceAssumption
<1> DEFINE b == BodyOf(form)
           S == Seq(STRING \cup {"<?xml", "CmdType", "ascii"})
<1>2. b \in Seq(S)
  <2>1. CASE form.cmd = ""
    <3>1. b = <<>>
      BY <2>1 DEF BodyOf
    <3> HIDE DEF b, S
    <3> QED
      BY <3>1, EmptySeq
  <2>2. CASE form.cmd # ""
    <3> DEFINE X == STRING \cup {"<?xml", "CmdType", "ascii"}
               d == Declaration(form.charset)
               e == Element("CmdType", form.cmd)
    <3>1. form.items \in Seq(Seq(STRING)) /\ form.charset \in STRING /\ form.cmd \in STRING
      BY <1>1 DEF IsForm
    <3>2. d \in S /\ e \in S
      <4>1. form.charset \in X /\ form.cmd \in X /\ "<?xml" \in X /\ "CmdType" \in X
                  /\ "ascii" \in X
        BY <3>1
      <4> HIDE DEF X
      <4>2. Declaration(form.charset) \in Seq(X)
        BY <4>1, TwoIn, Zenon DEF Declaration
      <4>3. Element("CmdType", form.cmd) \in Seq(X)
        <5> DEFINE x == "CmdType"
                   y == "ascii"
                   z == form.cmd
        <5>1. x \in X /\ y \in X /\ z \in X
          BY <4>1
        <5>2. Element("CmdType", form.cmd) = <<x, y, z>>
          BY DEF Element
        <5> HIDE DEF x, y, z
        <5>3. <<x, y, z>> \in Seq(X)
          BY <5>1, ThreeIn
        <5> QED
          BY <5>2, <5>3
      <4> QED
        BY <4>2, <4>3 DEF X
    <3>3. form.items \in Seq(S)
      <4>1. Seq(STRING) \subseteq S
        BY SeqMonotonic
      <4> HIDE DEF S
      <4> QED
        BY <3>1, <4>1, SeqMonotonic
    <3>4. b = <<d, e>> \o form.items
      BY <2>2 DEF BodyOf
    <3> HIDE DEF d, e, b, S
    <3>5. <<d, e>> \in Seq(S)
      BY <3>2
    <3> QED
      BY <3>3, <3>4, <3>5, CatType
  <2> QED
    BY <2>1, <2>2
<1>3. ASSUME NEW i \in 1..Len(b)
      PROVE  b[i] \in BodyLines
  <2>1. b[i] \in S
    BY <1>2, ElementOfSeq
  <2>2. i \in DOMAIN BodyOf(form)
    BY <1>2
  <2>3. b[i] # <<>> /\ \A t \in Range(b[i]) : t = "" \/ IsWord(t)
    BY <1>1, <2>2 DEF IsForm
  <2> DEFINE l == b[i]
             n == Len(l)
  <2>4. \A k \in 1..n : l[k] \in Range(l)
    BY <2>1 DEF Range
  <2>5. \A k \in 1..n : l[k] \in BodyWords
    BY <2>3, <2>4, WordOf DEF Empty, BodyWords
  <2>6. l = [k \in 1..n |-> l[k]] /\ n \in Nat
    BY <2>1
  <2> HIDE DEF b, l, n
  <2>7. [k \in 1..n |-> l[k]] \in Seq(BodyWords)
    BY <2>5, <2>6
  <2>8. l \in Seq(BodyWords) /\ l # <<>>
    BY <2>3, <2>6, <2>7 DEF l
  <2> QED
    BY <2>8 DEF l, BodyLines
<1>4. b = [i \in 1..Len(b) |-> b[i]] /\ Len(b) \in Nat
  BY <1>2
<1> HIDE DEF b
<1>5. [i \in 1..Len(b) |-> b[i]] \in Seq(BodyLines)
  BY <1>3, <1>4
<1> QED
  BY <1>4, <1>5 DEF b

-----------------------------------------------------------------------------
(* The credentials *)

Field(key, val) == <<key, Equals, val, Comma>>

\* The first n fields of a text: keys and their values.
HasFields(d, n, keys, vals) ==
    /\ d \in Seq(Token) /\ Len(d) = 4 * n
    /\ \A i \in 1..n : /\ d[4 * i - 3] = keys[i] /\ d[4 * i - 2] = Equals
                       /\ d[4 * i - 1] = vals[i] /\ d[4 * i] = Comma

\* The tokens of a field of a digest.
LEMMA FieldIs ==
    ASSUME NEW key \in Token, NEW val \in Token, NEW f, f = Field(key, val)
    PROVE  /\ f \in Seq(Token) /\ Len(f) = 4
           /\ f[1] = key /\ f[2] = Equals /\ f[3] = val /\ f[4] = Comma
  BY MarksAreTokens DEF Field

\* Nothing has no fields.
LEMMA NoFields ==
    ASSUME NEW n \in Nat, n = 0, NEW keys, NEW vals
    PROVE  HasFields(<<>>, n, keys, vals)
<1>1. <<>> \in Seq(Token) /\ Len(<<>>) = 4 * n
  BY EmptySeq
<1> QED
  BY <1>1 DEF HasFields

\* One field more.
LEMMA FieldsOn ==
    ASSUME NEW d, NEW n \in Nat, NEW keys, NEW vals, HasFields(d, n, keys, vals),
           keys[n + 1] \in Token, vals[n + 1] \in Token
    PROVE  HasFields(d \o Field(keys[n + 1], vals[n + 1]), n + 1, keys, vals)
<1> DEFINE f == Field(keys[n + 1], vals[n + 1])
           e == d \o f
<1>0. f = Field(keys[n + 1], vals[n + 1])
  OBVIOUS
<1> HIDE DEF f
<1>1. /\ f \in Seq(Token) /\ Len(f) = 4
      /\ f[1] = keys[n + 1] /\ f[2] = Equals /\ f[3] = vals[n + 1] /\ f[4] = Comma
  BY <1>0, FieldIs
<1>2. d \in Seq(Token) /\ Len(d) = 4 * n
  BY DEF HasFields
<1>3. e \in Seq(Token) /\ Len(e) = Len(d) + Len(f)
  <2>1. f \in Seq(Token)
    BY <1>1
  <2> QED
    BY <1>2, <2>1, CatType
<1>9. f \in Seq(Token)
  BY <1>1
<1>4. \A i \in 1..Len(d) : e[i] = d[i]
  BY <1>2, <1>9, CatLeft
<1>5. \A i \in 1..Len(f) : e[Len(d) + i] = f[i]
  BY <1>2, <1>9, CatRight
<1> HIDE DEF e
<1>6. ASSUME NEW i \in 1..(n + 1)
      PROVE  /\ e[4 * i - 3] = keys[i] /\ e[4 * i - 2] = Equals
             /\ e[4 * i - 1] = vals[i] /\ e[4 * i] = Comma
  <2>1. CASE i \in 1..n
    <3>1. /\ d[4 * i - 3] = keys[i] /\ d[4 * i - 2] = Equals
          /\ d[4 * i - 1] = vals[i] /\ d[4 * i] = Comma
      BY <2>1 DEF HasFields
    <3>2. /\ 4 * i - 3 \in 1..Len(d) /\ 4 * i - 2 \in 1..Len(d)
          /\ 4 * i - 1 \in 1..Len(d) /\ 4 * i \in 1..Len(d)
      BY <1>2, <2>1
    <3> QED
      BY <1>4, <3>1, <3>2
  <2>2. CASE i = n + 1
    <3>1. 1 \in 1..Len(f) /\ 2 \in 1..Len(f) /\ 3 \in 1..Len(f) /\ 4 \in 1..Len(f)
      BY <1>1
    <3>2. /\ e[Len(d) + 1] = f[1] /\ e[Len(d) + 2] = f[2]
          /\ e[Len(d) + 3] = f[3] /\ e[Len(d) + 4] = f[4]
      BY <1>5, <3>1
    <3>3. /\ 4 * i - 3 = Len(d) + 1 /\ 4 * i - 2 = Len(d) + 2
          /\ 4 * i - 1 = Len(d) + 3 /\ 4 * i = Len(d) + 4
      BY <1>2, <2>2
    <3> QED
      BY <1>1, <2>2, <3>2, <3>3
  <2> QED
    BY <2>1, <2>2
<1>7. Len(e) = 4 * (n + 1)
  BY <1>1, <1>2, <1>3
<1> QED
  BY <1>3, <1>6, <1>7 DEF HasFields, e, f

\* AuthFromValue finds the value of each key.
LEMMA FieldAt ==
    ASSUME NEW d, NEW n \in Nat, NEW keys, NEW vals, HasFields(d, n, keys, vals),
           \A i \in 1..n : keys[i] \notin {Equals, Comma},
           \A i \in 1..n : \A j \in 1..n : keys[i] = keys[j] => i = j, NEW i \in 1..n
    PROVE  AuthField(d, keys[i]) = vals[i]
<1> DEFINE at == {p \in 1..(Len(d) - 2) : d[p] = keys[i] /\ d[p + 1] = Equals}
           k == 4 * i - 3
<1>1. d \in Seq(Token) /\ Len(d) = 4 * n
  BY DEF HasFields
<1>2. k \in 1..(Len(d) - 2) /\ k + 1 = 4 * i - 2 /\ k + 2 = 4 * i - 1
  BY <1>1
<1>3. d[k] = keys[i] /\ d[k + 1] = Equals /\ d[k + 2] = vals[i]
  BY <1>2 DEF HasFields
<1>4. ASSUME NEW p \in at
      PROVE  p = k
  <2>1. PICK q \in 1..n : p = 4 * q - 3 \/ p = 4 * q - 2 \/ p = 4 * q - 1 \/ p = 4 * q
    <3>1. p \in 1..(4 * n)
      BY <1>1
    <3> DEFINE q == (p + 3) \div 4
    <3>2. q \in 1..n /\ (p = 4 * q - 3 \/ p = 4 * q - 2 \/ p = 4 * q - 1 \/ p = 4 * q)
      BY <3>1
    <3> QED
      BY <3>2
  <2>2. /\ d[4 * q - 3] = keys[q] /\ d[4 * q - 2] = Equals
        /\ d[4 * q - 1] = vals[q] /\ d[4 * q] = Comma
    BY DEF HasFields
  <2>3. Equals # Comma
    BY MarksDiffer
  <2>4. d[p] = keys[i] /\ d[p + 1] = Equals
    OBVIOUS
  <2>5. p # 4 * q - 2 /\ p # 4 * q
    BY <2>2, <2>4
  <2>6. p # 4 * q - 1
    <3>1. p = 4 * q - 1 => p + 1 = 4 * q
      OBVIOUS
    <3> QED
      BY <2>2, <2>3, <2>4, <3>1
  <2>7. p = 4 * q - 3
    BY <2>1, <2>5, <2>6
  <2>8. keys[q] = keys[i]
    BY <2>2, <2>4, <2>7
  <2>9. q = i
    BY <2>8
  <2> QED
    BY <2>7, <2>9
<1>5. k \in at
  BY <1>2, <1>3
<1>6. at = {k}
  BY <1>4, <1>5
<1>7. Max({k}) = k
  BY MaxIs
<1>8. AuthField(d, keys[i]) = IF at = {} THEN "" ELSE d[Max(at) + 2]
  BY DEF AuthField, Equals
<1> HIDE DEF at, k
<1> QED
  BY <1>3, <1>6, <1>7, <1>8

\* The fields of a response to the platform's challenge.
DigestKeys == <<UserKey, RealmKey, NonceKey, UriKey, QopKey, NcKey, CnonceKey, ResponseKey>>
DigestVals(r) == <<DeviceWord, DomainWord, NWord, UWord, AuthWord, OneWord, CWord, r>>

\* The digest of a device has its eight fields.
LEMMA DigestIs ==
    ASSUME NEW password, NEW r \in Token, r = ResponseTo(<<"device">>, password)
    PROVE  HasFields(Digest(password), 8, DigestKeys, DigestVals(r))
<1> DEFINE keys == DigestKeys
           vals == DigestVals(r)
           d1 == Field(keys[1], vals[1])
           d2 == d1 \o Field(keys[2], vals[2])
           d3 == d2 \o Field(keys[3], vals[3])
           d4 == d3 \o Field(keys[4], vals[4])
           d5 == d4 \o Field(keys[5], vals[5])
           d6 == d5 \o Field(keys[6], vals[6])
           d7 == d6 \o Field(keys[7], vals[7])
           d8 == d7 \o Field(keys[8], vals[8])
<1>1. DigestWords \subseteq Token /\ DomainWord \in Token
  BY FixedAreWords DEF Word, FixedWords
<1>2. /\ keys[1] \in Token /\ keys[2] \in Token /\ keys[3] \in Token /\ keys[4] \in Token
      /\ keys[5] \in Token /\ keys[6] \in Token /\ keys[7] \in Token /\ keys[8] \in Token
  BY <1>1 DEF DigestWords, DigestKeys
<1>3. /\ vals[1] \in Token /\ vals[2] \in Token /\ vals[3] \in Token /\ vals[4] \in Token
      /\ vals[5] \in Token /\ vals[6] \in Token /\ vals[7] \in Token /\ vals[8] \in Token
  BY <1>1 DEF DigestWords, DigestVals
<1>4. /\ keys[1] = UserKey /\ keys[2] = RealmKey /\ keys[3] = NonceKey /\ keys[4] = UriKey
      /\ keys[5] = QopKey /\ keys[6] = NcKey /\ keys[7] = CnonceKey /\ keys[8] = ResponseKey
  BY DEF DigestKeys
<1>5. /\ vals[1] = DeviceWord /\ vals[2] = DomainWord /\ vals[3] = NWord /\ vals[4] = UWord
      /\ vals[5] = AuthWord /\ vals[6] = OneWord /\ vals[7] = CWord /\ vals[8] = r
  BY DEF DigestVals
<1> HIDE DEF keys, vals
<1>6. Digest(password) = d8
  BY <1>4, <1>5 DEF Digest, Field, UserKey, RealmKey, NonceKey, UriKey, QopKey, NcKey, CnonceKey,
         ResponseKey, DeviceWord, DomainWord, NWord, UWord, AuthWord, OneWord, CWord, Equals, Comma
<1>11. HasFields(d1, 0 + 1, keys, vals)
  <2>1. HasFields(<<>>, 0, keys, vals)
    BY NoFields
  <2> DEFINE none == <<>>
  <2>5. HasFields(none, 0, keys, vals)
    BY <2>1
  <2>6. keys[0 + 1] \in Token /\ vals[0 + 1] \in Token
    BY <1>2, <1>3
  <2> HIDE DEF none
  <2>2. HasFields(none \o Field(keys[0 + 1], vals[0 + 1]), 0 + 1, keys, vals)
    BY <2>5, <2>6, FieldsOn
  <2>3. Field(keys[1], vals[1]) \in Seq(Token)
    BY <1>2, <1>3, FieldIs
  <2>4. <<>> \o Field(keys[1], vals[1]) = Field(keys[1], vals[1])
    BY <2>3, CatEmpty
  <2> QED
    BY <2>2, <2>4 DEF none
<1> HIDE DEF d1
<1>12. HasFields(d2, 1 + 1, keys, vals)
  BY <1>2, <1>3, <1>11, FieldsOn
<1> HIDE DEF d2
<1>13. HasFields(d3, 2 + 1, keys, vals)
  BY <1>2, <1>3, <1>12, FieldsOn
<1> HIDE DEF d3
<1>14. HasFields(d4, 3 + 1, keys, vals)
  BY <1>2, <1>3, <1>13, FieldsOn
<1> HIDE DEF d4
<1>15. HasFields(d5, 4 + 1, keys, vals)
  BY <1>2, <1>3, <1>14, FieldsOn
<1> HIDE DEF d5
<1>16. HasFields(d6, 5 + 1, keys, vals)
  BY <1>2, <1>3, <1>15, FieldsOn
<1> HIDE DEF d6
<1>17. HasFields(d7, 6 + 1, keys, vals)
  BY <1>2, <1>3, <1>16, FieldsOn
<1> HIDE DEF d7
<1>18. HasFields(d8, 7 + 1, keys, vals)
  BY <1>2, <1>3, <1>17, FieldsOn
<1> HIDE DEF d8
<1> QED
  BY <1>6, <1>18 DEF keys, vals

\* The keys of a digest are no marks, and no two are the same.
LEMMA KeysDiffer ==
    /\ \A i \in 1..8 : DigestKeys[i] \notin {Equals, Comma}
    /\ \A i \in 1..8 : \A j \in 1..8 : DigestKeys[i] = DigestKeys[j] => i = j
<1>1. /\ UserKey \notin {Equals, Comma, RealmKey, NonceKey, UriKey,
            QopKey, NcKey, CnonceKey, ResponseKey}
      /\ RealmKey \notin {Equals, Comma, NonceKey, UriKey, QopKey, NcKey, CnonceKey, ResponseKey}
      /\ NonceKey \notin {Equals, Comma, UriKey, QopKey, NcKey, CnonceKey, ResponseKey}
      /\ UriKey \notin {Equals, Comma, QopKey, NcKey, CnonceKey, ResponseKey}
      /\ QopKey \notin {Equals, Comma, NcKey, CnonceKey, ResponseKey}
      /\ NcKey \notin {Equals, Comma, CnonceKey, ResponseKey}
      /\ CnonceKey \notin {Equals, Comma, ResponseKey}
      /\ ResponseKey \notin {Equals, Comma}
  BY DEF UserKey, RealmKey, NonceKey, UriKey, QopKey, NcKey, CnonceKey, ResponseKey, Equals, Comma
<1> DEFINE k == DigestKeys
<1>2. /\ k[1] = UserKey /\ k[2] = RealmKey /\ k[3] = NonceKey /\ k[4] = UriKey
      /\ k[5] = QopKey /\ k[6] = NcKey /\ k[7] = CnonceKey /\ k[8] = ResponseKey
  BY DEF DigestKeys
<1>3. \A i \in 1..8 : i = 1 \/ i = 2 \/ i = 3 \/ i = 4 \/ i = 5 \/ i = 6 \/ i = 7 \/ i = 8
  OBVIOUS
<1> HIDE DEF k
<1>4. \A i \in 1..8 : k[i] \notin {Equals, Comma}
  BY <1>1, <1>2, <1>3
<1>5. \A i \in 1..8 : \A j \in 1..8 : k[i] = k[j] => i = j
  BY <1>1, <1>2, <1>3
<1> QED
  BY <1>4, <1>5 DEF k
-----------------------------------------------------------------------------
(* The lines of a request *)

AuthText(form) == Digest(IF form.auth = "right" THEN Password ELSE "guess")
CSeqText(form, n) == <<ToString(n), Space, form.method>>

FirstLines(form, n) ==
    <<StartText(form.method), HeaderLine(ViaName, ViaText(n)),
      HeaderLine(FromName, FromText(form.user)), HeaderLine(ToName, PlatformText),
      HeaderLine(CallName, <<CallOf(form, n)>>), HeaderLine(CSeqName, CSeqText(form, n))>>
RouteLines(form) == IF form.routed THEN <<HeaderLine(RouteName, ProxyText)>> ELSE <<>>
AuthLines(form) == IF form.auth = "none" THEN <<>> ELSE <<HeaderLine(AuthName, AuthText(form))>>
ExpiresLines(form) ==
    IF form.expires = "" THEN <<>> ELSE <<HeaderLine(ExpiresName, <<form.expires>>)>>

\* What the assumption says of a request, in the words of the proofs.
LEMMA FormIs ==
    ASSUME NEW form \in Forms
    PROVE  /\ form.user \in Word /\ form.method \in {RegisterWord, MessageWord}
           /\ form.expires = "" \/ form.expires \in Word
           /\ form.auth # "none" => form.method = RegisterWord
           /\ form.auth \in {"none", "right", "wrong"}
<1>1. IsForm(form)
  BY DeviceAssumption
<1> QED
  BY <1>1, WordOf DEF IsForm, RegisterWord, MessageWord

\* What the n-th request is numbered with are words.
LEMMA NumberIs ==
    ASSUME NEW n \in 1..MaxSent
    PROVE  /\ Branch(n) \in Word /\ MessageCall(n) \in Word /\ ToString(n) \in Word
           /\ n \in Numbers
  BY DeviceAssumption, WordOf

\* A call identifier is a word.
LEMMA CallOfIs ==
    ASSUME NEW form \in Forms, NEW n \in 1..MaxSent
    PROVE  CallOf(form, n) \in Word
<1>1. RegWord \in Word
  BY FixedAreWords DEF FixedWords
<1> QED
  BY <1>1, NumberIs DEF CallOf, RegWord

\* A digest is a text that ends in ink, not in blanks.
LEMMA AuthTextIs ==
    ASSUME NEW form \in Forms, NEW text, text = AuthText(form)
    PROVE  /\ text \in Seq(Token) /\ text # <<>>
           /\ text[1] \notin Blank /\ text[Len(text)] \notin Blank
<1> DEFINE password == IF form.auth = "right" THEN Password ELSE "guess"
           r == ResponseTo(<<"device">>, password)
<1>1. text = Digest(password)
  BY DEF AuthText
<1>2. IsWord(r)
  BY DeviceAssumption
<1>3. r = ResponseTo(<<"device">>, password)
  OBVIOUS
<1> HIDE DEF r, password
<1>4. r \in Token
  BY <1>2, WordOf, WordIs
<1>5. HasFields(text, 8, DigestKeys, DigestVals(r))
  BY <1>1, <1>3, <1>4, DigestIs
<1>6. text \in Seq(Token) /\ Len(text) = 32 /\ text[1] = UserKey /\ text[32] = Comma
  <2>1. DigestKeys[1] = UserKey
    BY DEF DigestKeys
  <2>2. \A i \in 1..8 : text[4 * i - 3] = DigestKeys[i] /\ text[4 * i] = Comma
    BY <1>5 DEF HasFields
  <2>3. text[4 * 1 - 3] = DigestKeys[1] /\ text[4 * 8] = Comma
    BY <2>2
  <2> QED
    BY <1>5, <2>1, <2>3 DEF HasFields
<1>7. UserKey \notin Blank /\ Comma \notin Blank
  BY BlankIs DEF UserKey, Comma, Space, Tab
<1>8. text # <<>>
  <2>1. Len(text) = 32
    BY <1>6
  <2> QED
    BY <2>1
<1>9. text[Len(text)] = Comma
  BY <1>6
<1> QED
  BY <1>6, <1>7, <1>8, <1>9

\* What a device writes, part by part.
LEMMA DeviceLinesAre ==
    ASSUME NEW form \in Forms, NEW n \in 1..MaxSent
    PROVE  DeviceLines(form, n) =
                (((((FirstLines(form, n) \o RouteLines(form)) \o AuthLines(form))
                   \o ExpiresLines(form)) \o LengthLine(form)) \o << <<>> >>) \o BodyOf(form)
<1> DEFINE start == <<form.method, " ">> \o UriText(PlatformUri) \o <<" ", Version>>
           viaT == <<"SIP", "/", "2.0", "/", "TCP", " ", "peer", ":", "5060", ";", "branch", "=",
                     Branch(n)>>
           fromT == <<"<">> \o UriText(DeviceUri(form.user)) \o <<">", ";", "tag", "=", "d">>
           toT == <<"<">> \o UriText(PlatformUri) \o <<">">>
           callT == <<CallOf(form, n)>>
           cseqT == <<ToString(n), " ", form.method>>
           proxyT == <<"<", "sip", ":", "proxy", ">">>
           authT == Digest(IF form.auth = "right" THEN Password ELSE "guess")
           expiresT == <<form.expires>>
           six == <<start, Line("Via", viaT), Line("From", fromT), Line("To", toT),
                    Line("Call-ID", callT), Line("CSeq", cseqT)>>
           route == IF form.routed THEN <<Line("Record-Route", proxyT)>> ELSE <<>>
           auth == IF form.auth = "none" THEN <<>> ELSE <<Line("Authorization", authT)>>
           expires == IF form.expires = "" THEN <<>> ELSE <<Line("Expires", expiresT)>>
<1>1. DeviceLines(form, n) =
        (((((six \o route) \o auth) \o expires) \o LengthLine(form)) \o << <<>> >>) \o BodyOf(form)
  BY DEF DeviceLines
<1>2. /\ form.user \in Word /\ form.method \in Word
      /\ form.expires = "" \/ form.expires \in Word
  BY FormIs, FixedAreWords DEF FixedWords
<1>3. PlatformWord \in Word /\ DomainWord \in Word
  BY FixedAreWords DEF FixedWords
<1>4. UriText(PlatformUri) = UriOf(PlatformWord, DomainWord)
  <2>1. PlatformUri = NewURI(Some(<<PlatformWord>>), <<DomainWord>>, Nil)
    BY DEF PlatformUri, PlatformWord, DomainWord
  <2> QED
    BY <1>3, <2>1, UriTextOf
<1>5. UriText(DeviceUri(form.user)) = UriOf(form.user, DomainWord)
  <2>1. DeviceUri(form.user) = NewURI(Some(<<form.user>>), <<DomainWord>>, Nil)
    BY DEF DeviceUri, DomainWord
  <2> QED
    BY <1>2, <1>3, <2>1, UriTextOf
<1>6. start = StartText(form.method)
  BY <1>4 DEF StartText, Space
<1>7. viaT = ViaText(n)
  BY DEF ViaText, SIPWord, NumberWord, TCPWord, PeerWord, PortWord, BranchWord, Slash, Space, Colon,
         Semi, Equals
<1>8. fromT = FromText(form.user)
  BY <1>5 DEF FromText, Langle, Rangle, Semi, TagWord, Equals, DWord
<1>9. toT = PlatformText
  BY <1>4 DEF PlatformText, Langle, Rangle
<1>10. cseqT = CSeqText(form, n)
  BY DEF CSeqText, Space
<1>11. proxyT = ProxyText
  BY DEF ProxyText, Langle, SipWord, Colon, ProxyWord, Rangle
<1>12. authT = AuthText(form)
  BY DEF AuthText
<1>13. /\ ViaText(n) \in Seq(Token) /\ FromText(form.user) \in Seq(Token)
       /\ PlatformText \in Seq(Token) /\ ProxyText \in Seq(Token)
  BY <1>2, NumberIs, TextsTyped, WordIs
<1>14. cseqT \in Seq(Token)
  <2>1. ToString(n) \in Token /\ Space \in Token /\ form.method \in Token
    BY <1>2, NumberIs, WordIs, MarksAreTokens
  <2>2. CSeqText(form, n) \in Seq(Token)
    BY <2>1, ThreeIn DEF CSeqText
  <2> HIDE DEF cseqT
  <2> QED
    BY <1>10, <2>2
<1>15. callT \in Seq(Token)
  <2>1. CallOf(form, n) \in Token
    BY CallOfIs, WordIs
  <2> QED
    BY <2>1
<1>17. authT \in Seq(Token)
  BY AuthTextIs DEF AuthText
<1>31. ASSUME form.expires # ""
       PROVE  expiresT \in Seq(Token)
  <2>1. form.expires \in Token
    BY <1>2, <1>31, WordIs
  <2> QED
    BY <2>1
<1> HIDE DEF start, viaT, fromT, toT, callT, cseqT, proxyT, authT, expiresT
<1>18. NameWords \subseteq Token
  BY FixedAreWords DEF Word
<1>19. Line("Via", viaT) = HeaderLine(ViaName, ViaText(n))
  BY <1>7, <1>13, <1>18, LineIs DEF ViaName, NameWords
<1>20. Line("From", fromT) = HeaderLine(FromName, FromText(form.user))
  BY <1>8, <1>13, <1>18, LineIs DEF FromName, NameWords
<1>21. Line("To", toT) = HeaderLine(ToName, PlatformText)
  BY <1>9, <1>13, <1>18, LineIs DEF ToName, NameWords
<1>22. Line("Call-ID", callT) = HeaderLine(CallName, callT)
  BY <1>15, <1>18, LineIs DEF CallName, NameWords
<1>23. Line("CSeq", cseqT) = HeaderLine(CSeqName, CSeqText(form, n))
  BY <1>10, <1>14, <1>18, LineIs DEF CSeqName, NameWords
<1>24. Line("Record-Route", proxyT) = HeaderLine(RouteName, ProxyText)
  BY <1>11, <1>13, <1>18, LineIs DEF RouteName, NameWords
<1>25. Line("Authorization", authT) = HeaderLine(AuthName, AuthText(form))
  BY <1>12, <1>17, <1>18, LineIs DEF AuthName, NameWords
<1>26. form.expires # "" => Line("Expires", expiresT) = HeaderLine(ExpiresName, expiresT)
  BY <1>31, <1>18, LineIs DEF ExpiresName, NameWords
<1>27. six = FirstLines(form, n)
  BY <1>6, <1>19, <1>20, <1>21, <1>22, <1>23 DEF FirstLines, callT
<1>28. route = RouteLines(form)
  BY <1>24 DEF RouteLines
<1>29. auth = AuthLines(form)
  BY <1>25 DEF AuthLines
<1>30. expires = ExpiresLines(form)
  BY <1>26 DEF ExpiresLines, expiresT
<1> HIDE DEF six, route, auth, expires
<1> QED
  BY <1>1, <1>27, <1>28, <1>29, <1>30

-----------------------------------------------------------------------------
(* Addresses *)

Sections(T) == [brackets : BOOLEAN, quotes : BOOLEAN, section : Seq(T), done : Seq(Seq(T))]
NoSections == [brackets |-> FALSE, quotes |-> FALSE, section |-> <<>>, done |-> <<>>]

\* A step of ParseAddressValues through its text.
SectionStep(s, t) ==
    CASE t = "<" /\ ~s.quotes -> [s EXCEPT !.brackets = TRUE, !.section = Append(@, t)]
        [] t = ">" /\ ~s.quotes -> [s EXCEPT !.brackets = FALSE, !.section = Append(@, t)]
        [] t = "\"" -> [s EXCEPT !.quotes = ~@, !.section = Append(@, t)]
        [] t = "," /\ ~s.quotes /\ ~s.brackets ->
              [s EXCEPT !.done = Append(@, s.section), !.section = <<>>]
        [] OTHER -> [s EXCEPT !.section = Append(@, t)]
SectionF(T) == [s \in Sections(T) |-> [t \in T |-> SectionStep(s, t)]]

\* A step of the sections keeps their state.
LEMMA SectionType ==
    ASSUME NEW T, NEW s \in Sections(T), NEW t \in T
    PROVE  SectionStep(s, t) \in Sections(T)
<1>1. /\ s.brackets \in BOOLEAN /\ s.quotes \in BOOLEAN /\ s.section \in Seq(T)
            /\ s.done \in Seq(Seq(T))
      /\ s = [brackets |-> s.brackets, quotes |-> s.quotes, section |-> s.section, done |-> s.done]
  BY DEF Sections
<1>2. Append(s.section, t) \in Seq(T) /\ Append(s.done, s.section) \in Seq(Seq(T))
            /\ <<>> \in Seq(T)
  BY <1>1, EmptySeq
<1>3. \A b \in BOOLEAN, q \in BOOLEAN, e \in Seq(T), d \in Seq(Seq(T)) :
        [brackets |-> b, quotes |-> q, section |-> e, done |-> d] \in Sections(T)
  BY DEF Sections
<1> DEFINE b == s.brackets
           q == s.quotes
           e == s.section
           d == s.done
           a == Append(s.section, t)
           m == Append(s.done, s.section)
<1>4. \/ SectionStep(s, t) = [brackets |-> TRUE, quotes |-> q, section |-> a, done |-> d]
      \/ SectionStep(s, t) = [brackets |-> FALSE, quotes |-> q, section |-> a, done |-> d]
      \/ SectionStep(s, t) = [brackets |-> b, quotes |-> ~q, section |-> a, done |-> d]
      \/ SectionStep(s, t) = [brackets |-> b, quotes |-> q, section |-> <<>>, done |-> m]
      \/ SectionStep(s, t) = [brackets |-> b, quotes |-> q, section |-> a, done |-> d]
  BY <1>1 DEF SectionStep
<1> QED
  BY <1>1, <1>2, <1>3, <1>4

\* The steps of the sections are an operation.
LEMMA SectionOps ==
    ASSUME NEW T
    PROVE  SectionF(T) \in Ops(Sections(T), T) /\ NoSections \in Sections(T)
<1>1. NoSections \in Sections(T)
  BY EmptySeq DEF NoSections, Sections
<1>2. \A s \in Sections(T), t \in T : SectionStep(s, t) \in Sections(T)
  BY SectionType
<1> QED
  BY <1>1, <1>2 DEF SectionF, Ops

\* AddressSections is the fold of these steps.
LEMMA SectionFold ==
    ASSUME NEW T, NEW text, Append(text, Comma) \in Seq(T)
    PROVE  AddressSections(text) = Fold(SectionF(T), NoSections, Append(text, Comma)).done
<1> DEFINE seq == Append(text, Comma)
           S == Sections(T)
           F == SectionF(T)
           base == NoSections
           op(s, x) == SectionStep(s, x)
           eq(g) == g = [i \in 0..Len(seq) |-> IF i = 0 THEN base ELSE op(g[i - 1], seq[i])]
           h == CHOOSE g : eq(g)
<1>1. AddressSections(text) = h[Len(seq)].done
  BY DEF AddressSections, SectionStep, NoSections, Scan, Comma
<1>2. F \in Ops(S, T) /\ base \in S
  BY SectionOps
<1>8. seq \in Seq(T)
  OBVIOUS
<1> HIDE DEF seq
<1>3. \A s \in S, x \in T : F[s][x] = op(s, x)
  BY DEF SectionF
<1>4. \A i \in 1..Len(seq) : seq[i] \in T
  BY <1>8, ElementOfSeq
<1> HIDE DEF S, F, base, op, h
<1>5. eq(h)
  <2>1. PICK g : /\ g = [i \in 0..Len(seq) |-> IF i = 0 THEN base ELSE F[g[i - 1]][seq[i]]]
                 /\ \A i \in 1..Len(seq) : g[i - 1] \in S /\ seq[i] \in T
    <3> HIDE DEF eq
    <3> QED
      BY <1>2, <1>8, RunIs
  <2>2. \A i \in 1..Len(seq) : F[g[i - 1]][seq[i]] = op(g[i - 1], seq[i])
    BY <1>3, <2>1
  <2>3. eq(g)
    BY <2>1, <2>2, SMTT(30)
  <2> HIDE DEF eq
  <2> QED
    BY <2>3 DEF h
<1>6. Follows(h, S, F, base, seq)
  BY <1>3, <1>4, <1>5 DEF Follows
<1>7. h[Len(seq)] = Fold(F, base, seq)
  BY <1>2, <1>6, <1>8, FollowsFold
<1> QED
  BY <1>1, <1>7 DEF F, base, seq

\* A text without comma and quote is one section, or none when a bracket stays
\* open, which it does not when the text ends with one that closes.
LEMMA OneSection ==
    ASSUME NEW text \in Seq(Token \ {Comma, Quote})
    PROVE  /\ AddressSections(text) = <<>> \/ AddressSections(text) = <<text>>
           /\ text # <<>> /\ text[Len(text)] = Rangle => AddressSections(text) = <<text>>
<1> DEFINE U == Token \ {Comma, Quote}
           F == SectionF(Token)
           at(s) == Fold(F, NoSections, s)
           shut(s) == s # <<>> /\ s[Len(s)] = Rangle => at(s).brackets = FALSE
           K == {s \in Seq(U) : /\ at(s).quotes = FALSE /\ at(s).done = <<>> /\ at(s).section = s
                                /\ shut(s)}
<1>0. F \in Ops(Sections(Token), Token) /\ NoSections \in Sections(Token)
  BY SectionOps
<1>1. <<>> \in K
  <2>1. at(<<>>) = NoSections
    BY FoldEmpty
  <2>2. <<>> \in Seq(U)
    BY EmptySeq
  <2> QED
    BY <2>1, <2>2 DEF NoSections
<1>2. ASSUME NEW s \in Seq(U), NEW t \in U, s \in K
      PROVE  Append(s, t) \in K
  <2> DEFINE a == at(s)
  <2>1. a.quotes = FALSE /\ a.done = <<>> /\ a.section = s
    BY <1>2
  <2>2. Seq(U) \subseteq Seq(Token)
    BY SeqMonotonic
  <2>3. s \in Seq(Token) /\ t \in Token /\ t # Comma /\ t # Quote
    BY <2>2
  <2> HIDE DEF U, F
  <2>4. a \in Sections(Token)
    BY <1>0, <2>3, FoldType
  <2>5. at(Append(s, t)) = F[a][t]
    BY <1>0, <2>3, FoldAppend
  <2> HIDE DEF at, a
  <2>6. F[a][t] = SectionStep(a, t)
    BY <2>3, <2>4 DEF F, SectionF
  <2>7. a = [brackets |-> a.brackets, quotes |-> a.quotes, section |-> a.section, done |-> a.done]
    BY <2>4 DEF Sections
  <2>8. LET b == SectionStep(a, t)
        IN /\ b.quotes = FALSE /\ b.done = <<>> /\ b.section = Append(s, t)
           /\ t = Rangle => b.brackets = FALSE
    BY <2>1, <2>3, <2>7 DEF SectionStep, Comma, Quote, Rangle
  <2>9. Append(s, t) \in Seq(U) /\ Append(s, t)[Len(Append(s, t))] = t
    OBVIOUS
  <2>10. shut(Append(s, t))
    BY <2>5, <2>6, <2>8, <2>9
  <2> QED
    BY <2>5, <2>6, <2>8, <2>9, <2>10
<1>3. text \in K
  <2>1. Seq(U) \subseteq K
    <3> HIDE DEF K, U
    <3> QED
      BY <1>1, <1>2, SeqInduction
  <2> QED
    BY <2>1
<1> DEFINE a == at(text)
<1>4. a.quotes = FALSE /\ a.done = <<>> /\ a.section = text /\ shut(text)
  BY <1>3
<1>5. text \in Seq(Token) /\ Comma \in Token
  <2>1. Seq(U) \subseteq Seq(Token)
    BY SeqMonotonic
  <2>2. Comma \in Token
    BY MarksAreTokens
  <2> QED
    BY <2>1, <2>2
<1> HIDE DEF K, F
<1>6. a \in Sections(Token)
  BY <1>0, <1>5, FoldType
<1>7. at(Append(text, Comma)) = F[a][Comma]
  BY <1>0, <1>5, FoldAppend
<1>8. AddressSections(text) = at(Append(text, Comma)).done
  <2>1. Append(text, Comma) \in Seq(Token)
    BY <1>5
  <2> QED
    BY <2>1, SectionFold DEF F
<1>13. text # <<>> /\ text[Len(text)] = Rangle => a.brackets = FALSE
  BY <1>4
<1> HIDE DEF at, a, shut
<1>9. F[a][Comma] = SectionStep(a, Comma)
  BY <1>5, <1>6 DEF F, SectionF
<1>10. a = [brackets |-> a.brackets, quotes |-> a.quotes, section |-> a.section, done |-> a.done]
  BY <1>6 DEF Sections
<1>11. SectionStep(a, Comma).done = <<>> \/ SectionStep(a, Comma).done = Append(<<>>, text)
  BY <1>4, <1>10 DEF SectionStep, Comma
<1>12. Append(<<>>, text) = <<text>>
  OBVIOUS
<1>14. a.brackets = FALSE => SectionStep(a, Comma).done = Append(<<>>, text)
  BY <1>4, <1>10, MarksDiffer DEF SectionStep, Comma
<1> QED
  BY <1>7, <1>8, <1>9, <1>11, <1>12, <1>13, <1>14

\* The text of a From header, token by token.
LEMMA FromTextIs ==
    ASSUME NEW u \in Word, NEW text, text = FromText(u)
    PROVE  /\ text \in Seq(Token) /\ Len(text) = 11
           /\ text[1] = Langle /\ SubSeq(text, 2, 6) = UriOf(u, DomainWord) /\ text[7] = Rangle
           /\ text[11] = DWord
           /\ \A i \in 2..6 : text[i] \in Word \cup {Colon, AtSign}
           /\ text[8] = Semi /\ text[9] = TagWord /\ text[10] = Equals
<1> DEFINE a == <<Langle>>
           uri == UriOf(u, DomainWord)
           b == <<Rangle, Semi, TagWord, Equals, DWord>>
           c == a \o uri
<1>1. DomainWord \in Word /\ SipWord \in Word /\ TagWord \in Word /\ DWord \in Word
  BY FixedAreWords DEF FixedWords
<1>2. /\ uri \in Seq(Token) /\ Len(uri) = 5
      /\ uri[1] = SipWord /\ uri[2] = Colon /\ uri[3] = u /\ uri[4] = AtSign /\ uri[5] = DomainWord
  BY <1>1, UriOfIs
<1>3. Langle \in Token /\ Rangle \in Token /\ Semi \in Token /\ Equals \in Token
  BY MarksAreTokens
<1>4. a \in Seq(Token) /\ Len(a) = 1 /\ a[1] = Langle
  BY <1>3
<1>5. TagWord \in Token /\ DWord \in Token
  BY <1>1, WordIs
<1>6. b \in Seq(Token) /\ Len(b) = 5
      /\ b[1] = Rangle /\ b[2] = Semi /\ b[3] = TagWord /\ b[4] = Equals /\ b[5] = DWord
  BY <1>3, <1>5
<1>7. text = c \o b
  BY DEF FromText
<1> HIDE DEF a, uri, b
<1>8. a \in Seq(Token) /\ uri \in Seq(Token) /\ b \in Seq(Token)
  BY <1>2, <1>4, <1>6
<1>9. c \in Seq(Token) /\ Len(c) = Len(a) + Len(uri)
  BY <1>8, CatType
<1>10. \A i \in 1..Len(a) : c[i] = a[i]
  BY <1>8, CatLeft
<1>11. \A i \in 1..Len(uri) : c[Len(a) + i] = uri[i]
  BY <1>8, CatRight
<1> HIDE DEF c
<1>12. Len(a) = 1 /\ Len(uri) = 5 /\ Len(b) = 5 /\ Len(c) = 6
  BY <1>2, <1>4, <1>6, <1>9
<1>13. text \in Seq(Token) /\ Len(text) = Len(c) + Len(b)
  BY <1>7, <1>8, <1>9, CatType
<1>14. \A i \in 1..Len(c) : text[i] = c[i]
  BY <1>7, <1>8, <1>9, CatLeft
<1>15. \A i \in 1..Len(b) : text[Len(c) + i] = b[i]
  BY <1>7, <1>8, <1>9, CatRight
<1>16. Len(text) = 11
  BY <1>12, <1>13
<1>17. text[1] = Langle
  <2>1. 1 \in 1..Len(a) /\ 1 \in 1..Len(c)
    BY <1>12
  <2> QED
    BY <1>4, <1>10, <1>14, <2>1
<1>18. \A i \in 1..5 : text[i + 1] = uri[i]
  <2>1. ASSUME NEW i \in 1..5
        PROVE  text[i + 1] = uri[i]
    <3>1. i \in 1..Len(uri) /\ i + 1 \in 1..Len(c) /\ Len(a) + i = i + 1
      BY <1>12
    <3> QED
      BY <1>11, <1>14, <3>1
  <2> QED
    BY <2>1
<1>19. text[7] = Rangle /\ text[8] = Semi /\ text[9] = TagWord /\ text[10] = Equals
             /\ text[11] = DWord
  <2>1. 1 \in 1..Len(b) /\ 2 \in 1..Len(b) /\ 3 \in 1..Len(b) /\ 4 \in 1..Len(b) /\ 5 \in 1..Len(b)
    BY <1>12
  <2>2. Len(c) + 1 = 7 /\ Len(c) + 2 = 8 /\ Len(c) + 3 = 9 /\ Len(c) + 4 = 10 /\ Len(c) + 5 = 11
    BY <1>12
  <2> QED
    BY <1>6, <1>15, <2>1, <2>2
<1>20. SubSeq(text, 2, 6) = uri
  <2>1. 2 \in 1..(Len(text) + 1) /\ 6 \in (2 - 1)..Len(text) /\ 6 - 2 + 1 = 5
    BY <1>16
  <2>2. SubSeq(text, 2, 6) \in Seq(Token) /\ Len(SubSeq(text, 2, 6)) = 5
    BY <1>13, <2>1, SubType
  <2>3. ASSUME NEW i \in 1..5
        PROVE  SubSeq(text, 2, 6)[i] = uri[i]
    <3>1. i \in 1..(6 - 2 + 1) /\ 2 + i - 1 = i + 1
      OBVIOUS
    <3>2. SubSeq(text, 2, 6)[i] = text[2 + i - 1]
      BY <1>13, <2>1, <3>1, SubAt
    <3> QED
      BY <1>18, <3>1, <3>2
  <2> HIDE DEF uri
  <2> QED
    BY <1>8, <1>12, <2>2, <2>3, SameSeq
<1>21. \A i \in 2..6 : text[i] \in Word \cup {Colon, AtSign}
  <2>1. ASSUME NEW i \in 2..6
        PROVE  text[i] \in Word \cup {Colon, AtSign}
    <3>1. i - 1 \in 1..5 /\ (i - 1) + 1 = i
      OBVIOUS
    <3>2. text[i] = uri[i - 1]
      BY <1>18, <3>1
    <3>3. i - 1 = 1 \/ i - 1 = 2 \/ i - 1 = 3 \/ i - 1 = 4 \/ i - 1 = 5
      OBVIOUS
    <3> QED
      BY <1>1, <1>2, <3>2, <3>3
  <2> QED
    BY <2>1
<1> QED
  BY <1>13, <1>16, <1>17, <1>19, <1>20, <1>21 DEF uri

\* The user of a From header, if its address parses.
LEMMA FromUser ==
    ASSUME NEW u \in Word, NEW text, text = FromText(u)
    PROVE  /\ text \in Seq(Token \ {Comma, Quote})
           /\ ParseAddressValue(text).addr.uri.user \in {Nil, Some(<<u>>)}
<1>1. /\ text \in Seq(Token) /\ Len(text) = 11
      /\ text[1] = Langle /\ SubSeq(text, 2, 6) = UriOf(u, DomainWord) /\ text[7] = Rangle
      /\ text[11] = DWord
      /\ \A i \in 2..6 : text[i] \in Word \cup {Colon, AtSign}
      /\ text[8] = Semi /\ text[9] = TagWord /\ text[10] = Equals
  BY FromTextIs
<1>2. Len(text) = 11 /\ text[1] = Langle /\ text[7] = Rangle /\ text[11] = DWord
  BY <1>1
<1>3. DWord \in Word /\ TagWord \in Word /\ DomainWord \in Word
  BY FixedAreWords DEF FixedWords
<1>4. text # <<>>
  BY <1>2
<1>5. Langle \notin Blank /\ DWord \notin Blank
  BY <1>3, WordIs, MarksDiffer, BlankIs
<1>6. text[1] \notin Blank /\ text[Len(text)] \notin Blank
  BY <1>2, <1>5
<1>7. Trim(text) = text
  BY <1>1, <1>4, <1>6, TrimInk
<1>8. FindUnescaped(text, Langle) = 1
  <2> DEFINE open(i) == Cardinality({k \in 1..(i - 1) : text[k] = "\""}) % 2 = 1
             found == {i \in DOMAIN text : text[i] = Langle /\ ~open(i)}
  <2>1. ~open(1)
    <3>1. {k \in 1..(1 - 1) : text[k] = "\""} = {}
      OBVIOUS
    <3>2. Cardinality({}) = 0
      BY FS_EmptySet
    <3>4. 0 % 2 = 0
      OBVIOUS
    <3> QED
      BY <3>1, <3>2, <3>4
  <2>2. DOMAIN text = 1..11
    BY <1>1
  <2>6. 1 \in found
    BY <1>2, <2>1, <2>2
  <2>7. found \subseteq 1..11
    BY <2>2
  <2>3. 1 \in found /\ found \in SUBSET Int /\ \A i \in found : 1 <= i
    <3> HIDE DEF found
    <3> QED
      BY <2>6, <2>7
  <2>4. FindUnescaped(text, Langle) = IF found = {} THEN 0 ELSE Min(found)
    BY DEF FindUnescaped
  <2> HIDE DEF found
  <2>5. Min(found) = 1
    BY <2>3, MinIs
  <2> QED
    BY <2>3, <2>4, <2>5
<1> DEFINE name == Trim(CutAt(text, 1).head)
           params == ParseParams(After(text, 7), ";", ";", ",", TRUE, TRUE)
           uri == [err |-> FALSE, uri |-> NewURI(Some(<<u>>), <<DomainWord>>, Nil)]
<1>9. DisplayName(text) = [err |-> FALSE, name |-> name, rest |-> CutAt(text, 1).tail]
  <2> DEFINE angle == FindUnescaped(text, "<")
             close == FirstOf(After(text, 1), {"\""})
  <2>1. DisplayName(text) =
          IF angle > 1 /\ text[1] = "\""
          THEN [err |-> close = 0, name |-> SubSeq(text, 2, close),
                rest |-> Trim(After(text, close + 1))]
          ELSE [err |-> FALSE, name |-> Trim(CutAt(text, angle).head),
                rest |-> CutAt(text, angle).tail]
    BY DEF DisplayName
  <2>2. angle = 1 /\ ~(angle > 1)
    BY <1>8 DEF Langle
  <2> HIDE DEF angle, close
  <2> QED
    BY <2>1, <2>2
<1>10. CutAt(text, 1).tail = text
  <2>1. After(text, 0) = text
    BY <1>1, AfterNone
  <2> QED
    BY <2>1 DEF CutAt
<1>11. ParseAddressValue(text) = Bracketed(name, text)
  BY <1>4, <1>7, <1>9, <1>10 DEF ParseAddressValue
<1>12. FirstOf(text, {Langle}) = 1
  <2>1. 1 \in 1..Len(text) /\ text[1] \in {Langle} /\ \A j \in 1..(1 - 1) : text[j] \notin {Langle}
    BY <1>2
  <2> QED
    BY <1>1, <2>1, FirstIs
<1>13. FirstOf(text, {Rangle}) = 7
  <2>1. ASSUME NEW j \in 1..(7 - 1)
        PROVE  text[j] \notin {Rangle}
    <3>1. j = 1 \/ j \in 2..6
      OBVIOUS
    <3>2. CASE j = 1
      BY <1>2, <3>2, MarksDiffer
    <3>3. CASE j \in 2..6
      BY <1>1, <3>3, WordIs, MarksDiffer
    <3> QED
      BY <3>1, <3>2, <3>3
  <2>2. 7 \in 1..Len(text) /\ text[7] \in {Rangle}
    BY <1>2
  <2> QED
    BY <1>1, <2>1, <2>2, FirstIs
<1>14. ParseURI(UriOf(u, DomainWord)) = uri
  BY <1>3, ParseURIOf
<1>15. SubSeq(text, 2, 7 - 1) = UriOf(u, DomainWord)
  BY <1>1
<1>16. Bracketed(name, text) \in {BadAddress, AddressOf(name, uri, params)}
  BY <1>12, <1>13, <1>14, <1>15 DEF Bracketed, Langle, Rangle
<1>17. BadAddress.addr.uri.user = Nil
  BY DEF BadAddress, BadURI, NewURI
<1>18. uri.uri.user = Some(<<u>>)
  BY DEF NewURI
<1> HIDE DEF uri, params, name
<1>19. AddressOf(name, uri, params) \in {BadAddress, [err |-> FALSE,
          addr |-> [name |-> Some(name), uri |-> uri.uri, params |-> Some(params.params)]]}
  BY DEF AddressOf
<1>20. AddressOf(name, uri, params).addr.uri.user \in {Nil, Some(<<u>>)}
  BY <1>17, <1>18, <1>19
<1>21. ParseAddressValue(text).addr.uri.user \in {Nil, Some(<<u>>)}
  BY <1>11, <1>16, <1>17, <1>20
<1>22. ASSUME NEW i \in 1..Len(text)
       PROVE  text[i] \in Token \ {Comma, Quote}
  <2>1. i = 1 \/ i \in 2..6 \/ i = 7 \/ i = 8 \/ i = 9 \/ i = 10 \/ i = 11
    BY <1>2
  <2>2. text[i] \in Token
    BY <1>1, ElementOfSeq
  <2>3. text[i] \in Word \cup {Colon, AtSign, Langle, Rangle, Semi, Equals}
    BY <1>1, <1>3, <2>1
  <2>4. text[i] \notin {Comma, Quote}
    BY <2>3, WordIs, MarksDiffer
  <2> QED
    BY <2>2, <2>4
<1>23. text \in Seq(Token \ {Comma, Quote})
  <2>1. text = [i \in 1..Len(text) |-> text[i]] /\ Len(text) \in Nat
    BY <1>1
  <2>2. [i \in 1..Len(text) |-> text[i]] \in Seq(Token \ {Comma, Quote})
    BY <1>22, <2>1
  <2> QED
    BY <2>1, <2>2
<1> QED
  BY <1>21, <1>23

-----------------------------------------------------------------------------
(* Headers *)

\* A header is a record, and a parser gives at most one, of the kind it is for.
IsHeader(h) == h = [kind |-> h.kind, ptr |-> h.ptr, val |-> h.val]
OneHeader(parsed, name) ==
    \/ parsed.headers = <<>>
    \/ \E h : /\ parsed.headers = <<h>> /\ NameOf(h) = name /\ IsHeader(h)
              /\ h.kind \in {name, "Generic"}

\* What is parsed to a header of a kind is one header of that name.
LEMMA OneParsed ==
    ASSUME NEW kind, kind # "Generic", NEW val
    PROVE  OneHeader(Parsed(<<Header(kind, val)>>), kind)
<1> DEFINE h == Header(kind, val)
<1>1. h.kind = kind /\ IsHeader(h)
  BY DEF Header, IsHeader
<1>2. NameOf(h) = kind
  BY <1>1 DEF NameOf
<1> HIDE DEF h
<1>3. Parsed(<<h>>).headers = <<h>>
  BY DEF Parsed
<1> QED
  BY <1>1, <1>2, <1>3 DEF OneHeader, h

\* What is parsed to a generic header is one header of its name, with its text.
LEMMA GenericParsed ==
    ASSUME NEW name, NEW text
    PROVE  /\ OneHeader(Parsed(<<Generic(name, text)>>), name)
           /\ Generic(name, text).val.text = text
<1> DEFINE h == Generic(name, text)
<1>1. h.kind = "Generic" /\ IsHeader(h) /\ h.val.name = name /\ h.val.text = text
  BY DEF Generic, Header, IsHeader
<1>2. NameOf(h) = name
  BY <1>1 DEF NameOf
<1> HIDE DEF h
<1>3. Parsed(<<h>>).headers = <<h>>
  BY DEF Parsed
<1> QED
  BY <1>1, <1>2, <1>3 DEF OneHeader, h

\* What cannot be parsed is no header.
LEMMA NoneParsed ==
    ASSUME NEW name
    PROVE  OneHeader(ParseError, name)
  BY DEF OneHeader, ParseError

\* Every parser but that of the addresses.
LEMMA ParseOther ==
    ASSUME NEW kind, NEW text, kind \notin AddressKinds
    PROVE  OneHeader(ParseValue(kind, text), kind)
<1>1. CASE kind \in RouteKinds
  <2>1. kind # "Generic"
    BY <1>1 DEF RouteKinds
  <2>2. ParseValue(kind, text) = ParseRoute(kind, ParseAddressValues(text))
    <3>1. /\ kind \notin NumberKinds /\ kind \notin TextKinds
          /\ kind # "CSeq" /\ kind # "Via" /\ kind # "Call-ID" /\ kind # "Allow"
                /\ kind # "Supported"
      BY <1>1 DEF RouteKinds, NumberKinds, TextKinds
    <3> QED
      BY <1>1, <3>1 DEF ParseValue
  <2>3. \E val : ParseRoute(kind, ParseAddressValues(text))
                    \in {ParseError, Parsed(<<Header(kind, val)>>)}
    BY DEF ParseRoute
  <2> QED
    BY <2>1, <2>2, <2>3, OneParsed, NoneParsed
<1>2. CASE kind \in NumberKinds
  <2>1. kind # "Generic"
    BY <1>2 DEF NumberKinds
  <2>2. ParseValue(kind, text) = ParseNumber(kind, text)
    <3>1. /\ kind \notin RouteKinds /\ kind \notin TextKinds
          /\ kind # "CSeq" /\ kind # "Via" /\ kind # "Call-ID" /\ kind # "Allow"
                /\ kind # "Supported"
      BY <1>2 DEF RouteKinds, NumberKinds, TextKinds
    <3> QED
      BY <1>2, <3>1 DEF ParseValue
  <2>3. \E val : ParseNumber(kind, text) \in {ParseError, Parsed(<<Header(kind, val)>>)}
    BY DEF ParseNumber
  <2> QED
    BY <2>1, <2>2, <2>3, OneParsed, NoneParsed
<1>3. CASE kind \in TextKinds
  <2>1. kind # "Generic"
    BY <1>3 DEF TextKinds
  <2>2. ParseValue(kind, text) \in {Parsed(<<Header(kind, Trim(text))>>), ParseCallID(text)}
    BY <1>3 DEF ParseValue, RouteKinds, AddressKinds, NumberKinds, TextKinds
  <2>3. CASE ParseValue(kind, text) = Parsed(<<Header(kind, Trim(text))>>)
    BY <2>1, <2>3, OneParsed
  <2>4. CASE kind = "Call-ID" /\ ParseValue(kind, text) = ParseCallID(text)
    <3>1. ParseCallID(text) \in {ParseError, Parsed(<<Header(kind, Trim(text))>>)}
      BY <2>4 DEF ParseCallID
    <3> QED
      BY <2>1, <2>4, <3>1, OneParsed, NoneParsed
  <2> QED
    BY <1>3, <2>2, <2>3, <2>4 DEF ParseValue, RouteKinds, AddressKinds, NumberKinds, TextKinds
<1>4. CASE kind = "CSeq"
  <2>1. ParseValue(kind, text) = ParseCSeq(text)
    BY <1>4 DEF ParseValue, RouteKinds, AddressKinds, NumberKinds, TextKinds
  <2>2. \E val : ParseCSeq(text) \in {ParseError, Parsed(<<Header(kind, val)>>)}
    BY <1>4 DEF ParseCSeq
  <2> QED
    BY <1>4, <2>1, <2>2, OneParsed, NoneParsed
<1>5. CASE kind = "Via"
  <2>1. ParseValue(kind, text) = ParseVia(text)
    BY <1>5 DEF ParseValue, RouteKinds, AddressKinds, NumberKinds, TextKinds
  <2>2. \E val : ParseVia(text) \in {ParseError, Parsed(<<Header(kind, val)>>)}
    BY <1>5 DEF ParseVia, ViaOf
  <2> QED
    BY <1>5, <2>1, <2>2, OneParsed, NoneParsed
<1>6. CASE kind \in {"Allow", "Supported"}
  <2>1. ParseValue(kind, text) = ParseList(kind, text)
    BY <1>6 DEF ParseValue, RouteKinds, AddressKinds, NumberKinds, TextKinds
  <2>2. \E val : ParseList(kind, text) = Parsed(<<Header(kind, val)>>)
    BY DEF ParseList
  <2>3. kind # "Generic"
    BY <1>6
  <2> QED
    BY <2>1, <2>2, <2>3, OneParsed
<1>7. CASE kind \notin RouteKinds \cup NumberKinds \cup TextKinds
            \cup {"CSeq", "Via", "Allow", "Supported"}
  <2>1. ParseValue(kind, text) = Parsed(<<Generic(kind, text)>>)
    BY <1>7 DEF ParseValue, TextKinds
  <2> QED
    BY <2>1, GenericParsed
<1> QED
  BY <1>1, <1>2, <1>3, <1>4, <1>5, <1>6, <1>7

\* A sequence mapped from one element has one element.
LEMMA OneMap ==
    ASSUME NEW a, NEW f, f = [i \in DOMAIN <<a>> |-> f[i]]
    PROVE  f = <<f[1]>>
<1>1. DOMAIN <<a>> = 1..1
  OBVIOUS
<1> QED
  BY <1>1

\* An address header without comma and quote has at most one address.
LEMMA ParseAddress ==
    ASSUME NEW kind \in AddressKinds, NEW text \in Seq(Token \ {Comma, Quote})
    PROVE  \/ ParseValue(kind, text).headers = <<>>
           \/ ParseValue(kind, text).headers = <<Header(kind, ParseAddressValue(text).addr)>>
<1> DEFINE sections == AddressSections(text)
           values == Each(ParseAddressValue, sections)
           addrs == ParseAddressValues(text).addrs
           v == ParseAddressValue(text)
<1>1. sections = <<>> \/ sections = <<text>>
  BY OneSection
<1>2. values = <<>> \/ values = <<v>>
  <2>0. values = [i \in DOMAIN sections |-> ParseAddressValue(sections[i])]
    BY DEF Each
  <2>1. CASE sections = <<>>
    <3>1. values = [i \in DOMAIN <<>> |-> ParseAddressValue(<<>>[i])]
      BY <2>0, <2>1
    <3> HIDE DEF values, sections
    <3> QED
      BY <3>1
  <2>2. CASE sections = <<text>>
    <3>1. values = [i \in DOMAIN <<text>> |-> values[i]] /\ values[1] = v
      BY <2>0, <2>2
    <3> HIDE DEF values, sections, v
    <3>2. values = <<values[1]>>
      BY <3>1, OneMap
    <3> QED
      BY <3>1, <3>2
  <2> QED
    BY <1>1, <2>1, <2>2
<1>3. addrs = AddressesOf(values, Forgiven(text)).addrs
  BY DEF ParseAddressValues
<1> DEFINE bad == SelectInSeq(values, LAMBDA x : x.err)
           good == IF bad = 0 THEN values ELSE Upto(values, bad - 1)
<1>4. addrs = [i \in DOMAIN good |-> good[i].addr]
  BY <1>3 DEF AddressesOf
<1>5. good = <<>> \/ good = <<v>>
  <2>1. CASE values = <<>>
    <3>1. bad = 0
      BY <2>1 DEF SelectInSeq
    <3> QED
      BY <2>1, <3>1
  <2>2. CASE values = <<v>>
    <3>1. bad = 0 \/ bad = 1
      <4> DEFINE I == {i \in 1..Len(values) : values[i].err}
      <4>1. bad = IF I # {} THEN Min(I) ELSE 0
        BY DEF SelectInSeq
      <4>2. Len(values) = 1
        BY <2>2
      <4>3. I = {} \/ I = {1}
        BY <4>2
      <4>4. Min({1}) = 1
        <5>1. {1} \in SUBSET Int /\ 1 \in {1} /\ \A y \in {1} : 1 <= y
          OBVIOUS
        <5> QED
          BY <5>1, MinIs
      <4> HIDE DEF I, bad, values
      <4>5. I = {} => bad = 0
        BY <4>1
      <4>6. I = {1} => bad = 1
        BY <4>1, <4>4
      <4> QED
        BY <4>3, <4>5, <4>6
    <3>2. bad = 1 => good = <<>>
      <4>1. Upto(<<v>>, 1 - 1) = <<>>
        BY DEF Upto
      <4> HIDE DEF bad, values, v
      <4> QED
        BY <2>2, <4>1
    <3> HIDE DEF bad
    <3> QED
      BY <2>2, <3>1, <3>2
  <2> QED
    BY <1>2, <2>1, <2>2
<1> HIDE DEF good, values, sections, v
<1>6. addrs = <<>> \/ addrs = <<v.addr>>
  <2>1. CASE good = <<>>
    <3>1. addrs = [i \in DOMAIN <<>> |-> good[i].addr]
      BY <1>4, <2>1
    <3> HIDE DEF addrs
    <3> QED
      BY <3>1
  <2>2. CASE good = <<v>>
    <3>1. addrs = [i \in DOMAIN <<v>> |-> addrs[i]] /\ addrs[1] = v.addr
      BY <1>4, <2>2
    <3> HIDE DEF addrs
    <3> QED
      BY <3>1, OneMap
  <2> QED
    BY <1>5, <2>1, <2>2
<1>7. ParseValue(kind, text) = ParseAddressHeader(kind, ParseAddressValues(text))
  <2>1. /\ kind \notin RouteKinds /\ kind \notin NumberKinds /\ kind \notin TextKinds
        /\ kind # "CSeq" /\ kind # "Via" /\ kind # "Call-ID" /\ kind # "Allow" /\ kind # "Supported"
    BY DEF AddressKinds, RouteKinds, NumberKinds, TextKinds
  <2> QED
    BY <2>1 DEF ParseValue
<1>8. \/ ParseAddressHeader(kind, ParseAddressValues(text)) = ParseError
      \/ ParseAddressHeader(kind, ParseAddressValues(text)).headers =
            [i \in DOMAIN addrs |-> Header(kind, addrs[i])]
  BY DEF ParseAddressHeader, Each, Parsed
<1>9. ParseError.headers = <<>>
  BY DEF ParseError
<1> DEFINE hs == [i \in DOMAIN addrs |-> Header(kind, addrs[i])]
<1> HIDE DEF addrs
<1>10. hs = <<>> \/ hs = <<Header(kind, v.addr)>>
  <2>1. CASE addrs = <<>>
    BY <2>1
  <2>2. CASE addrs = <<v.addr>>
    <3> DEFINE a == v.addr
    <3>1. hs = [i \in DOMAIN <<a>> |-> hs[i]] /\ hs[1] = Header(kind, a)
      BY <2>2
    <3> HIDE DEF hs, a
    <3>2. hs = <<hs[1]>>
      BY <3>1, OneMap
    <3> QED
      BY <3>1, <3>2 DEF a
  <2> QED
    BY <1>6, <2>1, <2>2
<1> HIDE DEF hs
<1> QED
  BY <1>7, <1>8, <1>9, <1>10 DEF v, hs

-----------------------------------------------------------------------------
(* Packets *)

\* A sequence that is not empty has a head.
LEMMA ConsHead ==
    ASSUME NEW T, NEW l \in Seq(T), l # <<>>
    PROVE  l[1] \in T /\ After(l, 1) \in Seq(T) /\ l = Cons(l[1], After(l, 1))
<1> DEFINE n == Len(l)
           r == SubSeq(l, 2, n)
           c == Cons(l[1], r)
<1>1. n \in Nat /\ n # 0
  OBVIOUS
<1>2. 1 \in 1..n /\ 2 \in 1..(n + 1) /\ n \in (2 - 1)..n
  BY <1>1
<1>3. l[1] \in T
  BY <1>2
<1>4. r \in Seq(T) /\ Len(r) = n - 2 + 1
  BY <1>2, SubType
<1>5. \A i \in 1..(n - 2 + 1) : r[i] = l[2 + i - 1]
  BY <1>2, SubAt
<1> HIDE DEF r
<1>6. c \in Seq(T) /\ Len(c) = Len(r) + 1 /\ c[1] = l[1]
  BY <1>3, <1>4, ConsIs
<1>7. \A i \in 1..Len(r) : c[i + 1] = r[i]
  BY <1>3, <1>4, ConsAt
<1> HIDE DEF c
<1>8. Len(c) = n
  BY <1>1, <1>4, <1>6
<1>9. ASSUME NEW i \in 1..n
      PROVE  l[i] = c[i]
  <2>1. CASE i = 1
    BY <1>6, <2>1
  <2>2. CASE i # 1
    <3>1. i - 1 \in 1..(n - 2 + 1) /\ (i - 1) + 1 = i /\ 2 + (i - 1) - 1 = i
      BY <2>2
    <3>2. i - 1 \in 1..Len(r)
      BY <1>4, <3>1
    <3>3. c[i] = r[i - 1] /\ r[i - 1] = l[i]
      BY <1>5, <1>7, <3>1, <3>2
    <3> QED
      BY <3>3
  <2> QED
    BY <2>1, <2>2
<1>10. l = c
  BY <1>6, <1>8, <1>9, SameSeq
<1>11. After(l, 1) = r
  BY DEF After, r
<1> QED
  BY <1>3, <1>4, <1>10, <1>11 DEF c

\* A head stays the head of a text that grows.
LEMMA ConsAppend ==
    ASSUME NEW T, NEW x \in T, NEW text \in Seq(T), NEW t \in T
    PROVE  Cons(x, Append(text, t)) = Append(Cons(x, text), t)
<1> DEFINE a == <<t>>
           c == Cons(x, text)
<1>1. a \in Seq(T)
  OBVIOUS
<1>2. Append(text, t) = text \o a
  BY AppendOne
<1>3. c \in Seq(T)
  BY ConsIs
<1> HIDE DEF c
<1>4. Append(c, t) = c \o a
  BY <1>3, AppendOne
<1> HIDE DEF a
<1>5. Cons(x, text) \o a = Cons(x, text \o a)
  BY <1>1, ConsCat
<1> QED
  BY <1>2, <1>4, <1>5 DEF c

\* The first part of a text that does not begin with what it is split at.
LEMMA SplitHead ==
    ASSUME NEW T, NEW token, NEW x \in T, x # token, NEW s \in Seq(T)
    PROVE  Split(Cons(x, s), token)[1] # <<>> /\ Split(Cons(x, s), token)[1][1] = x
<1> DEFINE parts(r) == Split(Cons(x, r), token)
           K == {r \in Seq(T) : parts(r)[1] # <<>> /\ parts(r)[1][1] = x}
<1>1. <<>> \in K
  <2>1. Cons(x, <<>>) = <<x>> /\ <<x>> = Append(<<>>, x) /\ <<>> \in Seq(T)
    BY ConsEmpty
  <2>2. Split(<<>>, token) = << <<>> >>
    BY SplitEmpty
  <2> DEFINE p == << <<>> >>
             e == <<>>
  <2>3. e \in Seq(T) /\ Split(e, token) = p
    BY <2>1, <2>2
  <2> HIDE DEF e, p
  <2>4. Split(Append(e, x), token) = [p EXCEPT ![Len(p)] = Append(@, x)]
    BY <2>3, SplitAppend
  <2> USE DEF e, p
  <2>5. [p EXCEPT ![Len(p)] = Append(@, x)][1] = <<x>>
    <3>1. Len(p) = 1 /\ 1 \in DOMAIN p /\ p[1] = <<>>
      OBVIOUS
    <3>2. [p EXCEPT ![Len(p)] = Append(@, x)][1] = Append(<<>>, x)
      BY <3>1
    <3> QED
      BY <2>1, <3>2
  <2> HIDE DEF p
  <2>6. parts(<<>>)[1] = <<x>>
    BY <2>1, <2>4, <2>5
  <2>7. <<x>> # <<>> /\ <<x>>[1] = x
    OBVIOUS
  <2> QED
    BY <2>1, <2>6, <2>7
<1>2. ASSUME NEW r \in Seq(T), NEW t \in T, r \in K
      PROVE  Append(r, t) \in K
  <2> DEFINE c == Cons(x, r)
             p == Split(c, token)
  <2>1. p[1] # <<>> /\ p[1][1] = x
    BY <1>2
  <2>2. c \in Seq(T)
    BY ConsIs
  <2>3. Cons(x, Append(r, t)) = Append(c, t) /\ Append(r, t) \in Seq(T)
    <3> HIDE DEF K, p
    <3>1. Append(r, t) \in Seq(T)
      OBVIOUS
    <3> QED
      BY <3>1, ConsAppend
  <2> HIDE DEF c, p, K
  <2>4. p = Split(c, token)
    BY DEF p
  <2>5. p \in Seq(Seq(T)) \ {<<>>}
    BY <2>2, <2>4, SplitAppend
  <2>6. Split(Append(c, t), token) =
            IF t = token THEN Append(p, <<>>) ELSE [p EXCEPT ![Len(p)] = Append(@, t)]
    BY <2>2, <2>4, SplitAppend
  <2>7. Len(p) \in Nat /\ Len(p) # 0 /\ p[1] \in Seq(T)
    BY <2>5
  <2>8. Append(p, <<>>)[1] = p[1]
    BY <2>5, <2>7
  <2> DEFINE q == [p EXCEPT ![Len(p)] = Append(@, t)]
  <2>9. q[1] = p[1] \/ q[1] = Append(p[1], t)
    <3>1. 1 \in DOMAIN p
      BY <2>5, <2>7
    <3> QED
      BY <3>1
  <2>10. Append(p[1], t) # <<>> /\ Append(p[1], t)[1] = x
    BY <2>1, <2>7
  <2> HIDE DEF q
  <2>11. Split(Append(c, t), token)[1] \in {p[1], Append(p[1], t)}
    BY <2>6, <2>8, <2>9 DEF q
  <2>12. parts(Append(r, t))[1] \in {p[1], Append(p[1], t)}
    BY <2>3, <2>11
  <2> QED
    BY <2>1, <2>3, <2>10, <2>12 DEF K
<1>3. Seq(T) \subseteq K
  <2> HIDE DEF K
  <2> QED
    BY <1>1, <1>2, SeqInduction
<1> QED
  BY <1>3

\* What a packet may begin with: an empty line, or one that is no answer's.
Opens(l) == l = <<>> \/ \E T : l \in Seq(T) /\ l # <<>> /\ l[1] # Space /\ l[1] # Version

\* Such a line starts no response.
LEMMA NoResponse ==
    ASSUME NEW l, Opens(l)
    PROVE  ~IsResponse(l)
<1> DEFINE first == Split(l, Space)[1]
<1>1. first = <<>> \/ first[1] # Version
  <2>1. CASE l = <<>>
    BY <2>1, SplitEmpty
  <2>2. ASSUME NEW T, l \in Seq(T), l # <<>>, l[1] # Space, l[1] # Version
        PROVE  first[1] # Version
    <3>1. l[1] \in T /\ After(l, 1) \in Seq(T) /\ l = Cons(l[1], After(l, 1))
      BY <2>2, ConsHead
    <3>2. Split(Cons(l[1], After(l, 1)), Space)[1][1] = l[1]
      BY <2>2, <3>1, SplitHead
    <3> QED
      BY <2>2, <3>1, <3>2
  <2> QED
    BY <2>1, <2>2 DEF Opens
<1>2. IsResponse(l) => StartsWithSIP(first)
  BY DEF IsResponse, Space
<1> HIDE DEF first
<1>3. ~StartsWithSIP(first)
  BY <1>1 DEF StartsWithSIP
<1> QED
  BY <1>2, <1>3

\* A request is a record of its parts.
IsReq(req) ==
    req = [type |-> req.type, method |-> req.method, recipient |-> req.recipient,
           version |-> req.version, headers |-> req.headers, body |-> req.body]

\* The method of a request, as its start line has it.
MethodOf(l) == Split(l, Space)[1][1]

\* Such a line starts a request or is refused.
LEMMA StartIs ==
    ASSUME NEW l, Opens(l)
    PROVE  \/ ParseStartLine(l) = Nil
           \/ \E req : /\ ParseStartLine(l) = Some(req) /\ IsReq(req) /\ req.type = "request"
                       /\ req.method = MethodOf(l)
<1>1. ~IsResponse(l)
  BY NoResponse
<1>2. ParseStartLine(l) = Nil \/ \E uri : ParseStartLine(l) = RequestTo(MethodOf(l), uri)
  BY <1>1 DEF ParseStartLine, MethodOf, Space
<1>3. ASSUME NEW method, NEW uri
      PROVE  \/ RequestTo(method, uri) = Nil
             \/ \E req : /\ RequestTo(method, uri) = Some(req) /\ IsReq(req)
                         /\ req.type = "request" /\ req.method = method
  <2> DEFINE req == NewRequest(method, uri.uri, <<>>, <<>>)
  <2>1. IsReq(req) /\ req.type = "request" /\ req.method = method
    BY DEF NewRequest, NewMessage, IsReq
  <2>2. RequestTo(method, uri) = Nil \/ RequestTo(method, uri) = Some(req)
    BY DEF RequestTo
  <2> HIDE DEF req
  <2> QED
    BY <2>1, <2>2
<1> QED
  BY <1>2, <1>3

ParsedOf(text) == ParseHeader(text).headers
\* A packet that opens like this is parsed to a request, with the headers of its lines.
LEMMA MessageIs ==
    ASSUME NEW packet, Opens(packet[1])
    PROVE  \/ ParseMessage(packet) = Nil
           \/ \E req : /\ ParseMessage(packet) = Some(req) /\ IsReq(req) /\ req.type = "request"
                       /\ req.method = MethodOf(packet[1])
                       /\ req.headers =
                            AppendAll(<<>>, Flat(Each(ParsedOf, HeaderTexts(After(packet, 1)))))
<1> DEFINE bare == ParseStartLine(packet[1])
           lines == After(packet, 1)
           hdrs == Flat(Each(ParsedOf, HeaderTexts(lines)))
           headers == AppendAll(<<>>, hdrs)
           end == SelectInSeq(lines, LAMBDA l : l = <<>>)
           body == IF end = 0 THEN <<>> ELSE After(lines, end)
           msg == [bare[1] EXCEPT !.headers = headers, !.body = body]
<1>1. ParseMessage(packet) = IF bare = Nil THEN Nil ELSE Complete(msg)
  BY DEF ParseMessage, ReadHeaders, ParsedOf, Each
<1>2. Complete(msg) = Nil \/ Complete(msg) = Some(msg)
  BY DEF Complete
<1> DEFINE method == MethodOf(packet[1])
<1>3. bare = Nil \/ \E req : /\ bare = Some(req) /\ IsReq(req) /\ req.type = "request"
                             /\ req.method = method
  BY StartIs
<1> HIDE DEF method
<1> HIDE DEF headers, body
<1>4. ASSUME NEW req, bare = Some(req), IsReq(req), req.type = "request"
      PROVE  /\ IsReq(msg) /\ msg.headers = headers /\ msg.type = "request"
             /\ msg.method = req.method
  <2> HIDE DEF bare
  <2>1. bare[1] = req
    BY <1>4 DEF Some
  <2> DEFINE b == bare[1]
  <2>3. msg = [req EXCEPT !.headers = headers, !.body = body]
    BY <2>1
  <2>4. req = [type |-> req.type, method |-> req.method, recipient |-> req.recipient,
               version |-> req.version, headers |-> req.headers, body |-> req.body]
    BY <1>4 DEF IsReq
  <2> HIDE DEF msg, b
  <2>2. msg = [type |-> req.type, method |-> req.method, recipient |-> req.recipient,
               version |-> req.version, headers |-> headers, body |-> body]
    BY <2>3, <2>4
  <2> QED
    BY <1>4, <2>2 DEF IsReq
<1> HIDE DEF bare, msg
<1> QED
  BY <1>1, <1>2, <1>3, <1>4 DEF headers, method

-----------------------------------------------------------------------------
(* The lines of headers *)

\* The loop of ParseMessage over its lines.
Joining(texts, line) ==
    IF line[1] \notin Blank THEN Append(texts, line)
    ELSE IF texts = <<>> THEN texts
    ELSE [texts EXCEPT ![Len(texts)] = @ \o <<" ">> \o line]
Joined(read) == Scan(Joining, <<>>, read)

\* Lines of which none continues another.
Unfolded(L) == \A l \in L : l[1] \notin Blank
JoiningF(L) == [texts \in Seq(L) |-> [line \in L |-> Append(texts, line)]]

\* The steps of the joining are an operation.
LEMMA JoiningOps ==
    ASSUME NEW L
    PROVE  JoiningF(L) \in Ops(Seq(L), L) /\ <<>> \in Seq(L)
<1>1. \A texts \in Seq(L), line \in L : Append(texts, line) \in Seq(L)
  OBVIOUS
<1>2. <<>> \in Seq(L)
  OBVIOUS
<1> QED
  BY <1>1, <1>2 DEF JoiningF, Ops

\* Joining the lines is the fold of these steps.
LEMMA JoiningFold ==
    ASSUME NEW L, Unfolded(L), NEW seq \in Seq(L)
    PROVE  Joined(seq) = Fold(JoiningF(L), <<>>, seq)
<1> DEFINE S == Seq(L)
           F == JoiningF(L)
           base == <<>>
           op(s, x) == Joining(s, x)
           eq(g) == g = [i \in 0..Len(seq) |-> IF i = 0 THEN base ELSE op(g[i - 1], seq[i])]
           h == CHOOSE g : eq(g)
<1>1. Joined(seq) = h[Len(seq)]
  BY DEF Joined, Joining, Scan
<1>2. F \in Ops(S, L) /\ base \in S
  BY JoiningOps
<1>3. \A s \in S, x \in L : F[s][x] = op(s, x)
  BY DEF JoiningF, Joining, Unfolded
<1>4. \A i \in 1..Len(seq) : seq[i] \in L
  BY ElementOfSeq
<1> HIDE DEF S, F, base, op, h
<1>5. eq(h)
  <2>1. PICK g : /\ g = [i \in 0..Len(seq) |-> IF i = 0 THEN base ELSE F[g[i - 1]][seq[i]]]
                 /\ \A i \in 1..Len(seq) : g[i - 1] \in S /\ seq[i] \in L
    <3> HIDE DEF eq
    <3> QED
      BY <1>2, RunIs
  <2>2. \A i \in 1..Len(seq) : F[g[i - 1]][seq[i]] = op(g[i - 1], seq[i])
    BY <1>3, <2>1
  <2>3. eq(g)
    BY <2>1, <2>2, SMTT(30)
  <2> HIDE DEF eq
  <2> QED
    BY <2>3 DEF h
<1>6. Follows(h, S, F, base, seq)
  BY <1>3, <1>4, <1>5 DEF Follows
<1>7. h[Len(seq)] = Fold(F, base, seq)
  BY <1>2, <1>6, FollowsFold
<1> QED
  BY <1>1, <1>7 DEF F, base

\* Lines that are not folded are joined to themselves.
LEMMA JoinedIs ==
    ASSUME NEW L, Unfolded(L), NEW seq \in Seq(L)
    PROVE  Joined(seq) = seq
<1> DEFINE F == JoiningF(L)
           at(s) == Fold(F, <<>>, s)
           K == {s \in Seq(L) : at(s) = s}
           S == Seq(L)
<1>0. F \in Ops(S, L) /\ <<>> \in S
  BY JoiningOps
<1>1. <<>> \in K
  BY <1>0, FoldEmpty
<1>2. ASSUME NEW s \in Seq(L), NEW t \in L, s \in K
      PROVE  Append(s, t) \in K
  <2>1. at(s) = s
    BY <1>2
  <2>2. Append(s, t) \in Seq(L)
    OBVIOUS
  <2>3. F[s][t] = Append(s, t)
    BY DEF JoiningF
  <2> HIDE DEF F, S
  <2>4. at(Append(s, t)) = F[at(s)][t]
    BY <1>0, FoldAppend
  <2> QED
    BY <2>1, <2>2, <2>3, <2>4
<1>3. Seq(L) \subseteq K
  <2> HIDE DEF K
  <2> QED
    BY <1>1, <1>2, SeqInduction
<1>4. at(seq) = seq
  BY <1>3
<1> QED
  BY <1>4, JoiningFold

\* The header texts are among the lines before the first empty one.
LEMMA HeaderTextsIn ==
    ASSUME NEW M, Unfolded(M), NEW T, NEW lines \in Seq(T),
           \A i \in 1..Len(lines) : lines[i] \in M \/ \E b \in 1..i : lines[b] = <<>>
    PROVE  HeaderTexts(lines) \in Seq(M)
<1> DEFINE I == {i \in 1..Len(lines) : lines[i] = <<>>}
           end == IF I # {} THEN Min(I) ELSE 0
           read == IF end = 0 THEN lines ELSE Upto(lines, end - 1)
           all == Joined(read)
<1>1. HeaderTexts(lines) = IF end = 0 /\ all # <<>> THEN Front(all) ELSE all
  BY DEF HeaderTexts, Joined, Joining, Scan, SelectInSeq
<1>2. read \in Seq(M)
  <2>1. CASE I = {}
    <3>1. end = 0
      BY <2>1
    <3>2. read = lines
      BY <3>1
    <3>3. \A i \in 1..Len(lines) : lines[i] \in M
      <4>1. \A i \in 1..Len(lines) : lines[i] # <<>>
        BY <2>1
      <4>2. ASSUME NEW i \in 1..Len(lines), NEW b \in 1..i
            PROVE  b \in 1..Len(lines)
        OBVIOUS
      <4> QED
        BY <4>1, <4>2
    <3>4. lines = [i \in 1..Len(lines) |-> lines[i]] /\ Len(lines) \in Nat
      OBVIOUS
    <3> HIDE DEF read
    <3>5. [i \in 1..Len(lines) |-> lines[i]] \in Seq(M)
      BY <3>3, <3>4
    <3> QED
      BY <3>2, <3>4, <3>5
  <2>2. CASE I # {}
    <3>1. I \in SUBSET Nat
      OBVIOUS
    <3>2. end = Min(I)
      BY <2>2
    <3>3. Min(I) \in I /\ \A y \in I : Min(I) <= y
      BY <2>2, <3>1, MinIn
    <3> DEFINE m == Min(I)
    <3>12. m \in I /\ \A y \in I : m <= y
      BY <3>3
    <3> HIDE DEF m
    <3>13. m \in 1..Len(lines)
      BY <3>12
    <3>14. \A y \in 1..Len(lines) : y < m => lines[y] # <<>>
      <4>1. ASSUME NEW y \in 1..Len(lines), y < m, lines[y] = <<>>
            PROVE  FALSE
        <5>1. y \in I
          BY <4>1
        <5>2. m <= y
          BY <3>12, <5>1
        <5> QED
          BY <3>13, <4>1, <5>2
      <4> QED
        BY <4>1
    <3>4. m \in 1..Len(lines) /\ \A y \in 1..Len(lines) : y < m => lines[y] # <<>>
      BY <3>13, <3>14
    <3> HIDE DEF m
    <3>5. end = m /\ m # 0
      BY <3>2, <3>4 DEF m
    <3>6. read = SubSeq(lines, 1, m - 1)
      BY <3>5 DEF Upto
    <3>7. 1 \in 1..(Len(lines) + 1) /\ m - 1 \in (1 - 1)..Len(lines) /\ (m - 1) - 1 + 1 = m - 1
      BY <3>4
    <3>8. SubSeq(lines, 1, m - 1) \in Seq(T) /\ Len(SubSeq(lines, 1, m - 1)) = m - 1
      BY <3>7, SubType
    <3> DEFINE s == SubSeq(lines, 1, m - 1)
    <3>9. ASSUME NEW i \in 1..(m - 1)
          PROVE  s[i] \in M
      <4>1. i \in 1..((m - 1) - 1 + 1) /\ 1 + i - 1 = i
        BY <3>4
      <4>2. s[i] = lines[1 + i - 1]
        BY <3>7, <4>1, SubAt
      <4>3. i \in 1..Len(lines) /\ i < m
        BY <3>4
      <4>4. ASSUME NEW b \in 1..i
            PROVE  lines[b] # <<>>
        <5>1. b \in 1..Len(lines) /\ b < m
          BY <3>4, <4>3
        <5> QED
          BY <3>4, <5>1
      <4>5. lines[i] \in M
        BY <4>3, <4>4
      <4> QED
        BY <4>1, <4>2, <4>5
    <3>10. s = [i \in 1..(m - 1) |-> s[i]] /\ m - 1 \in Nat
      BY <3>4, <3>8
    <3> HIDE DEF s
    <3>11. [i \in 1..(m - 1) |-> s[i]] \in Seq(M)
      BY <3>9, <3>10
    <3> QED
      BY <3>6, <3>10, <3>11 DEF s
  <2> QED
    BY <2>1, <2>2
<1> HIDE DEF read, end
<1>3. all = read
  BY <1>2, JoinedIs
<1>4. read # <<>> => Front(read) \in Seq(M)
  <2>1. ASSUME read # <<>>
        PROVE  Front(read) \in Seq(M)
    <3>1. Len(read) \in Nat /\ Len(read) # 0
      BY <1>2, <2>1
    <3>2. 1 \in 1..(Len(read) + 1) /\ Len(read) - 1 \in (1 - 1)..Len(read)
      BY <3>1
    <3>3. SubSeq(read, 1, Len(read) - 1) \in Seq(M)
      BY <1>2, <3>2, SubType
    <3> QED
      BY <3>3 DEF Front
  <2> QED
    BY <2>1
<1> QED
  BY <1>1, <1>2, <1>3, <1>4

-----------------------------------------------------------------------------
(* The lines of a device that sends these forms *)

\* The lines of which only the name counts.
Special == AddressKinds \cup {AuthName, RouteName}
PlainLines ==
    {l \in Seq(Token) : /\ l # <<>> /\ l[1] \in Word \ {Version}
                        /\ FullName(l[1]) \notin Special}
FromLines(F) == {HeaderLine(FromName, FromText(form.user)) : form \in F}
AuthLinesOf(F) ==
    {HeaderLine(AuthName, AuthText(form)) : form \in {f \in F : f.auth # "none"}}
RouteLinesOf(F) == {HeaderLine(RouteName, ProxyText) : form \in {f \in F : f.routed}}
LinesOf(F) ==
    PlainLines \cup BodyLines \cup {<<>>} \cup {HeaderLine(ToName, PlatformText)}
        \cup FromLines(F) \cup AuthLinesOf(F) \cup RouteLinesOf(F)

\* The names of the plain lines are words, of headers that matter to no handler.
LEMMA PlainNames ==
    ASSUME NEW name \in {RegisterWord, MessageWord, ViaName, CallName, CSeqName, ExpiresName,
                         LengthName, ShortName}
    PROVE  name \in Word \ {Version} /\ FullName(name) \notin Special
<1>1. name \in Word
  BY FixedAreWords DEF FixedWords, NameWords
<1>2. name # Version
  BY DEF RegisterWord, MessageWord, ViaName, CallName, CSeqName, ExpiresName, LengthName,
         ShortName, Version
<1>3. FullName(name) \notin Special
  BY DEF RegisterWord, MessageWord, ViaName, CallName, CSeqName, ExpiresName, LengthName,
         ShortName, FullName, Special, AddressKinds, AuthName, RouteName
<1> QED
  BY <1>1, <1>2, <1>3

\* A header line of such a name is plain.
LEMMA PlainLine ==
    ASSUME NEW name \in {ViaName, CallName, CSeqName, ExpiresName, LengthName, ShortName},
           NEW text \in Seq(Token)
    PROVE  HeaderLine(name, text) \in PlainLines
<1> DEFINE l == HeaderLine(name, text)
<1>1. name \in Word \ {Version} /\ FullName(name) \notin Special
  BY PlainNames
<1>2. name \in Token
  BY <1>1, WordIs
<1>3. l \in Seq(Token) /\ l # <<>> /\ l[1] = name
  BY <1>2, HeaderLineIs
<1> HIDE DEF l
<1>4. l \in PlainLines
  BY <1>1, <1>3 DEF PlainLines
<1> QED
  BY <1>4 DEF l

\* Sequences of one element of a set.
LEMMA OneIn ==
    ASSUME NEW X, NEW x \in X
    PROVE  <<x>> \in Seq(X)
  OBVIOUS

\* The length of a body is a plain line, if it is written.
LEMMA LengthLinesIn ==
    ASSUME NEW form \in Forms
    PROVE  LengthLine(form) \in Seq(PlainLines)
<1> DEFINE number == ToString(Len(BodyOf(form)))
<1>1. number \in Token
  <2>1. IsWord(number)
    BY DeviceAssumption DEF IsForm
  <2> HIDE DEF number
  <2> QED
    BY <2>1, WordOf, WordIs
<1> HIDE DEF number
<1>2. <<number>> \in Seq(Token)
  BY <1>1, OneIn
<1>3. HeaderLine(LengthName, <<number>>) \in PlainLines
  BY <1>2, PlainLine
<1>4. HeaderLine(ShortName, <<number>>) \in PlainLines
  BY <1>2, PlainLine
<1> DEFINE t == Cons(Colon, Cons(Tab, <<number>>))
           l == Cons(LengthName, t)
<1>5. <<LengthName, Colon, Tab, number>> = l
  BY Two, Three, Four
<1>6. l \in PlainLines
  <2>1. Colon \in Token
    BY MarksAreTokens
  <2>2. Tab \in Token
    BY MarksAreTokens
  <2>3. Cons(Tab, <<number>>) \in Seq(Token)
    BY <1>2, <2>2, ConsIs
  <2>4. t \in Seq(Token)
    BY <2>1, <2>3, ConsIs
  <2>5. LengthName \in Word \ {Version} /\ FullName(LengthName) \notin Special
    BY PlainNames
  <2>6. LengthName \in Token
    BY <2>5, WordIs
  <2> HIDE DEF t
  <2>7. l \in Seq(Token) /\ l # <<>> /\ l[1] = LengthName
    BY <2>4, <2>6, ConsIs
  <2> HIDE DEF l
  <2> QED
    BY <2>5, <2>7 DEF PlainLines
<1>7. Line("Content-Length", <<number>>) = HeaderLine(LengthName, <<number>>)
  BY <1>2, LineIs, FixedAreWords DEF LengthName, NameWords, Word
<1>8. Line("l", <<number>>) = HeaderLine(ShortName, <<number>>)
  BY <1>2, LineIs, FixedAreWords DEF ShortName, NameWords, Word
<1>9. \/ LengthLine(form) = <<HeaderLine(LengthName, <<number>>)>>
      \/ LengthLine(form) = <<HeaderLine(ShortName, <<number>>)>>
      \/ LengthLine(form) = << <<LengthName, Colon, Tab, number>> >>
      \/ LengthLine(form) = <<>>
  BY <1>7, <1>8, Zenon DEF LengthLine, number, LengthName, Colon, Tab
<1>10. <<>> \in Seq(PlainLines)
  BY EmptySeq
<1> HIDE DEF l
<1> QED
  BY <1>3, <1>4, <1>5, <1>6, <1>9, <1>10, OneIn

\* The start line is plain, and begins with the method.
LEMMA StartIn ==
    ASSUME NEW method \in {RegisterWord, MessageWord}
    PROVE  StartText(method) \in PlainLines /\ StartText(method)[1] = method
<1> DEFINE u == UriOf(PlatformWord, DomainWord)
           v == u \o <<Space, Version>>
           l == StartText(method)
           o == <<method, Space>>
<1>1. method \in Word \ {Version} /\ FullName(method) \notin Special
  BY PlainNames
<1>2. method \in Token
  BY <1>1, WordIs
<1>3. l \in Seq(Token)
  <2>1. PlatformWord \in Word
    BY FixedAreWords DEF FixedWords
  <2>2. Space \in Token /\ Version \in Token /\ DomainWord \in Word
    BY MarksAreTokens, FixedAreWords DEF FixedWords, Word
  <2>3. u \in Seq(Token)
    BY <2>1, <2>2, UriOfIs
  <2>4. o \in Seq(Token)
    BY <1>2, <2>2, TwoIn
  <2>5. <<Space, Version>> \in Seq(Token)
    BY <2>2, TwoIn
  <2> HIDE DEF o, u
  <2>6. o \o u \in Seq(Token)
    BY <2>3, <2>4, CatType
  <2> HIDE DEF l
  <2>7. l = (o \o u) \o <<Space, Version>>
    BY DEF StartText, o, u, l
  <2> QED
    BY <2>5, <2>6, <2>7, CatType
<1>4. l # <<>> /\ l[1] = method
  <2>1. o \in Seq(Token) /\ Len(o) = 2 /\ o[1] = method
    BY <1>2, MarksAreTokens, TwoIn
  <2>2. u \in Seq(Token) /\ <<Space, Version>> \in Seq(Token)
    <3>1. PlatformWord \in Word /\ DomainWord \in Word /\ Version \in Word
      BY FixedAreWords DEF FixedWords
    <3>2. Space \in Token /\ Version \in Token
      BY <3>1, WordIs, MarksAreTokens
    <3>3. <<Space, Version>> \in Seq(Token)
      BY <3>2, TwoIn
    <3> QED
      BY <3>1, <3>3, UriOfIs
  <2> DEFINE e == <<Space, Version>>
             w == o \o u
  <2>3. l = w \o e
    BY DEF StartText
  <2> HIDE DEF o, u, e, l
  <2>4. w \in Seq(Token) /\ Len(w) = 2 + Len(u) /\ Len(u) \in Nat
    BY <2>1, <2>2, CatType
  <2>5. 1 \in 1..Len(o)
    BY <2>1
  <2>6. w[1] = method
    BY <2>1, <2>2, <2>5, CatLeft
  <2> HIDE DEF w
  <2>7. 1 \in 1..Len(w)
    BY <2>4
  <2>8. e \in Seq(Token)
    BY <2>2 DEF e
  <2>9. (w \o e)[1] = w[1] /\ Len(w \o e) = Len(w) + Len(e) /\ Len(e) \in Nat
    BY <2>4, <2>7, <2>8, CatLeft, CatType
  <2> QED
    BY <1>3, <2>3, <2>4, <2>6, <2>9
<1> HIDE DEF l
<1>5. l \in PlainLines
  BY <1>1, <1>3, <1>4 DEF PlainLines
<1> QED
  BY <1>4, <1>5 DEF l

\* Sequences of six elements of a set.
LEMMA SixIn ==
    ASSUME NEW X, NEW a \in X, NEW b \in X, NEW c \in X, NEW d \in X, NEW e \in X, NEW f \in X
    PROVE  <<a, b, c, d, e, f>> \in Seq(X)
  OBVIOUS

\* The lines that every request has are lines of its forms.
LEMMA FirstLinesIn ==
    ASSUME NEW F \in SUBSET Forms, NEW form \in F, NEW n \in 1..MaxSent
    PROVE  FirstLines(form, n) \in Seq(LinesOf(F))
<1> DEFINE L == LinesOf(F)
           a == StartText(form.method)
           b == HeaderLine(ViaName, ViaText(n))
           c == HeaderLine(FromName, FromText(form.user))
           d == HeaderLine(ToName, PlatformText)
           e == HeaderLine(CallName, <<CallOf(form, n)>>)
           f == HeaderLine(CSeqName, CSeqText(form, n))
<1>1. PlainLines \subseteq L /\ c \in L /\ d \in L
  BY DEF LinesOf, FromLines
<1>2. form.method \in {RegisterWord, MessageWord} /\ form.user \in Word
  BY FormIs
<1>3. Branch(n) \in Word /\ ToString(n) \in Word /\ CallOf(form, n) \in Word
  BY NumberIs, CallOfIs
<1>4. a \in PlainLines
  BY <1>2, StartIn
<1>5. Branch(n) \in Token /\ ToString(n) \in Token /\ CallOf(form, n) \in Token
  BY <1>3, WordIs
<1>6. form.method \in Token
  BY <1>2, FixedAreWords, WordIs DEF FixedWords
<1>7. ViaText(n) \in Seq(Token)
  BY <1>2, <1>5, <1>6, TextsTyped
<1>8. b \in PlainLines
  BY <1>7, PlainLine
<1>9. <<CallOf(form, n)>> \in Seq(Token)
  BY <1>5, OneIn
<1>10. e \in PlainLines
  BY <1>9, PlainLine
<1>11. CSeqText(form, n) \in Seq(Token)
  <2>1. Space \in Token
    BY MarksAreTokens
  <2> QED
    BY <1>5, <1>6, <2>1, ThreeIn DEF CSeqText
<1>12. f \in PlainLines
  BY <1>11, PlainLine
<1> HIDE DEF L, a, b, c, d, e, f
<1>13. a \in L /\ b \in L /\ e \in L /\ f \in L
  BY <1>1, <1>4, <1>8, <1>10, <1>12
<1>14. <<a, b, c, d, e, f>> \in Seq(L)
  BY <1>1, <1>13, SixIn
<1> QED
  BY <1>14 DEF FirstLines, L, a, b, c, d, e, f

\* What a device writes are lines of its forms.
LEMMA DeviceLinesIn ==
    ASSUME NEW F \in SUBSET Forms, NEW form \in F, NEW n \in 1..MaxSent
    PROVE  DeviceLines(form, n) \in Seq(LinesOf(F)) \ {<<>>}
<1> DEFINE L == LinesOf(F)
           a == FirstLines(form, n)
           b == RouteLines(form)
           c == AuthLines(form)
           d == ExpiresLines(form)
           e == LengthLine(form)
           f == << <<>> >>
           g == BodyOf(form)
<1>1. PlainLines \subseteq L /\ BodyLines \subseteq L
  BY DEF LinesOf
<1>2. a \in Seq(L)
  BY FirstLinesIn
<1>3. b \in Seq(L)
  <2>1. CASE form.routed
    <3> DEFINE l == HeaderLine(RouteName, ProxyText)
    <3>1. l \in L
      BY <2>1 DEF LinesOf, RouteLinesOf
    <3>2. b = <<l>>
      BY <2>1 DEF RouteLines
    <3> HIDE DEF l, L
    <3> QED
      BY <3>1, <3>2, OneIn
  <2>2. CASE ~form.routed
    <3>1. b = <<>>
      BY <2>2 DEF RouteLines
    <3> HIDE DEF L
    <3> QED
      BY <3>1, EmptySeq
  <2> QED
    BY <2>1, <2>2
<1>4. c \in Seq(L)
  <2>1. CASE form.auth # "none"
    <3> DEFINE l == HeaderLine(AuthName, AuthText(form))
    <3>1. l \in L
      BY <2>1 DEF LinesOf, AuthLinesOf
    <3>2. c = <<l>>
      BY <2>1 DEF AuthLines
    <3> HIDE DEF l, L
    <3> QED
      BY <3>1, <3>2, OneIn
  <2>2. CASE form.auth = "none"
    <3>1. c = <<>>
      BY <2>2 DEF AuthLines
    <3> HIDE DEF L
    <3> QED
      BY <3>1, EmptySeq
  <2> QED
    BY <2>1, <2>2
<1>5. d \in Seq(L)
  <2>1. CASE form.expires # ""
    <3> DEFINE l == HeaderLine(ExpiresName, <<form.expires>>)
    <3>1. form.expires \in Word
      BY <2>1, FormIs
    <3>2. form.expires \in Token
      BY <3>1, WordIs
    <3>3. <<form.expires>> \in Seq(Token)
      BY <3>2, OneIn
    <3>4. l \in PlainLines
      BY <3>3, PlainLine
    <3>5. d = <<l>>
      BY <2>1 DEF ExpiresLines
    <3> HIDE DEF l, L
    <3> QED
      BY <1>1, <3>4, <3>5, OneIn
  <2>2. CASE form.expires = ""
    <3>1. d = <<>>
      BY <2>2 DEF ExpiresLines
    <3> HIDE DEF L
    <3> QED
      BY <3>1, EmptySeq
  <2> QED
    BY <2>1, <2>2
<1>6. e \in Seq(PlainLines)
  BY LengthLinesIn
<1>7. e \in Seq(L)
  BY <1>1, <1>6, SeqMonotonic
<1>8. f \in Seq(L)
  <2>1. <<>> \in L
    BY DEF LinesOf
  <2> HIDE DEF L
  <2> QED
    BY <2>1, OneIn
<1>9. g \in Seq(BodyLines)
  BY BodyIs
<1>10. g \in Seq(L)
  BY <1>1, <1>9, SeqMonotonic
<1>11. DeviceLines(form, n) = (((((a \o b) \o c) \o d) \o e) \o f) \o g
  BY DeviceLinesAre
<1>12. DeviceLines(form, n) # <<>>
  BY DEF DeviceLines
<1> HIDE DEF L, a, b, c, d, e, f, g
<1>13. a \o b \in Seq(L)
  BY <1>2, <1>3, CatType
<1>14. (a \o b) \o c \in Seq(L)
  BY <1>4, <1>13, CatType
<1>15. ((a \o b) \o c) \o d \in Seq(L)
  BY <1>5, <1>14, CatType
<1>16. (((a \o b) \o c) \o d) \o e \in Seq(L)
  BY <1>7, <1>15, CatType
<1>17. ((((a \o b) \o c) \o d) \o e) \o f \in Seq(L)
  BY <1>8, <1>16, CatType
<1>18. (((((a \o b) \o c) \o d) \o e) \o f) \o g \in Seq(L)
  BY <1>10, <1>17, CatType
<1> QED
  BY <1>11, <1>12, <1>18 DEF L

-----------------------------------------------------------------------------
(* The headers of a device that sends these forms *)

Carries(F, h) ==
    /\ IsHeader(h)
    /\ NameOf(h) = AuthName => \E form \in F : form.auth # "none" /\ h.val.text = AuthText(form)
    /\ NameOf(h) = FromName => \E form \in F : h.val.uri.user \in {Nil, Some(<<form.user>>)}
    /\ NameOf(h) = RouteName => \E form \in F : form.routed

\* What a line gives when it is read as a header.
Gives(F, l) == ParsedOf(l) = <<>> \/ \E h : ParsedOf(l) = <<h>> /\ Carries(F, h)

\* A plain line gives no header that matters.
LEMMA PlainGives ==
    ASSUME NEW F, NEW l \in PlainLines
    PROVE  Gives(F, l)
<1> DEFINE kind == FullName(l[1])
           text == Trim(After(l, FirstOf(l, {":"})))
<1>1. kind \notin Special
  BY DEF PlainLines
<1>2. ParseHeader(l) = ParseError \/ ParseHeader(l) = ParseValue(kind, text)
  BY DEF ParseHeader
<1> HIDE DEF kind, text
<1>3. OneHeader(ParseValue(kind, text), kind)
  BY <1>1, ParseOther DEF Special
<1>4. OneHeader(ParseHeader(l), kind)
  BY <1>2, <1>3, NoneParsed
<1>5. kind # AuthName /\ kind # FromName /\ kind # RouteName
  BY <1>1 DEF Special, AddressKinds, FromName
<1> QED
  BY <1>4, <1>5 DEF OneHeader, Gives, Carries, ParsedOf

\* A line of a body gives no header: it has no colon.
LEMMA BodyGives ==
    ASSUME NEW F, NEW l \in BodyLines
    PROVE  Gives(F, l)
<1> DEFINE tokens == {Colon}
<1>1. l \in Seq(BodyWords)
  BY DEF BodyLines
<1>2. Colon \notin BodyWords
  BY WordIs, MarksDiffer DEF BodyWords, Empty, Colon
<1>3. Free(l, tokens)
  BY <1>1, <1>2 DEF Free
<1> HIDE DEF tokens
<1>4. FirstOf(l, tokens) = 0
  BY <1>1, <1>3, FirstNone
<1>5. ParseHeader(l) = ParseError
  BY <1>4 DEF ParseHeader, tokens, Colon
<1> QED
  BY <1>5 DEF Gives, ParsedOf, ParseError

\* These names are no short forms.
LEMMA FullNames ==
    /\ FullName(ToName) = ToName /\ FullName(FromName) = FromName
    /\ FullName(AuthName) = AuthName /\ FullName(RouteName) = RouteName
  BY DEF FullName, ToName, FromName, AuthName, RouteName

\* The names that matter are different, and two of them are addresses.
LEMMA NamesDiffer ==
    /\ ToName \notin {FromName, AuthName, RouteName, "Generic"}
    /\ FromName \notin {AuthName, RouteName, "Generic"}
    /\ AuthName # RouteName
    /\ ToName \in AddressKinds /\ FromName \in AddressKinds
    /\ AuthName \notin AddressKinds /\ RouteName \notin AddressKinds
  BY DEF ToName, FromName, AuthName, RouteName, AddressKinds

\* A line with one of the names that count.
LEMMA NamedLine ==
    ASSUME NEW name \in {ToName, FromName, AuthName, RouteName}, NEW text \in Seq(Token),
           text # <<>>, text[1] \notin Blank, text[Len(text)] \notin Blank
    PROVE  ParsedOf(HeaderLine(name, text)) = ParseValue(name, text).headers
<1>1. name \in Token \ {Colon}
  BY FixedAreWords, WordIs DEF NameWords
<1>2. ParseHeader(HeaderLine(name, text)) = ParseValue(FullName(name), text)
  BY <1>1, ParseLine
<1>3. FullName(name) = name
  BY FullNames
<1> QED
  BY <1>2, <1>3 DEF ParsedOf

\* The address of the platform ends in ink and is one section.
LEMMA PlatformTextIs ==
    ASSUME NEW text, text = PlatformText
    PROVE  /\ text \in Seq(Token \ {Comma, Quote}) /\ text \in Seq(Token) /\ text # <<>>
           /\ text[1] \notin Blank /\ text[Len(text)] \notin Blank
<1> DEFINE u == UriOf(PlatformWord, DomainWord)
           X == Token \ {Comma, Quote}
<1>1. PlatformWord \in Word /\ DomainWord \in Word
  BY FixedAreWords DEF FixedWords
<1>2. /\ u \in Seq(Token) /\ Len(u) = 5 /\ u[1] = SipWord /\ u[2] = Colon
      /\ u[3] = PlatformWord /\ u[4] = AtSign /\ u[5] = DomainWord
  BY <1>1, UriOfIs
<1>3. /\ SipWord \in X /\ Colon \in X /\ PlatformWord \in X /\ AtSign \in X /\ DomainWord \in X
      /\ Langle \in X /\ Rangle \in X
  <2>1. SipWord \in Word
    BY FixedAreWords DEF FixedWords
  <2> QED
    BY <1>1, <2>1, WordIs, MarksAreTokens, MarksDiffer
<1> HIDE DEF u, X
<1>4. \A i \in 1..5 : u[i] \in X
  BY <1>2, <1>3
<1>5. u = [i \in 1..5 |-> u[i]]
  BY <1>2
<1>6. [i \in 1..5 |-> u[i]] \in Seq(X)
  BY <1>4
<1>7. u \in Seq(X)
  BY <1>5, <1>6
<1> DEFINE a == <<Langle>>
           b == <<Rangle>>
           w == a \o u
<1>8. a \in Seq(X) /\ Len(a) = 1 /\ a[1] = Langle /\ b \in Seq(X) /\ Len(b) = 1 /\ b[1] = Rangle
  BY <1>3, OneIn
<1>9. text = w \o b
  BY DEF PlatformText, u
<1> HIDE DEF a, b
<1>10. a \in Seq(X)
  BY <1>8
<1>11. b \in Seq(X)
  BY <1>8
<1>12. w = a \o u
  OBVIOUS
<1> HIDE DEF w
<1>13. /\ w \in Seq(X) /\ Len(w) = Len(a) + Len(u)
       /\ \A i \in 1..Len(a) : w[i] = a[i]
  BY <1>7, <1>10, <1>12, CatIs
<1>14. w \in Seq(X)
  BY <1>13
<1>15. /\ text \in Seq(X) /\ Len(text) = Len(w) + Len(b)
       /\ \A i \in 1..Len(w) : text[i] = w[i]
       /\ \A i \in 1..Len(b) : text[Len(w) + i] = b[i]
  BY <1>9, <1>11, <1>14, CatIs
<1>16. Len(w) = 6 /\ Len(text) = 7
  BY <1>2, <1>8, <1>13, <1>15
<1>17. w[1] = Langle /\ text[1] = w[1] /\ text[7] = Rangle
  BY <1>8, <1>13, <1>15, <1>16
<1>18. text[1] = Langle /\ text[Len(text)] = Rangle
  BY <1>16, <1>17
<1>19. Langle \notin Blank /\ Rangle \notin Blank
  BY BlankIs, MarksDiffer
<1>23. Len(text) = 7
  BY <1>16
<1>20. text # <<>>
  BY <1>23
<1>21. X \subseteq Token
  BY DEF X
<1>22. text \in Seq(Token)
  BY <1>15, <1>21, SeqMonotonic
<1> QED
  BY <1>15, <1>18, <1>19, <1>20, <1>22 DEF X

\* The address of the proxy starts and ends with its brackets.
LEMMA ProxyTextIs ==
    ASSUME NEW text, text = ProxyText
    PROVE  /\ text \in Seq(Token) /\ text # <<>> /\ text[1] = Langle /\ text[Len(text)] = Rangle
<1>1. SipWord \in Word /\ ProxyWord \in Word
  BY FixedAreWords DEF FixedWords
<1>2. Langle \in Token /\ SipWord \in Token /\ Colon \in Token /\ ProxyWord \in Token
            /\ Rangle \in Token
  BY <1>1, WordIs, MarksAreTokens
<1> QED
  BY <1>2 DEF ProxyText

\* The To line gives the address of the platform, or nothing.
LEMMA ToParsed ==
    LET l == HeaderLine(ToName, PlatformText)
    IN \/ ParsedOf(l) = <<>>
       \/ ParsedOf(l) = <<Header(ToName, ParseAddressValue(PlatformText).addr)>>
<1> DEFINE text == PlatformText
           l == HeaderLine(ToName, text)
<1>1. /\ text \in Seq(Token \ {Comma, Quote}) /\ text \in Seq(Token) /\ text # <<>>
      /\ text[1] \notin Blank /\ text[Len(text)] \notin Blank
  BY PlatformTextIs
<1> HIDE DEF text
<1>2. ParsedOf(l) = ParseValue(ToName, text).headers
  BY <1>1, NamedLine
<1>3. ToName \in AddressKinds
  BY NamesDiffer
<1>4. ParsedOf(l) = <<>> \/ ParsedOf(l) = <<Header(ToName, ParseAddressValue(text).addr)>>
  BY <1>1, <1>2, <1>3, ParseAddress
<1> QED
  BY <1>4 DEF text, l

\* Which is no header that matters.
LEMMA ToGives ==
    ASSUME NEW F
    PROVE  Gives(F, HeaderLine(ToName, PlatformText))
<1> DEFINE l == HeaderLine(ToName, PlatformText)
           h == Header(ToName, ParseAddressValue(PlatformText).addr)
<1>1. ParsedOf(l) = <<>> \/ ParsedOf(l) = <<h>>
  BY ToParsed
<1>2. IsHeader(h) /\ NameOf(h) = ToName
  BY NamesDiffer DEF Header, IsHeader, NameOf
<1> HIDE DEF h, l
<1>3. Carries(F, h)
  BY <1>2, NamesDiffer DEF Carries
<1> QED
  BY <1>1, <1>3 DEF Gives, l, h

\* The From line gives the address that is written in it, or nothing.
LEMMA FromParsed ==
    ASSUME NEW user \in Word, NEW text, text = FromText(user),
           NEW l, l = HeaderLine(FromName, text)
    PROVE  \/ ParsedOf(l) = <<>>
           \/ ParsedOf(l) = <<Header(FromName, ParseAddressValue(text).addr)>>
<1>1. /\ text \in Seq(Token) /\ Len(text) = 11 /\ text[1] = Langle /\ text[11] = DWord
  BY FromTextIs
<1>2. text \in Seq(Token \ {Comma, Quote})
  BY FromUser
<1>3. Len(text) = 11
  BY <1>1
<1>4. text # <<>>
  <2>1. Len(<<>>) = 0
    OBVIOUS
  <2>2. \A s : Len(s) = 11 /\ s = <<>> => FALSE
    BY <2>1
  <2> QED
    BY <1>3, <2>2
<1>5. DWord \in Word
  BY FixedAreWords DEF FixedWords
<1>6. Langle \notin Blank /\ DWord \notin Blank
  BY <1>5, BlankIs, MarksDiffer, WordIs
<1>7. text[1] \notin Blank /\ text[Len(text)] \notin Blank
  BY <1>1, <1>6
<1>8. ParsedOf(l) = ParseValue(FromName, text).headers
  BY <1>1, <1>4, <1>7, NamedLine
<1>9. FromName \in AddressKinds
  BY NamesDiffer
<1> QED
  BY <1>2, <1>8, <1>9, ParseAddress

\* It has the user of its form, or no user.
LEMMA FromGives ==
    ASSUME NEW F \in SUBSET Forms, NEW form \in F
    PROVE  Gives(F, HeaderLine(FromName, FromText(form.user)))
<1> DEFINE user == form.user
           text == FromText(user)
           l == HeaderLine(FromName, text)
           addr == ParseAddressValue(text).addr
           h == Header(FromName, addr)
<1>1. user \in Word
  BY FormIs
<1> HIDE DEF user
<1>2. addr.uri.user \in {Nil, Some(<<user>>)}
  BY <1>1, FromUser
<1>3. ParsedOf(l) = <<>> \/ ParsedOf(l) = <<h>>
  BY <1>1, FromParsed
<1> HIDE DEF text, addr, l
<1>4. IsHeader(h) /\ NameOf(h) = FromName /\ h.val = addr
  BY NamesDiffer DEF Header, IsHeader, NameOf
<1> HIDE DEF h
<1>5. Carries(F, h)
  BY <1>2, <1>4, NamesDiffer DEF Carries, user
<1> QED
  BY <1>3, <1>5 DEF Gives, l, text, user

\* The Authorization line gives the digest of its form.
LEMMA AuthGives ==
    ASSUME NEW F \in SUBSET Forms, NEW form \in F, form.auth # "none"
    PROVE  Gives(F, HeaderLine(AuthName, AuthText(form)))
<1> DEFINE text == AuthText(form)
           l == HeaderLine(AuthName, text)
           h == Generic(AuthName, text)
<1>1. /\ text \in Seq(Token) /\ text # <<>>
      /\ text[1] \notin Blank /\ text[Len(text)] \notin Blank
  BY AuthTextIs
<1> HIDE DEF text
<1>2. ParsedOf(l) = ParseValue(AuthName, text).headers
  BY <1>1, NamedLine
<1>3. ParseValue(AuthName, text) = Parsed(<<h>>)
  BY DEF ParseValue, AuthName, AddressKinds, RouteKinds, NumberKinds, TextKinds
<1>4. IsHeader(h) /\ NameOf(h) = AuthName /\ h.val.text = text
  BY DEF Generic, Header, IsHeader, NameOf
<1> HIDE DEF h, l
<1>5. Carries(F, h)
  BY <1>4, NamesDiffer DEF Carries, text
<1>6. ParsedOf(l) = <<h>>
  BY <1>2, <1>3 DEF Parsed
<1> QED
  BY <1>5, <1>6 DEF Gives, l, text

\* The Record-Route line is there for a routed form only.
LEMMA RouteGives ==
    ASSUME NEW F, NEW form \in F, form.routed
    PROVE  Gives(F, HeaderLine(RouteName, ProxyText))
<1> DEFINE text == ProxyText
           l == HeaderLine(RouteName, text)
<1>1. /\ text \in Seq(Token) /\ text # <<>> /\ text[1] = Langle /\ text[Len(text)] = Rangle
  BY ProxyTextIs
<1> HIDE DEF text
<1>2. Langle \notin Blank /\ Rangle \notin Blank
  BY BlankIs, MarksDiffer
<1>3. ParsedOf(l) = ParseValue(RouteName, text).headers
  BY <1>1, <1>2, NamedLine
<1>4. OneHeader(ParseValue(RouteName, text), RouteName)
  BY NamesDiffer, ParseOther
<1> HIDE DEF l
<1>5. \A h : IsHeader(h) /\ NameOf(h) = RouteName => Carries(F, h)
  BY NamesDiffer DEF Carries
<1> QED
  BY <1>3, <1>4, <1>5 DEF Gives, OneHeader, l, text

\* Every line of the forms F gives what F carries.
LEMMA LineGives ==
    ASSUME NEW F \in SUBSET Forms, NEW l \in LinesOf(F) \ {<<>>}
    PROVE  Gives(F, l)
  BY PlainGives, BodyGives, ToGives, FromGives, AuthGives, RouteGives
     DEF LinesOf, FromLines, AuthLinesOf, RouteLinesOf

\* And what else the parser needs to know of a line.
LEMMA LineShape ==
    ASSUME NEW F \in SUBSET Forms, NEW l \in LinesOf(F) \ {<<>>}
    PROVE  l \in Seq(Token) /\ l[1] \notin Blank /\ l[1] # Version
<1>1. Space \notin Word /\ Tab \notin Word /\ Empty \notin Blank /\ Empty # Version
  BY WordIs, BlankIs DEF Empty, Blank, Version
<1>2. ASSUME NEW w \in BodyWords
      PROVE  w \in Token /\ w \notin Blank /\ w # Version
  BY <1>1, WordIs, BlankIs, MarksAreTokens DEF BodyWords, Token, MarkSet
<1>3. CASE l \in PlainLines
  BY <1>1, <1>3, BlankIs DEF PlainLines
<1>4. CASE l \in BodyLines
  <2>1. l \in Seq(BodyWords) /\ l # <<>>
    BY <1>4 DEF BodyLines
  <2>2. BodyWords \subseteq Token
    BY <1>2
  <2>3. l \in Seq(Token)
    BY <2>1, <2>2, SeqMonotonic
  <2>4. 1 \in 1..Len(l)
    BY <2>1
  <2>5. l[1] \in BodyWords
    BY <2>1, <2>4, ElementOfSeq
  <2> QED
    BY <1>2, <2>3, <2>5
<1>5. ASSUME NEW name \in {ToName, FromName, AuthName, RouteName}, NEW text \in Seq(Token),
             l = HeaderLine(name, text)
      PROVE  l \in Seq(Token) /\ l[1] \notin Blank /\ l[1] # Version
  <2>1. name \in Word /\ name # Version
    BY FixedAreWords DEF NameWords, ToName, FromName, AuthName, RouteName, Version
  <2>2. name \in Token /\ name \notin Blank
    BY <1>1, <2>1, WordIs, BlankIs
  <2> QED
    BY <1>5, <2>1, <2>2, HeaderLineIs
<1>6. PlatformText \in Seq(Token) /\ ProxyText \in Seq(Token)
  BY PlatformTextIs, ProxyTextIs
<1>7. \A form \in F : FromText(form.user) \in Seq(Token) /\ AuthText(form) \in Seq(Token)
  BY FormIs, FromTextIs, AuthTextIs
<1> QED
  BY <1>3, <1>4, <1>5, <1>6, <1>7 DEF LinesOf, FromLines, AuthLinesOf, RouteLinesOf

-----------------------------------------------------------------------------
(* Headers under their names *)

Grouped(H) == {g \in Group(H) : g.list \in Seq(Named(H, g.name))}

\* AppendHeader keeps groups of headers of their own name.
LEMMA GroupedAppend ==
    ASSUME NEW H, NEW headers \in Seq(Grouped(H)), NEW h \in H
    PROVE  AppendHeader(headers, h) \in Seq(Grouped(H))
<1> DEFINE n == NameOf(h)
           at == GroupAt(headers, n)
           fresh == [name |-> n, list |-> <<h>>]
           old == headers[at]
<1>1. \/ at = 0
      \/ at \in 1..Len(headers) /\ old.name = n
  BY GroupAtIn
<1>2. h \in Named(H, n)
  BY DEF Named
<1>3. CASE at = 0
  <2>1. AppendHeader(headers, h) = Append(headers, fresh)
    BY <1>3 DEF AppendHeader
  <2>2. fresh \in Group(H)
    BY DEF Group, Names
  <2>3. fresh.list \in Seq(Named(H, fresh.name))
    BY <1>2, OneIn
  <2> HIDE DEF fresh
  <2>4. fresh \in Grouped(H)
    BY <2>2, <2>3 DEF Grouped
  <2> QED
    BY <2>1, <2>4
<1>4. CASE at \in 1..Len(headers) /\ old.name = n
  <2>1. old \in Group(H) /\ old.list \in Seq(Named(H, n)) /\ old.name = n
    BY <1>4 DEF Grouped
  <2> DEFINE list == Append(old.list, h)
             new == [old EXCEPT !.list = list]
  <2>2. list \in Seq(Named(H, n))
    <3> HIDE DEF old, n
    <3> QED
      BY <1>2, <2>1
  <2>3. list \in Seq(H)
    <3>1. Named(H, n) \subseteq H
      BY DEF Named
    <3> QED
      BY <2>2, <3>1, SeqMonotonic
  <2>4. new \in Grouped(H)
    <3> HIDE DEF old, list, n
    <3>1. new \in Group(H) /\ new.list = list /\ new.name = n
      BY <2>1, <2>3 DEF Group
    <3> HIDE DEF new
    <3> QED
      BY <2>2, <3>1 DEF Grouped
  <2>5. AppendHeader(headers, h) = [headers EXCEPT ![at] = new]
    BY <1>4 DEF AppendHeader
  <2> HIDE DEF new, at
  <2> QED
    BY <1>4, <2>4, <2>5, ExceptSeq
<1> QED
  BY <1>1, <1>3, <1>4

\* Such groups are groups.
LEMMA GroupedAreGroups ==
    ASSUME NEW H, NEW headers \in Seq(Grouped(H))
    PROVE  headers \in Seq(Group(H))
<1>1. Grouped(H) \subseteq Group(H)
  BY DEF Grouped
<1> QED
  BY <1>1, SeqMonotonic

\* AppendAll gives such groups.
LEMMA GroupedAll ==
    ASSUME NEW H, NEW hdrs \in Seq(H)
    PROVE  AppendAll(<<>>, hdrs) \in Seq(Grouped(H))
<1> DEFINE S == Seq(Grouped(H))
           none == <<>>
           K == {seq \in Seq(H) : AppendAll(none, seq) \in S}
<1>0. none \in Seq(Group(H)) /\ none \in S
  OBVIOUS
<1> HIDE DEF none, S
<1>1. <<>> \in K
  <2>1. AppendAll(none, <<>>) = none
    BY <1>0, AppendAllEmpty
  <2> QED
    BY <1>0, <2>1
<1>2. ASSUME NEW seq \in Seq(H), NEW h \in H, seq \in K
      PROVE  Append(seq, h) \in K
  <2> DEFINE headers == AppendAll(none, seq)
  <2>1. headers \in Seq(Grouped(H))
    BY <1>2 DEF S
  <2>2. AppendAll(none, Append(seq, h)) = AppendHeader(headers, h)
    BY <1>0, AppendAllAppend
  <2> HIDE DEF headers
  <2>3. AppendHeader(headers, h) \in S
    BY <2>1, GroupedAppend DEF S
  <2>4. Append(seq, h) \in Seq(H)
    OBVIOUS
  <2> QED
    BY <2>2, <2>3, <2>4
<1>3. Seq(H) \subseteq K
  <2> HIDE DEF K
  <2> QED
    BY <1>1, <1>2, SeqInduction
<1> QED
  BY <1>3 DEF none, S

\* GetHeaders gives headers of the name it was asked for.
LEMMA GroupedGet ==
    ASSUME NEW H, NEW headers \in Seq(Grouped(H)), NEW name
    PROVE  GetHeaders(headers, name) \in Seq(Named(H, name))
<1> DEFINE at == GroupAt(headers, name)
<1>1. at = 0 \/ (at \in 1..Len(headers) /\ headers[at].name = name)
  BY GroupAtIn
<1>2. CASE at = 0
  <2>1. GetHeaders(headers, name) = <<>>
    BY <1>2 DEF GetHeaders
  <2>2. <<>> \in Seq(Named(H, name))
    OBVIOUS
  <2> QED
    BY <2>1, <2>2
<1>3. CASE at \in 1..Len(headers) /\ headers[at].name = name
  <2>1. headers[at] \in Grouped(H)
    BY <1>3
  <2>2. GetHeaders(headers, name) = headers[at].list
    BY <1>3 DEF GetHeaders
  <2> HIDE DEF at
  <2> QED
    BY <1>3, <2>1, <2>2 DEF Grouped
<1> QED
  BY <1>1, <1>2, <1>3

\* ReplaceFirst keeps such groups.
LEMMA GroupedReplace ==
    ASSUME NEW H, NEW headers \in Seq(Grouped(H)), NEW h \in H,
           GetHeaders(headers, NameOf(h)) # <<>>
    PROVE  ReplaceFirst(headers, h) \in Seq(Grouped(H))
<1> DEFINE n == NameOf(h)
           at == GroupAt(headers, n)
           old == headers[at]
           list == [old.list EXCEPT ![1] = h]
           new == [old EXCEPT !.list = list]
<1>1. at \in 1..Len(headers) /\ old.name = n
  BY GroupAtIn DEF GetHeaders
<1>2. old \in Grouped(H)
  BY <1>1
<1>3. old.list # <<>>
  BY <1>1 DEF GetHeaders
<1>4. new \in Grouped(H)
  <2> HIDE DEF old
  <2>1. old.list \in Seq(Named(H, n)) /\ old \in Group(H)
    BY <1>1, <1>2 DEF Grouped
  <2>2. 1 \in 1..Len(old.list)
    BY <1>3, <2>1, EmptySeq
  <2>3. h \in Named(H, n)
    BY DEF Named
  <2> HIDE DEF n
  <2>4. list \in Seq(Named(H, n))
    BY <2>1, <2>2, <2>3, ExceptSeq
  <2>5. Named(H, n) \subseteq H
    BY DEF Named
  <2>6. list \in Seq(H)
    BY <2>4, <2>5, SeqMonotonic
  <2> HIDE DEF list
  <2>7. new \in Group(H) /\ new.list = list /\ new.name = n
    BY <1>1, <2>1, <2>6 DEF Group
  <2> HIDE DEF new
  <2> QED
    BY <2>4, <2>7 DEF Grouped
<1>5. ReplaceFirst(headers, h) = [headers EXCEPT ![at] = new]
  BY <1>1 DEF ReplaceFirst
<1> HIDE DEF new, at
<1> QED
  BY <1>1, <1>4, <1>5, ExceptSeq

\* Groups of headers are groups of the headers of a wider set.
LEMMA WiderGroups ==
    ASSUME NEW H, NEW T, H \subseteq T, NEW headers \in Seq(Grouped(H))
    PROVE  headers \in Seq(Grouped(T))
<1>1. ASSUME NEW g \in Grouped(H)
      PROVE  g \in Grouped(T)
  <2>1. g \in Group(H) /\ g.list \in Seq(Named(H, g.name))
    BY DEF Grouped
  <2>2. Named(H, g.name) \subseteq Named(T, g.name)
    BY DEF Named
  <2>3. g.list \in Seq(Named(T, g.name))
    BY <2>1, <2>2, SeqMonotonic
  <2>4. Names(H) \subseteq Names(T)
    BY DEF Names
  <2>5. Seq(H) \subseteq Seq(T)
    BY SeqMonotonic
  <2>6. g \in Group(T)
    BY <2>1, <2>4, <2>5 DEF Group
  <2> QED
    BY <2>3, <2>6 DEF Grouped
<1>2. Grouped(H) \subseteq Grouped(T)
  BY <1>1
<1> QED
  BY <1>2, SeqMonotonic

-----------------------------------------------------------------------------
(* The requests of a device that sends these forms *)

CarriedBy(F, headers) ==
    \E H : (\A h \in H : Carries(F, h)) /\ headers \in Seq(Grouped(H))
RequestOf(F, req) == IsReq(req) /\ CarriedBy(F, req.headers)

\* Texts of which each gives a header of H or none give groups of headers of H.
LEMMA TextsGive ==
    ASSUME NEW M, NEW H, \A l \in M : ParsedOf(l) = <<>> \/ \E h \in H : ParsedOf(l) = <<h>>,
           NEW texts \in Seq(M)
    PROVE  AppendAll(<<>>, Flat(Each(ParsedOf, texts))) \in Seq(Grouped(H))
<1> DEFINE hdrs == Flat(Each(ParsedOf, texts))
<1>1. \A l \in M : ParsedOf(l) \in Seq(H)
  BY OneIn, EmptySeq
<1>2. Each(ParsedOf, texts) \in Seq(Seq(H))
  <2>1. \A i \in 1..Len(texts) : texts[i] \in M
    BY ElementOfSeq
  <2>2. DOMAIN texts = 1..Len(texts) /\ Len(texts) \in Nat
    OBVIOUS
  <2>3. Each(ParsedOf, texts) = [i \in 1..Len(texts) |-> ParsedOf(texts[i])]
    BY <2>2 DEF Each
  <2> QED
    BY <1>1, <2>1, <2>2, <2>3
<1>3. hdrs \in Seq(H)
  BY <1>2, FlatType
<1> HIDE DEF hdrs
<1>4. AppendAll(<<>>, hdrs) \in Seq(Grouped(H))
  BY <1>3, GroupedAll
<1> QED
  BY <1>4 DEF hdrs

\* A packet of lines of F is refused or gives a request that F carries.
LEMMA PacketGives ==
    ASSUME NEW F \in SUBSET Forms, NEW packet \in Seq(LinesOf(F)), packet # <<>>
    PROVE  \/ ParseMessage(packet) = Nil
           \/ \E req : ParseMessage(packet) = Some(req) /\ RequestOf(F, req)
<1> DEFINE L == LinesOf(F)
           first == packet[1]
           lines == After(packet, 1)
           texts == HeaderTexts(lines)
           M == L \ {<<>>}
           H == {h \in UNION {{ParsedOf(l)[1]} : l \in M} : Carries(F, h)}
<1>1. first \in L
  <2> HIDE DEF L
  <2>1. packet \in Seq(L)
    BY DEF L
  <2> QED
    BY <2>1, ConsHead
<1>2. lines \in Seq(L)
  <2> HIDE DEF L
  <2>1. packet \in Seq(L)
    BY DEF L
  <2> QED
    BY <2>1, ConsHead
<1>3. Opens(first)
  <2>1. CASE first = <<>>
    BY <2>1 DEF Opens
  <2>2. CASE first # <<>>
    <3>1. first \in LinesOf(F) \ {<<>>}
      BY <1>1, <2>2
    <3> HIDE DEF first
    <3>2. first \in Seq(Token) /\ first[1] \notin Blank /\ first[1] # Version
      BY <3>1, LineShape
    <3> QED
      BY <2>2, <3>2, BlankIs DEF Opens
  <2> QED
    BY <2>1, <2>2
<1>4. \/ ParseMessage(packet) = Nil
      \/ \E req : /\ ParseMessage(packet) = Some(req) /\ IsReq(req)
                  /\ req.headers = AppendAll(<<>>, Flat(Each(ParsedOf, texts)))
  BY <1>3, MessageIs
<1>5. Unfolded(M)
  BY LineShape DEF Unfolded
<1> HIDE DEF lines
<1>6. texts \in Seq(M)
  <2>1. \A i \in 1..Len(lines) : lines[i] \in M \/ \E b \in 1..i : lines[b] = <<>>
    <3>1. \A i \in 1..Len(lines) : lines[i] \in L
      <4> HIDE DEF L
      <4> QED
        BY <1>2, ElementOfSeq
    <3>2. \A i \in 1..Len(lines) : i \in 1..i
      BY <1>2
    <3> HIDE DEF L
    <3> QED
      BY <3>1, <3>2
  <2> HIDE DEF L, M
  <2> QED
    BY <1>2, <1>5, <2>1, HeaderTextsIn
<1>7. \A l \in M : ParsedOf(l) = <<>> \/ \E h \in H : ParsedOf(l) = <<h>>
  <2> SUFFICES ASSUME NEW l \in M, ParsedOf(l) # <<>>
               PROVE  \E h \in H : ParsedOf(l) = <<h>>
    OBVIOUS
  <2>1. PICK h : ParsedOf(l) = <<h>> /\ Carries(F, h)
    BY LineGives DEF Gives
  <2>2. ParsedOf(l)[1] = h
    BY <2>1
  <2>3. h \in UNION {{ParsedOf(k)[1]} : k \in M}
    BY <2>2
  <2> QED
    BY <2>1, <2>3
<1>8. \A h \in H : Carries(F, h)
  OBVIOUS
<1> HIDE DEF M, H, texts
<1>9. AppendAll(<<>>, Flat(Each(ParsedOf, texts))) \in Seq(Grouped(H))
  BY <1>6, <1>7, TextsGive
<1> QED
  BY <1>4, <1>8, <1>9 DEF RequestOf, CarriedBy



-----------------------------------------------------------------------------
(* Addresses over any tokens *)

\* Addresses whose parts are over T.
Addresses(T) == [name : Seq(Seq(T)), uri : URIs(T), params : Seq(Lists(T))]

\* A record of these parts is an address.
LEMMA AddressIn ==
    ASSUME NEW T, NEW name \in Seq(Seq(T)), NEW uri \in URIs(T), NEW params \in Seq(Lists(T))
    PROVE  [name |-> name, uri |-> uri, params |-> params] \in Addresses(T)
<1> HIDE DEF URIs, Param
<1> QED
  BY DEF Addresses

\* FindUnescaped gives a place in the text, or 0.
LEMMA UnescapedIn ==
    ASSUME NEW T, NEW text \in Seq(T), NEW target
    PROVE  FindUnescaped(text, target) \in 0..Len(text)
<1> DEFINE open(i) == Cardinality({k \in 1..(i - 1) : text[k] = "\""}) % 2 = 1
           found == {i \in DOMAIN text : text[i] = target /\ ~open(i)}
<1>1. FindUnescaped(text, target) = IF found = {} THEN 0 ELSE Min(found)
  BY DEF FindUnescaped
<1>2. Len(text) \in Nat /\ DOMAIN text = 1..Len(text)
  OBVIOUS
<1>3. found \subseteq DOMAIN text
  OBVIOUS
<1> HIDE DEF found
<1>4. CASE found = {}
  BY <1>1, <1>2, <1>4
<1>5. CASE found # {}
  <2>1. found \in SUBSET Nat
    BY <1>2, <1>3
  <2>2. Min(found) \in found
    BY <1>5, <2>1, MinIn
  <2> QED
    BY <1>1, <1>2, <1>3, <1>5, <2>2
<1> QED
  BY <1>4, <1>5

\* The display name and what follows it are texts over the same tokens.
LEMMA DisplayNameType ==
    ASSUME NEW T, NEW text \in Seq(T)
    PROVE  DisplayName(text).name \in Seq(T) /\ DisplayName(text).rest \in Seq(T)
<1> DEFINE angle == FindUnescaped(text, Langle)
           tail == After(text, 1)
           close == FirstOf(tail, {Quote})
<1>1. Len(text) \in Nat
  OBVIOUS
<1>2. angle \in 0..Len(text)
  BY UnescapedIn
<1>3. tail \in Seq(T)
  BY AfterType
<1>4. close \in 0..Len(tail)
  BY <1>3, FirstType
<1>5. Len(tail) = IF Len(text) = 0 THEN 0 ELSE Len(text) - 1
  BY <1>1 DEF After
<1>6. angle = FindUnescaped(text, "<") /\ close = FirstOf(tail, {"\""})
  BY DEF Langle, Quote
<1> DEFINE quoted == [err |-> close = 0, name |-> SubSeq(text, 2, close),
                      rest |-> Trim(After(text, close + 1))]
           plain == [err |-> FALSE, name |-> Trim(CutAt(text, angle).head),
                     rest |-> CutAt(text, angle).tail]
<1> HIDE DEF angle, close, tail
<1>7. DisplayName(text) = IF angle > 1 /\ text[1] = "\"" THEN quoted ELSE plain
  BY <1>6 DEF DisplayName, tail
<1>8. CASE angle > 1
  <2>1. close \in Int /\ close <= Len(text) /\ close + 1 \in Nat /\ 2 \in Nat \ {0}
    BY <1>1, <1>2, <1>4, <1>5, <1>8
  <2>2. SubSeq(text, 2, close) \in Seq(T)
    BY <2>1, StretchType
  <2>3. After(text, close + 1) \in Seq(T)
    BY <2>1, AfterType
  <2>4. Trim(After(text, close + 1)) \in Seq(T)
    BY <2>3, TrimType
  <2>5. quoted.name \in Seq(T) /\ quoted.rest \in Seq(T)
    BY <2>2, <2>4
  <2>6. CutAt(text, angle).head \in Seq(T)
    BY <1>2, CutType
  <2>7. CutAt(text, angle).tail \in Seq(T)
    BY <1>2, CutType
  <2>8. Trim(CutAt(text, angle).head) \in Seq(T)
    BY <2>6, TrimType
  <2>9. plain.name \in Seq(T) /\ plain.rest \in Seq(T)
    BY <2>7, <2>8
  <2> HIDE DEF quoted, plain
  <2> QED
    BY <1>7, <2>5, <2>9
<1>9. CASE ~(angle > 1)
  <2>1. CutAt(text, angle).head \in Seq(T)
    BY <1>2, CutType
  <2>2. CutAt(text, angle).tail \in Seq(T)
    BY <1>2, CutType
  <2>3. Trim(CutAt(text, angle).head) \in Seq(T)
    BY <2>1, TrimType
  <2>4. plain.name \in Seq(T) /\ plain.rest \in Seq(T)
    BY <2>2, <2>3
  <2> HIDE DEF quoted, plain
  <2> QED
    BY <1>7, <1>9, <2>4
<1> QED
  BY <1>8, <1>9

\* The address that a failed parse gives.
LEMMA BadAddressType ==
    ASSUME NEW T
    PROVE  BadAddress.addr \in Addresses(T)
<1>1. BadURI.uri \in URIs(T)
  BY BadURIType
<1>2. Nil \in Seq(Seq(T))
  BY EmptySeq DEF Nil
<1>3. Nil \in Seq(Lists(T))
  BY EmptySeq DEF Nil
<1>4. BadAddress.addr = [name |-> Nil, uri |-> BadURI.uri, params |-> Nil]
  BY DEF BadAddress
<1> QED
  BY <1>1, <1>2, <1>3, <1>4, AddressIn

\* The address that ParseAddressValue gives is made of the tokens of the text.
LEMMA AddressValueType ==
    ASSUME NEW T, NEW text \in Seq(T)
    PROVE  ParseAddressValue(text).addr \in Addresses(T)
<1> DEFINE named == DisplayName(Trim(text))
           name == named.name
           rest == named.rest
           end == FirstOf(rest, {Rangle})
           uri == ParseURI(SubSeq(rest, 2, end - 1))
           params == ParseParams(After(rest, end), ";", ";", ",", TRUE, TRUE)
<1>1. Trim(text) \in Seq(T)
  BY TrimType
<1>2. name \in Seq(T) /\ rest \in Seq(T)
  BY <1>1, DisplayNameType
<1>3. \/ ParseAddressValue(text) = BadAddress
      \/ ParseAddressValue(text) = Bracketed(name, rest)
  BY DEF ParseAddressValue
<1> HIDE DEF name, rest
<1>4. end \in 0..Len(rest) /\ Len(rest) \in Nat
  BY <1>2, FirstType
<1>5. Bracketed(name, rest) = BadAddress \/ Bracketed(name, rest) = AddressOf(name, uri, params)
  BY DEF Bracketed, Rangle
<1> HIDE DEF end
<1>6. SubSeq(rest, 2, end - 1) \in Seq(T)
  <2>1. 2 \in Nat \ {0} /\ end - 1 \in Int /\ end - 1 <= Len(rest)
    BY <1>4
  <2> QED
    BY <1>2, <2>1, StretchType
<1>7. After(rest, end) \in Seq(T)
  BY <1>2, <1>4, AfterType
<1>8. uri.uri \in URIs(T)
  BY <1>6, ParseURIType
<1>9. params.params \in Lists(T)
  BY <1>7, ParseParamsType
<1> HIDE DEF uri, params
<1>10. \/ AddressOf(name, uri, params) = BadAddress
       \/ AddressOf(name, uri, params).addr =
            [name |-> Some(name), uri |-> uri.uri, params |-> Some(params.params)]
  BY DEF AddressOf
<1>11. Some(name) \in Seq(Seq(T))
  BY <1>2 DEF Some
<1>12. Some(params.params) \in Seq(Lists(T))
  BY <1>9 DEF Some
<1>13. [name |-> Some(name), uri |-> uri.uri, params |-> Some(params.params)] \in Addresses(T)
  BY <1>8, <1>11, <1>12, AddressIn
<1> QED
  BY <1>3, <1>5, <1>10, <1>13, BadAddressType

\* A clone of parameters that may be nil.
LEMMA CloneMaybeType ==
    ASSUME NEW T, NEW params \in Seq(Lists(T))
    PROVE  /\ CloneMaybe(params) \in Seq(Lists(T))
           /\ CloneOrEmpty(params) \in Seq(Lists(T))
<1>1. CASE params = Nil
  <2>1. CloneMaybe(params) = <<>> /\ CloneOrEmpty(params) = << <<>> >>
    BY <1>1 DEF CloneMaybe, CloneOrEmpty, Some, Nil
  <2>2. <<>> \in Lists(T)
    BY NoneIn
  <2> QED
    BY <2>1, <2>2, EmptySeq
<1>2. CASE params # Nil
  <2>1. params[1] \in Lists(T)
    BY <1>2 DEF Nil
  <2>2. CloneParams(params[1]) \in Lists(T)
    BY <2>1, CloneParamsType
  <2>3. /\ CloneMaybe(params) = <<CloneParams(params[1])>>
        /\ CloneOrEmpty(params) = <<CloneParams(params[1])>>
    BY <1>2 DEF CloneMaybe, CloneOrEmpty, Some
  <2> DEFINE c == CloneParams(params[1])
  <2> HIDE DEF c
  <2>4. <<c>> \in Seq(Lists(T))
    BY <2>2 DEF c
  <2> QED
    BY <2>3, <2>4 DEF c
<1> QED
  BY <1>1, <1>2

\* A clone of a URI is a URI.
LEMMA CloneURIType ==
    ASSUME NEW T, NEW uri \in URIs(T)
    PROVE  CloneURI(uri) \in URIs(T)
<1> DEFINE p == CloneOrEmpty(uri.params)
           h == CloneOrEmpty(uri.headers)
<1>1. uri.params \in Seq(Lists(T)) /\ uri.headers \in Seq(Lists(T))
  BY DEF URIs
<1>2. p \in Seq(Lists(T)) /\ h \in Seq(Lists(T))
  BY <1>1, CloneMaybeType
<1>3. CloneURI(uri) = [uri EXCEPT !.params = p, !.headers = h]
  BY DEF CloneURI, URIs
<1> HIDE DEF p, h
<1> QED
  BY <1>2, <1>3 DEF URIs

\* A clone of an address is an address.
LEMMA CloneAddressType ==
    ASSUME NEW T, NEW addr \in Addresses(T)
    PROVE  CloneAddress(addr) \in Addresses(T)
<1>1. addr.name \in Seq(Seq(T)) /\ addr.uri \in URIs(T) /\ addr.params \in Seq(Lists(T))
  BY DEF Addresses
<1>2. CloneURI(addr.uri) \in URIs(T)
  BY <1>1, CloneURIType
<1>3. CloneMaybe(addr.params) \in Seq(Lists(T))
  BY <1>1, CloneMaybeType
<1>4. CloneAddress(addr) =
        [name |-> addr.name, uri |-> CloneURI(addr.uri), params |-> CloneMaybe(addr.params)]
  BY DEF CloneAddress
<1> QED
  BY <1>1, <1>2, <1>3, <1>4, AddressIn

\* The text of an address is made of its tokens and those in between.
LEMMA AddressTextType ==
    ASSUME NEW T, UriGlue \subseteq T, Space \in T, Langle \in T, Rangle \in T,
           NEW addr \in Addresses(T)
    PROVE  AddressText(addr) \in Seq(T)
<1> DEFINE name == IF Shown(addr.name) THEN (<<Quote>> \o addr.name[1]) \o <<Quote, Space>>
                   ELSE <<>>
           tail == TailText(addr.params, Semi, Semi)
           uri == UriText(addr.uri)
           opening == <<Langle>>
           closing == <<Rangle>>
<1>1. addr.name \in Seq(Seq(T)) /\ addr.uri \in URIs(T) /\ addr.params \in Seq(Lists(T))
  BY DEF Addresses
<1>2. Semi \in T /\ Equals \in T /\ Quote \in T
  BY DEF UriGlue
<1>3. AddressText(addr) = (((name \o opening) \o uri) \o closing) \o tail
  BY DEF AddressText, Quote, Space, Langle, Rangle, Semi
<1>4. name \in Seq(T)
  <2>1. CASE ~Shown(addr.name)
    BY <2>1, EmptySeq
  <2>2. CASE Shown(addr.name)
    <3>1. addr.name[1] \in Seq(T)
      BY <1>1, <2>2 DEF Shown, Nil
    <3>2. <<Quote>> \in Seq(T)
      BY <1>2
    <3>3. <<Quote, Space>> \in Seq(T)
      BY <1>2
    <3>4. <<Quote>> \o addr.name[1] \in Seq(T)
      BY <3>1, <3>2, CatType
    <3>5. (<<Quote>> \o addr.name[1]) \o <<Quote, Space>> \in Seq(T)
      BY <3>3, <3>4, CatType
    <3> QED
      BY <2>2, <3>5
  <2> QED
    BY <2>1, <2>2
<1>5. uri \in Seq(T)
  BY <1>1, UriTextType
<1>6. tail \in Seq(T)
  BY <1>1, <1>2, TailTextType
<1>7. opening \in Seq(T)
  OBVIOUS
<1>8. closing \in Seq(T)
  OBVIOUS
<1> HIDE DEF name, tail, uri, opening, closing
<1>9. name \o opening \in Seq(T)
  BY <1>4, <1>7, CatType
<1>10. (name \o opening) \o uri \in Seq(T)
  BY <1>5, <1>9, CatType
<1>11. ((name \o opening) \o uri) \o closing \in Seq(T)
  BY <1>8, <1>10, CatType
<1>12. (((name \o opening) \o uri) \o closing) \o tail \in Seq(T)
  BY <1>6, <1>11, CatType
<1> QED
  BY <1>3, <1>12



-----------------------------------------------------------------------------
(* What the answer repeats of a request *)

\* The tokens that the Via of the k-th request can be written with again.
ViaTokens(k) ==
    Glue \cup {Empty, ViaName, SIPWord, NumberWord, TCPWord, PeerWord, PortWord, BranchWord,
               Branch(k)}

\* A header is written as a Via of the k-th request or as none at all.
Apart(k, h) == HeaderText(h) \in Seq(ViaTokens(k)) \/ HeaderText(h)[1] # ViaName

\* The address of a To header is over some tokens, and over any more.
IsTo(h) == h.kind = "To" /\ \E T : \A U : T \subseteq U => h.val \in Addresses(U)

\* The names of the headers that NewResponseFromRequest clones.
Copied == {RouteName, ViaName, FromName, CSeqName, CallName}

Fits(k, h) ==
    /\ NameOf(h) \in Copied => ClonePanics(h) \/ Apart(k, CloneHeader(h))
    /\ NameOf(h) = ToName => IsTo(h)

\* A header begins with its name, if its value is a text.
LEMMA TextHead ==
    ASSUME NEW h, NEW T, ValueText(h) \in Seq(T)
    PROVE  HeaderText(h)[1] = NameOf(h)
<1> DEFINE name == NameOf(h)
           start == <<name, ":", " ">>
           value == ValueText(h)
           U == T \cup {name, ":", " "}
<1>1. HeaderText(h) = start \o value
  BY DEF HeaderText
<1> HIDE DEF value, name
<1>2. start \in Seq(U)
  OBVIOUS
<1>3. value \in Seq(U)
  BY SeqMonotonic DEF value
<1>4. Len(start) = 3 /\ start[1] = name
  OBVIOUS
<1> HIDE DEF start, U
<1>5. (start \o value)[1] = start[1]
  <2>1. 1 \in 1..Len(start)
    BY <1>4
  <2> QED
    BY <1>2, <1>3, <2>1, CatLeft
<1> QED
  BY <1>1, <1>4, <1>5 DEF name

\* One that is no Via is written as none.
LEMMA ApartNamed ==
    ASSUME NEW k, NEW h, NEW T, ValueText(h) \in Seq(T), NameOf(h) # ViaName
    PROVE  Apart(k, h)
  BY TextHead DEF Apart

\* Its parser for each name.
LEMMA ParserOf ==
    ASSUME NEW text
    PROVE  /\ ParseValue(ViaName, text) = ParseVia(text)
           /\ ParseValue(CSeqName, text) = ParseCSeq(text)
           /\ ParseValue(CallName, text) = ParseCallID(text)
           /\ ParseValue(RouteName, text) = ParseRoute(RouteName, ParseAddressValues(text))
<1>1. ParseValue(ViaName, text) = ParseVia(text)
  BY DEF ParseValue, ViaName, AddressKinds, RouteKinds, NumberKinds, TextKinds
<1>2. ParseValue(CSeqName, text) = ParseCSeq(text)
  BY DEF ParseValue, CSeqName, AddressKinds, RouteKinds, NumberKinds, TextKinds
<1>3. ParseValue(CallName, text) = ParseCallID(text)
  BY DEF ParseValue, CallName, AddressKinds, RouteKinds, NumberKinds, TextKinds
<1>4. ParseValue(RouteName, text) = ParseRoute(RouteName, ParseAddressValues(text))
  BY DEF ParseValue, RouteName, AddressKinds, RouteKinds, NumberKinds, TextKinds
<1> QED
  BY <1>1, <1>2, <1>3, <1>4

\* The Via of a request.
LEMMA ViaFits ==
    ASSUME NEW k, NEW text \in Seq(ViaTokens(k)), NEW h, ParseVia(text).headers = <<h>>
    PROVE  Fits(k, h)
<1> DEFINE T == ViaTokens(k)
<1>1. Empty \in T /\ Slash \in T /\ Glue \subseteq T /\ ViaName \in T
  BY DEF ViaTokens, Glue
<1> HIDE DEF T
<1>2. text \in Seq(T)
  BY DEF T
<1>3. \/ ParseVia(text).headers = <<>>
      \/ \E hops \in Seq(Hops(T)) : ParseVia(text).headers = <<Header("Via", hops)>>
  <2>1. WholeHops(T) \subseteq Hops(T)
    BY DEF WholeHops
  <2>2. \A hops \in Seq(WholeHops(T)) : hops \in Seq(Hops(T))
    BY <2>1, SeqMonotonic
  <2> QED
    BY <1>1, <1>2, <2>2, ParseViaType
<1>4. PICK hops \in Seq(Hops(T)) : h = Header("Via", hops)
  BY <1>3
<1>5. HeaderText(CloneHeader(h)) \in Seq(T)
  BY <1>1, <1>4, ViaTextType
<1>6. NameOf(h) = ViaName
  BY <1>4 DEF NameOf, Header, ViaName
<1>7. ViaName # ToName
  BY DEF ViaName, ToName
<1> QED
  BY <1>5, <1>6, <1>7 DEF Fits, Apart, T

\* A text of three tokens.
Words(a, b, c) == <<a, b, c>>

\* What a CSeq header writes.
LEMMA ValueOfCSeq ==
    ASSUME NEW h, h.kind = "CSeq"
    PROVE  ValueText(h) = Words(ToString(h.val.seq), Space, h.val.method)
  BY DEF ValueText, AddressKinds, NumberKinds, TextKinds, RouteKinds, Words, Space

\* What a Call-ID header writes.
LEMMA ValueOfCall ==
    ASSUME NEW h, h.kind = "Call-ID"
    PROVE  ValueText(h) = h.val
  BY DEF ValueText, AddressKinds, NumberKinds, TextKinds, RouteKinds

\* What an address header writes, and its clone.
LEMMA ValueOfAddress ==
    ASSUME NEW h, h.kind \in AddressKinds
    PROVE  /\ ValueText(h) = AddressText(h.val)
           /\ CloneHeader(h) = Header(h.kind, CloneAddress(h.val))
<1>1. ValueText(h) = AddressText(h.val)
  BY DEF ValueText, AddressKinds, NumberKinds, TextKinds, RouteKinds
<1>2. CloneHeader(h) = Header(h.kind, CloneAddress(h.val))
  BY DEF CloneHeader, AddressKinds
<1> QED
  BY <1>1, <1>2

\* The CSeq of a request.
LEMMA CSeqFits ==
    ASSUME NEW k, NEW text, NEW h, ParseCSeq(text).headers = <<h>>
    PROVE  Fits(k, h)
<1>1. PICK v : h = Header("CSeq", v)
  <2> DEFINE parts == SplitByWhitespace(text)
             v == [seq |-> NumberOf(parts[1]), method |-> parts[2][1]]
  <2>1. ParseCSeq(text) = ParseError \/ ParseCSeq(text) = Parsed(<<Header("CSeq", v)>>)
    BY DEF ParseCSeq
  <2> HIDE DEF v
  <2>2. ParseError.headers = <<>> /\ Parsed(<<Header("CSeq", v)>>).headers = <<Header("CSeq", v)>>
    BY DEF ParseError, Parsed
  <2>3. h = Header("CSeq", v)
    BY <2>1, <2>2
  <2> QED
    BY <2>3
<1>2. h.kind = "CSeq" /\ h.val = v
  BY <1>1 DEF Header
<1>3. CloneHeader(h) = h
  <2>1. CloneHeader(h) = Header(h.kind, h.val)
    BY <1>2 DEF CloneHeader, AddressKinds
  <2> QED
    BY <1>1, <1>2, <2>1
<1> DEFINE T == {ToString(v.seq), Space, v.method}
<1>4. ValueText(h) = Words(ToString(h.val.seq), Space, h.val.method)
  BY <1>2, ValueOfCSeq
<1>5. ValueText(h) \in Seq(T)
  BY <1>2, <1>4 DEF Words
<1>6. NameOf(h) = CSeqName /\ CSeqName # ViaName /\ CSeqName # ToName
  BY <1>2 DEF NameOf, CSeqName, ViaName, ToName
<1> HIDE DEF T
<1>7. Apart(k, h)
  BY <1>5, <1>6, ApartNamed
<1> QED
  BY <1>3, <1>6, <1>7 DEF Fits

\* Its Call-ID.
LEMMA CallFits ==
    ASSUME NEW k, NEW T, NEW text \in Seq(T), NEW h, ParseCallID(text).headers = <<h>>
    PROVE  Fits(k, h)
<1>1. h = Header("Call-ID", Trim(text))
  <2> DEFINE c == Header("Call-ID", Trim(text))
  <2>1. ParseCallID(text) = ParseError \/ ParseCallID(text) = Parsed(<<c>>)
    BY DEF ParseCallID
  <2> HIDE DEF c
  <2>2. ParseError.headers = <<>> /\ Parsed(<<c>>).headers = <<c>>
    BY DEF ParseError, Parsed
  <2>3. h = c
    BY <2>1, <2>2
  <2> QED
    BY <2>3 DEF c
<1>2. Trim(text) \in Seq(T)
  BY TrimType
<1>3. h.kind = "Call-ID" /\ h.val = Trim(text)
  BY <1>1 DEF Header
<1>4. CloneHeader(h) = h
  BY <1>3 DEF CloneHeader, AddressKinds
<1>5. ValueText(h) = h.val
  BY <1>3, ValueOfCall
<1>6. NameOf(h) = CallName /\ CallName # ViaName /\ CallName # ToName
  BY <1>3 DEF NameOf, CallName, ViaName, ToName
<1>7. ValueText(h) \in Seq(T)
  BY <1>2, <1>3, <1>5
<1>8. Apart(k, h)
  BY <1>6, <1>7, ApartNamed
<1> QED
  BY <1>4, <1>6, <1>8 DEF Fits

\* What a route header writes.
LEMMA ValueOfRoute ==
    ASSUME NEW h, h.kind = "Record-Route"
    PROVE  ValueText(h) = ListText(Each(LAMBDA uri : <<"<">> \o UriText(uri) \o <<">">>, h.val))
<1>1. h.kind \notin AddressKinds
  BY DEF AddressKinds
<1> QED
  BY <1>1 DEF ValueText, ListText, NumberKinds, TextKinds, RouteKinds

\* Its Record-Route: what can be cloned of it is empty.
LEMMA RouteFits ==
    ASSUME NEW k, NEW values, NEW h, ParseRoute(RouteName, values).headers = <<h>>
    PROVE  Fits(k, h)
<1>1. PICK v : h = Header(RouteName, v)
  <2> DEFINE v == Each(LAMBDA addr : addr.uri, values.addrs)
             c == Header(RouteName, v)
  <2>1. ParseRoute(RouteName, values) = ParseError \/ ParseRoute(RouteName, values) = Parsed(<<c>>)
    BY DEF ParseRoute
  <2> HIDE DEF c
  <2>2. ParseError.headers = <<>> /\ Parsed(<<c>>).headers = <<c>>
    BY DEF ParseError, Parsed
  <2>3. h = c
    BY <2>1, <2>2
  <2> QED
    BY <2>3 DEF c
<1>2. h.kind = "Record-Route" /\ h.val = v
  BY <1>1 DEF Header, RouteName
<1>3. NameOf(h) = RouteName /\ RouteName # ViaName /\ RouteName # ToName
  BY <1>2 DEF NameOf, RouteName, ViaName, ToName
<1>4. CASE v # <<>>
  <2>1. ClonePanics(h)
    BY <1>2, <1>4 DEF ClonePanics, RouteKinds
  <2> QED
    BY <1>3, <2>1 DEF Fits
<1>5. CASE v = <<>>
  <2>1. CloneHeader(h) = h
    BY <1>2 DEF CloneHeader, AddressKinds
  <2> DEFINE texts == Each(LAMBDA uri : <<"<">> \o UriText(uri) \o <<">">>, h.val)
             T == {Comma, Space}
             glue == <<Comma, Space>>
  <2>2. texts = <<>>
    BY <1>2, <1>5 DEF Each
  <2>3. ValueText(h) = Join(texts, glue)
    BY <1>2, ValueOfRoute, ListIs
  <2>4. glue \in Seq(T)
    OBVIOUS
  <2>5. texts \in Seq(Seq(T))
    BY <2>2, EmptySeq
  <2> HIDE DEF texts, glue, T
  <2>6. Join(texts, glue) \in Seq(T)
    BY <2>4, <2>5, JoinType
  <2>7. ValueText(h) \in Seq(T)
    BY <2>3, <2>6
  <2>8. Apart(k, h)
    BY <1>3, <2>7, ApartNamed
  <2> QED
    BY <1>3, <2>1, <2>8 DEF Fits
<1> QED
  BY <1>4, <1>5

\* An address header of a request.
LEMMA AddressFits ==
    ASSUME NEW k, NEW name \in {FromName, ToName}, NEW text \in Seq(Token)
    PROVE  Fits(k, Header(name, ParseAddressValue(text).addr))
<1> DEFINE addr == ParseAddressValue(text).addr
           h == Header(name, addr)
           T == Token \cup UriGlue
<1>1. \A U : Token \subseteq U => addr \in Addresses(U)
  <2> SUFFICES ASSUME NEW U, Token \subseteq U
               PROVE  addr \in Addresses(U)
    OBVIOUS
  <2>1. text \in Seq(U)
    BY SeqMonotonic
  <2> QED
    BY <2>1, AddressValueType
<1> HIDE DEF addr
<1>2. /\ h.kind = name /\ h.val = addr /\ NameOf(h) = name
  BY DEF Header, NameOf, FromName, ToName
<1>3. CASE name = ToName
  <2>1. IsTo(h)
    BY <1>1, <1>2, <1>3 DEF IsTo, ToName
  <2>2. ToName \notin Copied
    BY DEF ToName, Copied, RouteName, ViaName, FromName, CSeqName, CallName
  <2> HIDE DEF h
  <2>3. Fits(k, h)
    BY <1>2, <1>3, <2>1, <2>2 DEF Fits
  <2> QED
    BY <2>3 DEF h, addr
<1>4. CASE name = FromName
  <2>1. addr \in Addresses(T)
    BY <1>1
  <2> DEFINE a == CloneAddress(addr)
             c == Header(name, a)
  <2>2. a \in Addresses(T)
    BY <2>1, CloneAddressType
  <2>3. UriGlue \subseteq T /\ Space \in T /\ Langle \in T /\ Rangle \in T
    BY MarksAreTokens
  <2> HIDE DEF T
  <2>4. AddressText(a) \in Seq(T)
    BY <2>2, <2>3, AddressTextType
  <2> HIDE DEF a
  <2>5. c.kind = name /\ c.val = a
    BY DEF Header
  <2>11. name \in AddressKinds
    BY <1>4 DEF FromName, AddressKinds
  <2>6. ValueText(c) = AddressText(a)
    BY <2>5, <2>11, ValueOfAddress
  <2> HIDE DEF h
  <2>7. CloneHeader(h) = c
    BY <1>2, <2>11, ValueOfAddress DEF a
  <2>8. NameOf(c) = FromName /\ FromName # ViaName /\ FromName # ToName
    BY <1>4 DEF NameOf, Header, FromName, ViaName, ToName
  <2> HIDE DEF c, h
  <2>9. Apart(k, c)
    BY <2>4, <2>6, <2>8, ApartNamed
  <2>10. Fits(k, h)
    BY <1>2, <1>4, <2>7, <2>8, <2>9 DEF Fits
  <2> QED
    BY <2>10 DEF h, addr
<1> QED
  BY <1>3, <1>4

\* A header of another name.
LEMMA OtherFits ==
    ASSUME NEW k, NEW h, NameOf(h) \in {AuthName, ExpiresName, LengthName}
    PROVE  Fits(k, h)
  BY DEF Fits, AuthName, ExpiresName, LengthName, Copied, ToName, RouteName, ViaName, FromName,
         CSeqName, CallName



-----------------------------------------------------------------------------
(* The lines of one request *)

\* Only a start line has the version.
Bare == Token \ {Version}

\* What is asked: a form, and the number that it is written with.
Asks == [form : Forms, num : 1..MaxSent]

\* The header lines of a request, whose headers are its own.
Heads(x) ==
    {l \in LinesOf({x.form}) \ {<<>>} :
        l \in Seq(Bare) /\ \A h : ParsedOf(l) = <<h>> => Fits(x.num, h)}

\* The fixed tokens are no version.
LEMMA BareFixed ==
    MarkSet \cup (FixedWords \ {Version}) \cup NameWords \cup DigestWords \subseteq Bare
<1>1. MarkSet \cup FixedWords \cup NameWords \cup DigestWords \subseteq Token
  BY DEF Token
<1>2. Version \notin MarkSet
  BY DEF Version, MarkSet, Space, Tab, Colon, Semi, Comma, Slash, Langle, Rangle, Quote, AtSign,
         Equals, QMark, Empty
<1>3. Version \notin NameWords
  BY DEF Version, NameWords, ViaName, FromName, ToName, CallName, CSeqName, RouteName, AuthName,
         ExpiresName, LengthName, ShortName
<1>4. Version \notin DigestWords
  BY DEF Version, DigestWords, UserKey, RealmKey, NonceKey, UriKey, QopKey, NcKey, CnonceKey,
         ResponseKey, DeviceWord, NWord, UWord, AuthWord, OneWord, CWord
<1> QED
  BY <1>1, <1>2, <1>3, <1>4 DEF Bare

\* The words that DeviceAssumption speaks of are bare.
LEMMA BareWord ==
    ASSUME NEW token, IsWord(token)
    PROVE  token \in Bare
  BY WordOf, WordIs DEF Bare

\* A header line of bare tokens.
LEMMA BareLine ==
    ASSUME NEW name \in Bare, NEW text \in Seq(Bare)
    PROVE  HeaderLine(name, text) \in Seq(Bare)
<1>1. Space \in Bare /\ Colon \in Bare
  BY BareFixed DEF MarkSet
<1>2. Cons(Space, text) \in Seq(Bare)
  BY <1>1, ConsIs
<1>3. Cons(Colon, Cons(Space, text)) \in Seq(Bare)
  BY <1>1, <1>2, ConsIs
<1> QED
  BY <1>3, ConsIs DEF HeaderLine

\* A line whose header fits is a header line of the request.
LEMMA HeadIs ==
    ASSUME NEW x, NEW l \in LinesOf({x.form}), l # <<>>, l \in Seq(Bare), NEW hdrs,
           ParsedOf(l) = hdrs, \A h : hdrs = <<h>> => Fits(x.num, h)
    PROVE  l \in Heads(x)
  BY DEF Heads

\* Via, Call-ID and CSeq are no short forms.
LEMMA OwnNames ==
    /\ FullName(ViaName) = ViaName /\ FullName(CallName) = CallName
    /\ FullName(CSeqName) = CSeqName
  BY DEF FullName, ViaName, CallName, CSeqName

\* The text of the n-th Via.
LEMMA ViaTextIs ==
    ASSUME NEW n \in 1..MaxSent, NEW text, text = ViaText(n)
    PROVE  /\ text \in Seq(Bare) /\ text \in Seq(Token) /\ text \in Seq(ViaTokens(n))
           /\ text # <<>> /\ text[1] = SIPWord /\ text[Len(text)] = Branch(n)
<1>1. Branch(n) \in Bare
  BY DeviceAssumption, BareWord
<1>2. /\ Space \in Bare /\ Colon \in Bare /\ Semi \in Bare /\ Slash \in Bare /\ Equals \in Bare
  BY BareFixed DEF MarkSet
<1>3. /\ SIPWord \in Bare /\ NumberWord \in Bare /\ TCPWord \in Bare /\ PeerWord \in Bare
      /\ PortWord \in Bare /\ BranchWord \in Bare
  <2>1. Version \notin {SIPWord, NumberWord, TCPWord, PeerWord, PortWord, BranchWord}
    BY DEF Version, SIPWord, NumberWord, TCPWord, PeerWord, PortWord, BranchWord
  <2> QED
    BY <2>1, BareFixed DEF FixedWords
<1>4. text \in Seq(Bare)
  BY <1>1, <1>2, <1>3 DEF ViaText
<1>5. text \in Seq(ViaTokens(n))
  <2>1. /\ Space \in ViaTokens(n) /\ Colon \in ViaTokens(n) /\ Semi \in ViaTokens(n)
        /\ Slash \in ViaTokens(n) /\ Equals \in ViaTokens(n)
        /\ SIPWord \in ViaTokens(n) /\ NumberWord \in ViaTokens(n) /\ TCPWord \in ViaTokens(n)
        /\ PeerWord \in ViaTokens(n) /\ PortWord \in ViaTokens(n) /\ BranchWord \in ViaTokens(n)
        /\ Branch(n) \in ViaTokens(n)
    BY DEF ViaTokens, Glue
  <2> QED
    BY <2>1 DEF ViaText
<1>6. text # <<>> /\ text[1] = SIPWord /\ text[Len(text)] = Branch(n)
  BY DEF ViaText
<1>7. Bare \subseteq Token
  BY DEF Bare
<1>8. text \in Seq(Token)
  BY <1>4, <1>7, SeqMonotonic
<1> QED
  BY <1>4, <1>5, <1>6, <1>8

\* What a plain name's line needs to be a header line.
LEMMA PlainHead ==
    ASSUME NEW x \in Asks, NEW name \in {ViaName, CallName, CSeqName}, NEW text \in Seq(Bare),
           text # <<>>, text[1] \notin Blank, text[Len(text)] \notin Blank,
           \A h : ParseValue(name, text).headers = <<h>> => Fits(x.num, h)
    PROVE  HeaderLine(name, text) \in Heads(x)
<1> DEFINE l == HeaderLine(name, text)
<1>1. Bare \subseteq Token
  BY DEF Bare
<1>2. text \in Seq(Token)
  BY <1>1, SeqMonotonic
<1>3. l \in PlainLines
  BY <1>2, PlainLine
<1>4. l \in LinesOf({x.form})
  BY <1>3 DEF LinesOf
<1>5. name \in Bare
  BY BareFixed DEF NameWords
<1>6. l \in Seq(Bare)
  BY <1>5, BareLine
<1>7. name \in Token \ {Colon}
  BY FixedAreWords, WordIs DEF NameWords
<1>8. l # <<>>
  BY <1>2, <1>7, HeaderLineIs
<1>9. ParseHeader(l) = ParseValue(FullName(name), text)
  BY <1>2, <1>7, ParseLine
<1>10. ParsedOf(l) = ParseValue(name, text).headers
  BY <1>9, OwnNames DEF ParsedOf
<1> HIDE DEF l
<1> DEFINE hdrs == ParseValue(name, text).headers
<1>11. \A h : hdrs = <<h>> => Fits(x.num, h)
  OBVIOUS
<1>12. ParsedOf(l) = hdrs
  BY <1>10
<1> HIDE DEF hdrs
<1>13. l \in Heads(x)
  BY <1>4, <1>6, <1>8, <1>11, <1>12, HeadIs
<1> QED
  BY <1>13 DEF l

\* The Via line.
LEMMA ViaHead ==
    ASSUME NEW x \in Asks
    PROVE  HeaderLine(ViaName, ViaText(x.num)) \in Heads(x)
<1> DEFINE n == x.num
           text == ViaText(n)
<1>1. n \in 1..MaxSent
  BY DEF Asks
<1> HIDE DEF n
<1>2. /\ text \in Seq(Bare) /\ text \in Seq(ViaTokens(n))
      /\ text # <<>> /\ text[1] = SIPWord /\ text[Len(text)] = Branch(n)
  BY <1>1, ViaTextIs
<1>3. SIPWord \in Word /\ Branch(n) \in Word
  BY <1>1, NumberIs, FixedAreWords DEF FixedWords
<1>4. SIPWord \notin Blank /\ Branch(n) \notin Blank
  BY <1>3, WordIs, BlankIs
<1> HIDE DEF text
<1>5. \A h : ParseValue(ViaName, text).headers = <<h>> => Fits(n, h)
  BY <1>2, ParserOf, ViaFits
<1>6. HeaderLine(ViaName, text) \in Heads(x)
  BY <1>2, <1>4, <1>5, PlainHead DEF n
<1> QED
  BY <1>6 DEF text, n

\* The Call-ID line.
LEMMA CallHead ==
    ASSUME NEW x \in Asks
    PROVE  HeaderLine(CallName, <<CallOf(x.form, x.num)>>) \in Heads(x)
<1> DEFINE c == CallOf(x.form, x.num)
           text == <<c>>
<1>1. x.num \in 1..MaxSent /\ x.form \in Forms
  BY DEF Asks
<1>2. c \in Word
  BY <1>1, CallOfIs
<1>3. c \in Bare
  <2>1. RegWord \in Bare
    BY BareFixed DEF FixedWords, RegWord, Version
  <2>2. MessageCall(x.num) \in Bare
    BY <1>1, DeviceAssumption, BareWord
  <2> QED
    BY <2>1, <2>2 DEF CallOf, RegWord
<1>4. c \notin Blank
  BY <1>2, WordIs, BlankIs
<1> HIDE DEF c
<1>5. text \in Seq(Bare)
  BY <1>3, OneIn
<1>6. text # <<>> /\ text[1] = c /\ text[Len(text)] = c
  OBVIOUS
<1> HIDE DEF text
<1>7. \A h : ParseValue(CallName, text).headers = <<h>> => Fits(x.num, h)
  BY <1>5, ParserOf, CallFits
<1>8. HeaderLine(CallName, text) \in Heads(x)
  BY <1>4, <1>5, <1>6, <1>7, PlainHead
<1> QED
  BY <1>8 DEF text, c

\* The CSeq line.
LEMMA CSeqHead ==
    ASSUME NEW x \in Asks
    PROVE  HeaderLine(CSeqName, CSeqText(x.form, x.num)) \in Heads(x)
<1> DEFINE s == ToString(x.num)
           m == x.form.method
           text == CSeqText(x.form, x.num)
<1>1. x.num \in 1..MaxSent /\ x.form \in Forms
  BY DEF Asks
<1>2. m \in {RegisterWord, MessageWord}
  BY <1>1, FormIs
<1>3. m \in Bare /\ m \in Word
  BY <1>2, BareFixed, FixedAreWords DEF FixedWords, RegisterWord, MessageWord, Version
<1>4. s \in Bare
  <2>1. x.num \in Numbers
    BY <1>1, NumberIs
  <2> QED
    BY <2>1, DeviceAssumption, BareWord
<1>5. s \in Word
  BY <1>1, NumberIs
<1>6. s \notin Blank /\ m \notin Blank
  BY <1>3, <1>5, WordIs, BlankIs
<1>7. Space \in Bare
  BY BareFixed DEF MarkSet
<1>8. text = <<s, Space, m>>
  BY DEF CSeqText
<1> HIDE DEF s, m, text
<1>9. text \in Seq(Bare)
  BY <1>3, <1>4, <1>7, <1>8, ThreeIn
<1>10. text # <<>> /\ text[1] = s /\ text[Len(text)] = m
  BY <1>8
<1>11. \A h : ParseValue(CSeqName, text).headers = <<h>> => Fits(x.num, h)
  BY ParserOf, CSeqFits
<1>12. HeaderLine(CSeqName, text) \in Heads(x)
  BY <1>6, <1>9, <1>10, <1>11, PlainHead
<1> QED
  BY <1>12 DEF text



\* The tokens of a URI in the device's text.
LEMMA BareUri ==
    ASSUME NEW user \in Bare \cap Word, NEW text, text = UriOf(user, DomainWord)
    PROVE  text \in Seq(Bare)
<1>1. DomainWord \in Word
  BY FixedAreWords DEF FixedWords
<1>2. /\ text \in Seq(Token) /\ Len(text) = 5
      /\ text[1] = SipWord /\ text[2] = Colon /\ text[3] = user /\ text[4] = AtSign
      /\ text[5] = DomainWord
  BY <1>1, UriOfIs
<1>3. SipWord \in Bare /\ Colon \in Bare /\ AtSign \in Bare /\ DomainWord \in Bare
  BY BareFixed DEF MarkSet, FixedWords, SipWord, DomainWord, Version
<1>4. \A i \in 1..5 : text[i] \in Bare
  BY <1>2, <1>3
<1>5. text = [i \in 1..5 |-> text[i]]
  BY <1>2
<1>6. [i \in 1..5 |-> text[i]] \in Seq(Bare)
  BY <1>4
<1> QED
  BY <1>5, <1>6

\* The texts of the address lines are bare.
LEMMA BareTexts ==
    /\ \A form \in Forms : FromText(form.user) \in Seq(Bare)
    /\ PlatformText \in Seq(Bare) /\ ProxyText \in Seq(Bare)
<1>1. /\ Langle \in Bare /\ Rangle \in Bare /\ Semi \in Bare /\ Equals \in Bare /\ Colon \in Bare
  BY BareFixed DEF MarkSet
<1>2. /\ TagWord \in Bare /\ DWord \in Bare /\ ProxyWord \in Bare /\ SipWord \in Bare
      /\ PlatformWord \in Bare
  <2>1. Version \notin {TagWord, DWord, ProxyWord, SipWord, PlatformWord}
    BY DEF Version, TagWord, DWord, ProxyWord, SipWord, PlatformWord
  <2> QED
    BY <2>1, BareFixed DEF FixedWords
<1>3. PlatformWord \in Word
  BY FixedAreWords DEF FixedWords
<1>4. ProxyText \in Seq(Bare)
  BY <1>1, <1>2 DEF ProxyText
<1> DEFINE a == <<Langle>>
           b == <<Rangle, Semi, TagWord, Equals, DWord>>
           c == <<Rangle>>
           u(user) == UriOf(user, DomainWord)
<1>5. a \in Seq(Bare)
  BY <1>1
<1>6. b \in Seq(Bare)
  BY <1>1, <1>2
<1>7. c \in Seq(Bare)
  BY <1>1
<1>8. ASSUME NEW form \in Forms
      PROVE  u(form.user) \in Seq(Bare)
  <2>1. IsWord(form.user)
    BY DeviceAssumption DEF IsForm
  <2> QED
    BY <2>1, BareWord, WordOf, BareUri
<1>9. u(PlatformWord) \in Seq(Bare)
  BY <1>2, <1>3, BareUri
<1> HIDE DEF a, b, c, u
<1>10. ASSUME NEW form \in Forms
       PROVE  (a \o u(form.user)) \o b \in Seq(Bare)
  <2>1. u(form.user) \in Seq(Bare)
    BY <1>8
  <2>2. a \o u(form.user) \in Seq(Bare)
    BY <1>5, <2>1, CatType
  <2> QED
    BY <1>6, <2>2, CatType
<1>11. a \o u(PlatformWord) \in Seq(Bare)
  BY <1>5, <1>9, CatType
<1>12. (a \o u(PlatformWord)) \o c \in Seq(Bare)
  BY <1>7, <1>11, CatType
<1> QED
  BY <1>4, <1>10, <1>12 DEF FromText, PlatformText, a, b, c, u

\* The From line.
LEMMA FromHead ==
    ASSUME NEW x \in Asks
    PROVE  HeaderLine(FromName, FromText(x.form.user)) \in Heads(x)
<1> DEFINE user == x.form.user
           text == FromText(user)
           l == HeaderLine(FromName, text)
           hdr == Header(FromName, ParseAddressValue(text).addr)
<1>1. x.form \in Forms
  BY DEF Asks
<1>2. user \in Word
  BY <1>1, FormIs
<1>3. text \in Seq(Bare)
  BY <1>1, BareTexts
<1>4. l \in LinesOf({x.form})
  BY DEF LinesOf, FromLines
<1>5. FromName \in Bare
  BY BareFixed DEF NameWords
<1> HIDE DEF user, text
<1>6. text \in Seq(Token)
  BY <1>3, SeqMonotonic DEF Bare
<1>7. l \in Seq(Bare)
  BY <1>3, <1>5, BareLine
<1>8. l # <<>>
  BY <1>5, <1>6, HeaderLineIs DEF Bare
<1>9. Fits(x.num, hdr)
  BY <1>6, AddressFits
<1>10. ParsedOf(l) = <<>> \/ ParsedOf(l) = <<hdr>>
  BY <1>2, FromParsed DEF text
<1> HIDE DEF l, hdr
<1>11. \A h : ParsedOf(l) = <<h>> => Fits(x.num, h)
  BY <1>9, <1>10
<1>12. l \in Heads(x)
  BY <1>4, <1>7, <1>8, <1>11 DEF Heads
<1> QED
  BY <1>12 DEF l, text, user

\* The To line.
LEMMA ToHead ==
    ASSUME NEW x \in Asks
    PROVE  HeaderLine(ToName, PlatformText) \in Heads(x)
<1> DEFINE text == PlatformText
           l == HeaderLine(ToName, text)
           hdr == Header(ToName, ParseAddressValue(text).addr)
<1>1. text \in Seq(Bare)
  BY BareTexts
<1>2. l \in LinesOf({x.form})
  BY DEF LinesOf
<1>3. ToName \in Bare
  BY BareFixed DEF NameWords
<1>4. ParsedOf(l) = <<>> \/ ParsedOf(l) = <<hdr>>
  BY ToParsed
<1> HIDE DEF text
<1>5. text \in Seq(Token)
  BY <1>1, SeqMonotonic DEF Bare
<1>6. l \in Seq(Bare)
  BY <1>1, <1>3, BareLine
<1>7. l # <<>>
  BY <1>3, <1>5, HeaderLineIs DEF Bare
<1>8. Fits(x.num, hdr)
  BY <1>5, AddressFits
<1> HIDE DEF l, hdr
<1>9. \A h : ParsedOf(l) = <<h>> => Fits(x.num, h)
  BY <1>4, <1>8
<1>10. l \in Heads(x)
  BY <1>2, <1>6, <1>7, <1>9 DEF Heads
<1> QED
  BY <1>10 DEF l, text

\* The Record-Route line.
LEMMA RouteHead ==
    ASSUME NEW x \in Asks, x.form.routed
    PROVE  HeaderLine(RouteName, ProxyText) \in Heads(x)
<1> DEFINE text == ProxyText
           l == HeaderLine(RouteName, text)
<1>1. text \in Seq(Bare)
  BY BareTexts
<1>2. l \in LinesOf({x.form})
  BY DEF LinesOf, RouteLinesOf
<1>3. RouteName \in Bare
  BY BareFixed DEF NameWords
<1>4. /\ text \in Seq(Token) /\ text # <<>> /\ text[1] = Langle /\ text[Len(text)] = Rangle
  BY ProxyTextIs
<1> HIDE DEF text
<1>5. Langle \notin Blank /\ Rangle \notin Blank
  BY BlankIs, MarksDiffer
<1>6. ParsedOf(l) = ParseValue(RouteName, text).headers
  BY <1>4, <1>5, NamedLine
<1>7. l \in Seq(Bare)
  BY <1>1, <1>3, BareLine
<1>8. l # <<>>
  BY <1>3, <1>4, HeaderLineIs DEF Bare
<1> HIDE DEF l
<1>9. \A h : ParsedOf(l) = <<h>> => Fits(x.num, h)
  BY <1>6, ParserOf, RouteFits
<1>10. l \in Heads(x)
  BY <1>2, <1>7, <1>8, <1>9 DEF Heads
<1> QED
  BY <1>10 DEF l, text

\* Of a name that nothing is copied from, any line is a header line.
LEMMA OtherHead ==
    ASSUME NEW x \in Asks, NEW l \in LinesOf({x.form}), l # <<>>, l \in Seq(Bare),
           FullName(l[1]) \in {AuthName, ExpiresName, LengthName}
    PROVE  l \in Heads(x)
<1> DEFINE kind == FullName(l[1])
           text == Trim(After(l, FirstOf(l, {":"})))
<1>1. kind \notin AddressKinds
  BY DEF AddressKinds, AuthName, ExpiresName, LengthName
<1>2. ParseHeader(l) = ParseError \/ ParseHeader(l) = ParseValue(kind, text)
  BY DEF ParseHeader
<1>3. kind \in {AuthName, ExpiresName, LengthName}
  OBVIOUS
<1> HIDE DEF kind, text
<1>4. OneHeader(ParseValue(kind, text), kind)
  BY <1>1, ParseOther
<1>5. OneHeader(ParseHeader(l), kind)
  BY <1>2, <1>4, NoneParsed
<1>6. ASSUME NEW h, ParsedOf(l) = <<h>>
      PROVE  Fits(x.num, h)
  <2>1. NameOf(h) = kind
    BY <1>5, <1>6 DEF OneHeader, ParsedOf
  <2> QED
    BY <1>3, <2>1, OtherFits
<1> QED
  BY <1>6 DEF Heads

\* The digest is bare.
LEMMA BareAuth ==
    ASSUME NEW form \in Forms, NEW text, text = AuthText(form)
    PROVE  text \in Seq(Bare)
<1> DEFINE password == IF form.auth = "right" THEN Password ELSE "guess"
           r == ResponseTo(<<"device">>, password)
<1>1. text = Digest(password)
  BY DEF AuthText
<1>2. IsWord(r)
  BY DeviceAssumption
<1>3. r = ResponseTo(<<"device">>, password)
  OBVIOUS
<1> HIDE DEF r, password
<1>4. r \in Bare
  BY <1>2, BareWord
<1>5. HasFields(text, 8, DigestKeys, DigestVals(r))
  BY <1>1, <1>3, <1>4, DigestIs DEF Bare
<1>6. text \in Seq(Token) /\ Len(text) = 32
  BY <1>5 DEF HasFields
<1>7. DigestWords \subseteq Bare /\ DomainWord \in Bare /\ Equals \in Bare /\ Comma \in Bare
  BY BareFixed DEF MarkSet, FixedWords, DomainWord, Version
<1>8. \A i \in 1..8 : DigestKeys[i] \in Bare
  BY <1>7 DEF DigestKeys, DigestWords
<1>9. \A i \in 1..8 : DigestVals(r)[i] \in Bare
  BY <1>4, <1>7 DEF DigestVals, DigestWords
<1>10. ASSUME NEW j \in 1..32
       PROVE  text[j] \in Bare
  <2>1. PICK i \in 1..8 : j \in {4 * i - 3, 4 * i - 2, 4 * i - 1, 4 * i}
    <3>1. \E i \in 1..8 : j = 4 * i - 3 \/ j = 4 * i - 2 \/ j = 4 * i - 1 \/ j = 4 * i
      <4> DEFINE i == (j + 3) \div 4
      <4>1. i \in 1..8 /\ (j = 4 * i - 3 \/ j = 4 * i - 2 \/ j = 4 * i - 1 \/ j = 4 * i)
        OBVIOUS
      <4> QED
        BY <4>1
    <3> QED
      BY <3>1
  <2>2. /\ text[4 * i - 3] = DigestKeys[i] /\ text[4 * i - 2] = Equals
        /\ text[4 * i - 1] = DigestVals(r)[i] /\ text[4 * i] = Comma
    BY <1>5 DEF HasFields
  <2> QED
    BY <1>7, <1>8, <1>9, <2>1, <2>2
<1>11. text = [j \in 1..32 |-> text[j]]
  BY <1>6
<1>12. [j \in 1..32 |-> text[j]] \in Seq(Bare)
  BY <1>10
<1> QED
  BY <1>11, <1>12

\* The Authorization line.
LEMMA AuthHead ==
    ASSUME NEW x \in Asks, x.form.auth # "none"
    PROVE  HeaderLine(AuthName, AuthText(x.form)) \in Heads(x)
<1> DEFINE text == AuthText(x.form)
           l == HeaderLine(AuthName, text)
<1>1. x.form \in Forms
  BY DEF Asks
<1>2. text \in Seq(Bare)
  BY <1>1, BareAuth
<1>3. l \in LinesOf({x.form})
  BY DEF LinesOf, AuthLinesOf
<1>4. AuthName \in Bare
  BY BareFixed DEF NameWords
<1> HIDE DEF text
<1>5. text \in Seq(Token)
  BY <1>2, SeqMonotonic DEF Bare
<1>6. l \in Seq(Bare)
  BY <1>2, <1>4, BareLine
<1>7. l # <<>> /\ l[1] = AuthName
  BY <1>4, <1>5, HeaderLineIs DEF Bare
<1> HIDE DEF l
<1>8. l \in Heads(x)
  BY <1>3, <1>6, <1>7, FullNames, OtherHead
<1> QED
  BY <1>8 DEF l, text

\* A plain line of these names.
LEMMA NumberHead ==
    ASSUME NEW x \in Asks, NEW l \in PlainLines, l \in Seq(Bare),
           l[1] \in {ExpiresName, LengthName, ShortName}
    PROVE  l \in Heads(x)
<1>1. l \in LinesOf({x.form}) /\ l # <<>>
  BY DEF LinesOf, PlainLines
<1>2. FullName(l[1]) \in {ExpiresName, LengthName}
  BY DEF FullName, ExpiresName, LengthName, ShortName
<1> QED
  BY <1>1, <1>2, OtherHead

\* The Expires line.
LEMMA ExpiresHead ==
    ASSUME NEW x \in Asks, x.form.expires # ""
    PROVE  HeaderLine(ExpiresName, <<x.form.expires>>) \in Heads(x)
<1> DEFINE e == x.form.expires
           text == <<e>>
           l == HeaderLine(ExpiresName, text)
<1>1. x.form \in Forms
  BY DEF Asks
<1>2. IsWord(e)
  BY <1>1, DeviceAssumption DEF IsForm
<1>3. e \in Bare
  BY <1>2, BareWord
<1> HIDE DEF e
<1>4. text \in Seq(Bare)
  BY <1>3, OneIn
<1>5. text \in Seq(Token)
  BY <1>4, SeqMonotonic DEF Bare
<1> HIDE DEF text
<1>6. ExpiresName \in Bare
  BY BareFixed DEF NameWords
<1>7. l \in Seq(Bare)
  BY <1>4, <1>6, BareLine
<1>8. l[1] = ExpiresName
  BY <1>5, <1>6, HeaderLineIs DEF Bare
<1>9. l \in PlainLines
  BY <1>5, PlainLine
<1> HIDE DEF l
<1>10. l \in Heads(x)
  BY <1>7, <1>8, <1>9, NumberHead
<1> QED
  BY <1>10 DEF l, text, e

\* The line of the length of the body, if there is one.
LEMMA LengthHead ==
    ASSUME NEW x \in Asks
    PROVE  LengthLine(x.form) \in Seq(Heads(x))
<1> DEFINE form == x.form
           number == ToString(Len(BodyOf(form)))
           S == Heads(x)
<1>1. form \in Forms
  BY DEF Asks
<1>2. number \in Bare /\ number \in Token
  <2>1. IsWord(number)
    <3>1. IsForm(form)
      BY <1>1, DeviceAssumption
    <3>2. Len(BodyOf(form)) \in Numbers
      BY <3>1 DEF IsForm
    <3>3. \A n \in Numbers : IsWord(ToString(n))
      BY DeviceAssumption
    <3> QED
      BY <3>2, <3>3
  <2> HIDE DEF number
  <2> QED
    BY <2>1, BareWord DEF Bare
<1> HIDE DEF number
<1> DEFINE t == <<number>>
           b == HeaderLine(LengthName, t)
           c == HeaderLine(ShortName, t)
           d == Cons(LengthName, Cons(Colon, Cons(Tab, t)))
<1>3. t \in Seq(Bare) /\ t \in Seq(Token)
  BY <1>2, OneIn
<1>4. LengthName \in Bare /\ ShortName \in Bare
  BY BareFixed DEF NameWords
<1>5. Line("Content-Length", t) = b
  BY <1>3, LineIs, FixedAreWords DEF LengthName, NameWords, Word
<1>6. Line("l", t) = c
  BY <1>3, LineIs, FixedAreWords DEF ShortName, NameWords, Word
<1>7. <<LengthName, Colon, Tab, number>> = d
  BY Two, Three, Four
<1>8. \/ LengthLine(form) = <<b>>
      \/ LengthLine(form) = <<c>>
      \/ LengthLine(form) = << <<LengthName, Colon, Tab, number>> >>
      \/ LengthLine(form) = <<>>
  BY <1>5, <1>6, Zenon DEF LengthLine, number, LengthName, Colon, Tab
<1> HIDE DEF t
<1>9. b \in S
  <2>1. b \in Seq(Bare)
    BY <1>3, <1>4, BareLine
  <2>2. b[1] = LengthName
    BY <1>3, <1>4, HeaderLineIs DEF Bare
  <2>3. b \in PlainLines
    BY <1>3, PlainLine
  <2> HIDE DEF b
  <2> QED
    BY <2>1, <2>2, <2>3, NumberHead
<1>10. c \in S
  <2>1. c \in Seq(Bare)
    BY <1>3, <1>4, BareLine
  <2>2. c[1] = ShortName
    BY <1>3, <1>4, HeaderLineIs DEF Bare
  <2>3. c \in PlainLines
    BY <1>3, PlainLine
  <2> HIDE DEF c
  <2> QED
    BY <2>1, <2>2, <2>3, NumberHead
<1>11. d \in S
  <2>1. Colon \in Bare /\ Tab \in Bare
    BY BareFixed DEF MarkSet
  <2>2. Cons(Tab, t) \in Seq(Bare)
    BY <1>3, <2>1, ConsIs
  <2>3. Cons(Colon, Cons(Tab, t)) \in Seq(Bare)
    BY <2>1, <2>2, ConsIs
  <2>4. d \in Seq(Bare) /\ d # <<>> /\ d[1] = LengthName
    BY <1>4, <2>3, ConsIs
  <2>5. LengthName \in Word \ {Version} /\ FullName(LengthName) \notin Special
    BY PlainNames
  <2> HIDE DEF d
  <2>6. d \in Seq(Token)
    BY <2>4, SeqMonotonic DEF Bare
  <2>7. d \in PlainLines
    BY <2>4, <2>5, <2>6 DEF PlainLines
  <2> QED
    BY <2>4, <2>7, NumberHead
<1>12. <<>> \in Seq(S)
  BY EmptySeq
<1> HIDE DEF b, c, d, S
<1>13. LengthLine(form) \in Seq(S)
  BY <1>7, <1>8, <1>9, <1>10, <1>11, <1>12, OneIn
<1> QED
  BY <1>13 DEF S



-----------------------------------------------------------------------------
(* Where a request starts *)

\* The request x starts at the i-th line: what follows up to the next empty
\* line are its header lines.
Starts(x, L, i) ==
    /\ L[i] = StartText(x.form.method)
    /\ \E b \in (i + 1)..Len(L) : L[b] = <<>> /\ \A j \in (i + 1)..(b - 1) : L[j] \in Heads(x)

\* A start line is one of a request in X, with its header lines.
Whole(X, L) == \A i \in 1..Len(L) : L[i] \in Seq(Bare) \/ \E x \in X : Starts(x, L, i)

\* A start stays one, whatever is written before and after it.
LEMMA StartsCat ==
    ASSUME NEW T, NEW u \in Seq(T), NEW v \in Seq(T), NEW w \in Seq(T), NEW all,
           all = (u \o v) \o w, NEW x, NEW i \in 1..Len(v), Starts(x, v, i)
    PROVE  Starts(x, all, Len(u) + i) /\ all[Len(u) + i] = v[i]
<1> DEFINE p == u \o v
           m == Len(u)
<1>1. /\ p \in Seq(T) /\ Len(p) = Len(u) + Len(v) /\ Len(u) \in Nat /\ Len(v) \in Nat
      /\ \A j \in 1..Len(v) : p[Len(u) + j] = v[j]
  BY CatIs
<1>2. all = p \o w
  OBVIOUS
<1> HIDE DEF p
<1>3. p \in Seq(T)
  BY <1>1
<1>4. /\ all \in Seq(T) /\ Len(all) = Len(p) + Len(w) /\ Len(p) \in Nat /\ Len(w) \in Nat
      /\ \A j \in 1..Len(p) : all[j] = p[j]
  BY <1>2, <1>3, CatIs
<1>5. m \in Nat /\ Len(v) \in Nat /\ Len(all) \in Nat /\ m + Len(v) <= Len(all)
  BY <1>1, <1>4
<1>6. ASSUME NEW j \in 1..Len(v)
      PROVE  all[m + j] = v[j]
  <2>1. m + j \in 1..Len(p)
    BY <1>1
  <2> QED
    BY <1>1, <1>4, <2>1
<1>7. PICK b \in (i + 1)..Len(v) :
            v[b] = <<>> /\ \A j \in (i + 1)..(b - 1) : v[j] \in Heads(x)
  BY DEF Starts
<1>8. v[i] = StartText(x.form.method)
  BY DEF Starts
<1> HIDE DEF m
<1>9. all[m + i] = StartText(x.form.method)
  BY <1>6, <1>8
<1> DEFINE k == m + i
           z == m + b
<1>10. z \in (k + 1)..Len(all) /\ b \in 1..Len(v)
  BY <1>5, <1>7
<1>11. all[z] = <<>>
  BY <1>6, <1>7, <1>10
<1>12. ASSUME NEW y \in (k + 1)..(z - 1)
       PROVE  all[y] \in Heads(x)
  <2> DEFINE j == y - m
  <2>1. j \in (i + 1)..(b - 1) /\ j \in 1..Len(v) /\ m + j = y
    BY <1>5, <1>7
  <2> HIDE DEF j
  <2>2. all[m + j] = v[j]
    BY <1>6, <2>1
  <2>3. v[j] \in Heads(x)
    BY <1>7, <2>1
  <2> QED
    BY <2>1, <2>2, <2>3
<1> HIDE DEF k, z
<1>14. all[k] = StartText(x.form.method)
  BY <1>9 DEF k
<1>13. Starts(x, all, k)
  BY <1>10, <1>11, <1>12, <1>14 DEF Starts
<1> QED
  BY <1>6, <1>13 DEF m, k

\* Two whole texts are whole together.
LEMMA WholeCat ==
    ASSUME NEW X, NEW T, NEW u \in Seq(T), NEW v \in Seq(T), Whole(X, u), Whole(X, v), NEW all,
           all = u \o v
    PROVE  Whole(X, all)
<1> DEFINE e == <<>>
<1>1. e \in Seq(T) /\ Len(e) = 0
  BY EmptySeq
<1>2. /\ all \in Seq(T) /\ Len(all) = Len(u) + Len(v) /\ Len(u) \in Nat /\ Len(v) \in Nat
      /\ \A j \in 1..Len(u) : all[j] = u[j]
      /\ \A j \in 1..Len(v) : all[Len(u) + j] = v[j]
  BY CatIs
<1>3. all = (e \o u) \o v
  BY CatEmpty
<1>4. all = (u \o v) \o e
  <2>1. u \o v \in Seq(T)
    BY CatType
  <2> QED
    BY <2>1, CatEmpty
<1> HIDE DEF e
<1>5. ASSUME NEW i \in 1..Len(u)
      PROVE  all[i] \in Seq(Bare) \/ \E x \in X : Starts(x, all, i)
  <2>1. CASE u[i] \in Seq(Bare)
    BY <1>2, <2>1
  <2>2. ASSUME NEW x \in X, Starts(x, u, i)
        PROVE  Starts(x, all, i)
    <3>1. Starts(x, all, Len(e) + i)
      BY <1>1, <1>3, <2>2, StartsCat
    <3> QED
      BY <1>1, <3>1
  <2> QED
    BY <2>1, <2>2 DEF Whole
<1>6. ASSUME NEW i \in 1..Len(v)
      PROVE  LET k == Len(u) + i IN all[k] \in Seq(Bare) \/ \E x \in X : Starts(x, all, k)
  <2>1. CASE v[i] \in Seq(Bare)
    BY <1>2, <2>1
  <2>2. ASSUME NEW x \in X, Starts(x, v, i)
        PROVE  Starts(x, all, Len(u) + i)
    BY <1>1, <1>4, <2>2, StartsCat
  <2> QED
    BY <2>1, <2>2 DEF Whole
<1>7. ASSUME NEW k \in 1..Len(all)
      PROVE  all[k] \in Seq(Bare) \/ \E x \in X : Starts(x, all, k)
  <2>1. CASE k \in 1..Len(u)
    BY <1>5, <2>1
  <2>2. CASE k \notin 1..Len(u)
    <3> DEFINE i == k - Len(u)
    <3>1. i \in 1..Len(v) /\ Len(u) + i = k
      BY <1>2, <2>2
    <3> HIDE DEF i
    <3> QED
      BY <1>6, <3>1
  <2> QED
    BY <2>1, <2>2
<1> QED
  BY <1>7 DEF Whole

\* What is left of a whole text is whole.
LEMMA WholeAfter ==
    ASSUME NEW X, NEW T, NEW L \in Seq(T), Whole(X, L), NEW n \in 0..Len(L), NEW rest,
           rest = After(L, n)
    PROVE  Whole(X, rest)
<1>1. rest = SubSeq(L, n + 1, Len(L)) /\ Len(L) \in Nat /\ n \in Nat
  BY DEF After
<1>2. n + 1 \in 1..(Len(L) + 1) /\ Len(L) \in ((n + 1) - 1)..Len(L)
  BY <1>1
<1>3. rest \in Seq(T) /\ Len(rest) = Len(L) - (n + 1) + 1
  BY <1>1, <1>2, SubType
<1>4. ASSUME NEW i \in 1..Len(rest)
      PROVE  rest[i] = L[n + i]
  <2>1. i \in 1..(Len(L) - (n + 1) + 1) /\ (n + 1) + i - 1 = n + i
    BY <1>1, <1>3
  <2> QED
    BY <1>1, <1>2, <2>1, SubAt
<1>5. Len(rest) = Len(L) - n
  BY <1>1, <1>3
<1>6. ASSUME NEW i \in 1..Len(rest)
      PROVE  rest[i] \in Seq(Bare) \/ \E x \in X : Starts(x, rest, i)
  <2>1. n + i \in 1..Len(L)
    BY <1>1, <1>5
  <2>2. CASE L[n + i] \in Seq(Bare)
    BY <1>4, <2>2
  <2>3. ASSUME NEW x \in X, Starts(x, L, n + i)
        PROVE  Starts(x, rest, i)
    <3>1. L[n + i] = StartText(x.form.method)
      BY <2>3 DEF Starts
    <3>2. PICK b \in (n + i + 1)..Len(L) :
                L[b] = <<>> /\ \A j \in (n + i + 1)..(b - 1) : L[j] \in Heads(x)
      BY <2>3 DEF Starts
    <3> DEFINE c == b - n
    <3>3. c \in (i + 1)..Len(rest) /\ c \in 1..Len(rest) /\ n + c = b
      BY <1>1, <1>5, <3>2
    <3> HIDE DEF c
    <3>4. rest[c] = <<>>
      BY <1>4, <3>2, <3>3
    <3>5. ASSUME NEW j \in (i + 1)..(c - 1)
          PROVE  rest[j] \in Heads(x)
      <4>1. j \in 1..Len(rest) /\ n + j \in (n + i + 1)..(b - 1)
        BY <1>1, <3>3
      <4> QED
        BY <1>4, <3>2, <4>1
    <3>6. rest[i] = StartText(x.form.method)
      BY <1>4, <3>1
    <3> QED
      BY <3>3, <3>4, <3>5, <3>6 DEF Starts
  <2> QED
    BY <2>1, <2>2, <2>3 DEF Whole
<1> QED
  BY <1>6 DEF Whole

\* More requests leave a whole text whole.
LEMMA WholeWider ==
    ASSUME NEW X, NEW Y, X \subseteq Y, NEW L, Whole(X, L)
    PROVE  Whole(Y, L)
  BY DEF Whole

\* Texts that are whole.
WholeTexts(X, T) == {L \in Seq(T) : Whole(X, L)}

\* Whole texts one after the other are whole.
LEMMA WholeFlat ==
    ASSUME NEW X, NEW T, NEW seqs \in Seq(WholeTexts(X, T))
    PROVE  Flat(seqs) \in WholeTexts(X, T)
<1> DEFINE W == WholeTexts(X, T)
           S == {s \in Seq(W) : Flat(s) \in W}
<1>1. W \subseteq Seq(T)
  BY DEF WholeTexts
<1>2. Flat(<<>>) \in W
  <2>1. Len(<<>>) = 0
    OBVIOUS
  <2>2. Whole(X, <<>>)
    BY <2>1 DEF Whole
  <2>3. <<>> \in Seq(T)
    BY EmptySeq
  <2>4. <<>> \in W
    BY <2>2, <2>3 DEF WholeTexts
  <2> QED
    BY <2>4, FlatEmpty
<1>3. <<>> \in S
  <2> HIDE DEF W
  <2> QED
    BY <1>2, EmptySeq
<1>4. ASSUME NEW s \in Seq(W), NEW t \in W, s \in S
      PROVE  Append(s, t) \in S
  <2> DEFINE a == Flat(s)
             all == Flat(Append(s, t))
  <2>1. a \in Seq(T) /\ Whole(X, a) /\ t \in Seq(T) /\ Whole(X, t)
    BY <1>4 DEF WholeTexts
  <2>2. s \in Seq(Seq(T))
    <3> HIDE DEF W
    <3> QED
      BY <1>1, SeqMonotonic
  <2>3. all = a \o t
    BY <2>1, <2>2, FlatAppend
  <2> HIDE DEF a, all
  <2>4. all \in Seq(T)
    BY <2>1, <2>3, CatType
  <2>5. Whole(X, all)
    BY <2>1, <2>3, WholeCat
  <2>6. all \in W
    BY <2>4, <2>5 DEF WholeTexts
  <2>7. Append(s, t) \in Seq(W)
    <3> HIDE DEF W
    <3> QED
      BY <1>4
  <2> QED
    BY <2>6, <2>7 DEF all
<1>5. seqs \in Seq(W)
  OBVIOUS
<1> HIDE DEF W, S
<1>6. Seq(W) \subseteq S
  BY <1>3, <1>4, SeqInduction
<1>7. seqs \in S
  BY <1>5, <1>6
<1> QED
  BY <1>7 DEF S, W

-----------------------------------------------------------------------------
(* A request is whole *)

\* A start line and header lines.
Headed(x, p) ==
    /\ p \in Seq(LinesOf({x.form})) /\ p # <<>> /\ p[1] = StartText(x.form.method)
    /\ \A i \in 2..Len(p) : p[i] \in Heads(x)

\* More header lines.
LEMMA HeadedCat ==
    ASSUME NEW x, NEW p, Headed(x, p), NEW s \in Seq(Heads(x))
    PROVE  Headed(x, p \o s)
<1> DEFINE L == LinesOf({x.form})
           w == p \o s
<1>1. Heads(x) \subseteq L
  BY DEF Heads
<1>2. p \in Seq(L) /\ p # <<>>
  BY DEF Headed
<1>3. s \in Seq(L)
  BY <1>1, SeqMonotonic
<1> HIDE DEF L
<1>4. w = p \o s
  OBVIOUS
<1> HIDE DEF w
<1>5. /\ w \in Seq(L) /\ Len(w) = Len(p) + Len(s) /\ Len(p) \in Nat /\ Len(s) \in Nat
      /\ \A i \in 1..Len(p) : w[i] = p[i]
      /\ \A i \in 1..Len(s) : w[Len(p) + i] = s[i]
  BY <1>2, <1>3, <1>4, CatIs
<1>6. Len(p) # 0
  BY <1>2
<1>7. w # <<>> /\ w[1] = StartText(x.form.method)
  BY <1>5, <1>6 DEF Headed
<1>8. ASSUME NEW i \in 2..Len(w)
      PROVE  w[i] \in Heads(x)
  <2>1. CASE i <= Len(p)
    BY <1>5, <2>1 DEF Headed
  <2>2. CASE i > Len(p)
    <3> DEFINE j == i - Len(p)
    <3>1. j \in 1..Len(s) /\ Len(p) + j = i
      BY <1>5, <2>2
    <3> HIDE DEF j
    <3>2. s[j] \in Heads(x)
      BY <3>1, ElementOfSeq
    <3> QED
      BY <1>5, <3>1, <3>2
  <2> QED
    BY <1>5, <2>1, <2>2
<1>9. Headed(x, w)
  BY <1>5, <1>7, <1>8 DEF Headed, L
<1> QED
  BY <1>9 DEF w

\* The lines of a body are bare.
LEMMA BareBody == BodyLines \subseteq Seq(Bare)
<1>1. BodyWords \subseteq Bare
  BY BareFixed, WordIs DEF BodyWords, Bare, MarkSet
<1> QED
  BY <1>1, SeqMonotonic DEF BodyLines

\* The six lines that a request starts with.
LEMMA FirstHeaded ==
    ASSUME NEW x \in Asks
    PROVE  Headed(x, FirstLines(x.form, x.num))
<1> DEFINE p == FirstLines(x.form, x.num)
           a == StartText(x.form.method)
           b == HeaderLine(ViaName, ViaText(x.num))
           c == HeaderLine(FromName, FromText(x.form.user))
           d == HeaderLine(ToName, PlatformText)
           e == HeaderLine(CallName, <<CallOf(x.form, x.num)>>)
           f == HeaderLine(CSeqName, CSeqText(x.form, x.num))
<1>1. p = <<a, b, c, d, e, f>>
  BY DEF FirstLines
<1>2. b \in Heads(x) /\ c \in Heads(x) /\ d \in Heads(x) /\ e \in Heads(x) /\ f \in Heads(x)
  BY ViaHead, FromHead, ToHead, CallHead, CSeqHead
<1>3. x.form \in Forms /\ x.num \in 1..MaxSent
  BY DEF Asks
<1>4. {x.form} \in SUBSET Forms /\ x.form \in {x.form}
  BY <1>3
<1>5. p \in Seq(LinesOf({x.form}))
  BY <1>3, <1>4, FirstLinesIn
<1> HIDE DEF a, b, c, d, e, f
<1>6. Len(p) = 6 /\ p[1] = a /\ p[2] = b /\ p[3] = c /\ p[4] = d /\ p[5] = e /\ p[6] = f
  BY <1>1
<1> HIDE DEF p
<1>7. p # <<>>
  <2>1. Len(<<>>) = 0
    OBVIOUS
  <2> QED
    BY <1>6, <2>1
<1>8. \A i \in 2..Len(p) : p[i] \in Heads(x)
  <2>1. \A i \in 2..Len(p) : i = 2 \/ i = 3 \/ i = 4 \/ i = 5 \/ i = 6
    BY <1>6
  <2> QED
    BY <1>2, <1>6, <2>1
<1>9. Headed(x, p)
  BY <1>5, <1>6, <1>7, <1>8 DEF Headed, a
<1> QED
  BY <1>9 DEF p

\* What the device writes of a request is whole.
LEMMA LinesWhole ==
    ASSUME NEW x \in Asks
    PROVE  Whole({x}, DeviceLines(x.form, x.num))
<1> DEFINE form == x.form
           n == x.num
           L == LinesOf({form})
           S == Seq(Heads(x))
           a == FirstLines(form, n)
           b == RouteLines(form)
           c == AuthLines(form)
           d == ExpiresLines(form)
           e == LengthLine(form)
           f == << <<>> >>
           g == BodyOf(form)
           p == (((a \o b) \o c) \o d) \o e
           all == DeviceLines(form, n)
<1>1. form \in Forms /\ n \in 1..MaxSent
  BY DEF Asks
<1>2. all = (p \o f) \o g
  BY <1>1, DeviceLinesAre
<1>3. b \in S
  <2> DEFINE l == HeaderLine(RouteName, ProxyText)
  <2>1. b = IF form.routed THEN <<l>> ELSE <<>>
    BY DEF RouteLines
  <2>2. form.routed => l \in Heads(x)
    BY RouteHead
  <2> HIDE DEF l, b
  <2> QED
    BY <2>1, <2>2, OneIn, EmptySeq
<1>4. c \in S
  <2> DEFINE l == HeaderLine(AuthName, AuthText(form))
  <2>1. c = IF form.auth = "none" THEN <<>> ELSE <<l>>
    BY DEF AuthLines
  <2>2. form.auth # "none" => l \in Heads(x)
    BY AuthHead
  <2> HIDE DEF l, c
  <2> QED
    BY <2>1, <2>2, OneIn, EmptySeq
<1>5. d \in S
  <2> DEFINE l == HeaderLine(ExpiresName, <<form.expires>>)
  <2>1. d = IF form.expires = "" THEN <<>> ELSE <<l>>
    BY DEF ExpiresLines
  <2>2. form.expires # "" => l \in Heads(x)
    BY ExpiresHead
  <2> HIDE DEF l, d
  <2> QED
    BY <2>1, <2>2, OneIn, EmptySeq
<1>6. e \in S
  BY LengthHead
<1>7. Headed(x, a)
  BY FirstHeaded
<1>8. g \in Seq(BodyLines)
  BY <1>1, BodyIs
<1>9. g \in Seq(L) /\ g \in Seq(Seq(Bare))
  <2>1. BodyLines \subseteq L
    BY DEF LinesOf
  <2> HIDE DEF L, g
  <2> QED
    BY <1>8, <2>1, BareBody, SeqMonotonic
<1>10. f \in Seq(L)
  <2>1. <<>> \in L
    BY DEF LinesOf
  <2> HIDE DEF L
  <2> QED
    BY <2>1, OneIn
<1>11. Len(f) = 1 /\ f[1] = <<>>
  OBVIOUS
<1> HIDE DEF a, b, c, d, e, f, g, all
<1>12. Headed(x, p)
  <2>1. Headed(x, a \o b)
    BY <1>3, <1>7, HeadedCat
  <2>2. Headed(x, (a \o b) \o c)
    BY <1>4, <2>1, HeadedCat
  <2>3. Headed(x, ((a \o b) \o c) \o d)
    BY <1>5, <2>2, HeadedCat
  <2> QED
    BY <1>6, <2>3, HeadedCat
<1> HIDE DEF p, S
<1>13. /\ p \in Seq(L) /\ p # <<>> /\ p[1] = StartText(form.method)
       /\ \A i \in 2..Len(p) : p[i] \in Heads(x)
  BY <1>12 DEF Headed
<1> HIDE DEF L
<1> DEFINE q == p \o f
<1>14. /\ q \in Seq(L) /\ Len(q) = Len(p) + 1 /\ Len(p) \in Nat
       /\ \A i \in 1..Len(p) : q[i] = p[i]
       /\ q[Len(p) + 1] = <<>>
  <2>1. q = p \o f
    OBVIOUS
  <2> HIDE DEF q
  <2>2. p \in Seq(L)
    BY <1>13
  <2>3. /\ q \in Seq(L) /\ Len(q) = Len(p) + Len(f) /\ Len(p) \in Nat
        /\ \A i \in 1..Len(p) : q[i] = p[i]
        /\ \A i \in 1..Len(f) : q[Len(p) + i] = f[i]
    BY <1>10, <2>1, <2>2, CatIs
  <2> QED
    BY <1>11, <2>3
<1>15. all = q \o g
  BY <1>2
<1> HIDE DEF q
<1>16. q \in Seq(L) /\ g \in Seq(L)
  BY <1>9, <1>14
<1>17. /\ Len(all) = Len(q) + Len(g) /\ Len(q) \in Nat /\ Len(g) \in Nat
       /\ \A i \in 1..Len(q) : all[i] = q[i]
       /\ \A i \in 1..Len(g) : all[Len(q) + i] = g[i]
  BY <1>15, <1>16, CatIs
<1> DEFINE k == Len(p) + 1
<1>18. Len(p) # 0
  BY <1>13
<1>19. k \in 2..Len(all) /\ Len(q) = k /\ all[k] = <<>>
  BY <1>14, <1>17, <1>18
<1>20. ASSUME NEW j \in 2..(k - 1)
       PROVE  all[j] \in Heads(x)
  <2>1. j \in 2..Len(p) /\ j \in 1..Len(p) /\ j \in 1..Len(q)
    BY <1>14
  <2> QED
    BY <1>13, <1>14, <1>17, <2>1
<1>21. all[1] = StartText(form.method)
  BY <1>13, <1>14, <1>17, <1>18
<1> HIDE DEF k
<1>22. Starts(x, all, 1)
  BY <1>19, <1>20, <1>21 DEF Starts
<1>23. ASSUME NEW i \in 2..Len(all)
       PROVE  all[i] \in Seq(Bare)
  <2>1. CASE i < k
    <3>1. i \in 2..(k - 1)
      BY <1>19, <2>1
    <3> QED
      BY <1>20, <3>1 DEF Heads
  <2>2. CASE i = k
    BY <1>19, <2>2, EmptySeq
  <2>3. CASE i > k
    <3> DEFINE j == i - k
    <3>1. j \in 1..Len(g) /\ Len(q) + j = i
      BY <1>17, <1>19, <2>3
    <3> HIDE DEF j
    <3>2. g[j] \in Seq(Bare)
      BY <1>9, <3>1, ElementOfSeq
    <3> QED
      BY <1>17, <3>1, <3>2
  <2> QED
    BY <1>19, <2>1, <2>2, <2>3
<1>24. \A i \in 1..Len(all) : i = 1 \/ i \in 2..Len(all)
  BY <1>17
<1>25. Whole({x}, all)
  BY <1>22, <1>23, <1>24 DEF Whole
<1> QED
  BY <1>25 DEF all



-----------------------------------------------------------------------------
(* The request that a packet gives *)

\* Without the version no line starts a message.
LEMMA NoStart ==
    ASSUME NEW l \in Seq(Bare)
    PROVE  ParseStartLine(l) = Nil
<1> DEFINE parts == Split(l, Space)
<1>1. parts \in Seq(Seq(Bare))
  BY SplitType
<1>2. ASSUME NEW t \in Seq(Bare)
      PROVE  ~StartsWithSIP(t)
  <2>1. t # <<>> => t[1] \in Bare
    BY ConsHead
  <2>2. Version \notin Bare
    BY DEF Bare
  <2> QED
    BY <2>1, <2>2 DEF StartsWithSIP
<1>3. parts = Split(l, " ")
  BY DEF Space
<1> HIDE DEF parts
<1>4. \A i \in 1..Len(parts) : ~StartsWithSIP(parts[i])
  BY <1>1, <1>2, ElementOfSeq
<1>5. Len(parts) \in Nat
  BY <1>1
<1>6. Len(parts) = 3 => ~StartsWithSIP(parts[3])
  BY <1>4
<1>7. Len(parts) >= 3 => ~StartsWithSIP(parts[1])
  BY <1>4, <1>5
<1>8. ~IsRequest(l)
  BY <1>3, <1>6 DEF IsRequest
<1>9. ~IsResponse(l)
  BY <1>3, <1>7 DEF IsResponse
<1> QED
  BY <1>8, <1>9 DEF ParseStartLine

\* A request is that of x: its method, and headers of the form and the number.
Source(x, req) ==
    /\ IsReq(req) /\ req.method = x.form.method
    /\ \E H : /\ \A h \in H : Carries({x.form}, h) /\ Fits(x.num, h)
              /\ req.headers \in Seq(Grouped(H))

\* What the start line of a request is to the parser.
LEMMA StartOpens ==
    ASSUME NEW x \in Asks, NEW l, l = StartText(x.form.method)
    PROVE  Opens(l) /\ MethodOf(l) = x.form.method
<1> DEFINE m == x.form.method
<1>1. x.form \in Forms
  BY DEF Asks
<1>2. m \in {RegisterWord, MessageWord}
  BY <1>1, FormIs
<1>3. l \in PlainLines /\ l[1] = m
  BY <1>2, StartIn
<1>4. l \in Seq(Token) /\ l # <<>> /\ l[1] \in Word \ {Version}
  BY <1>3 DEF PlainLines
<1>5. l[1] # Space /\ l[1] # Version
  BY <1>4, WordIs
<1> HIDE DEF m
<1>6. l[1] \in Token /\ After(l, 1) \in Seq(Token) /\ l = Cons(l[1], After(l, 1))
  BY <1>4, ConsHead
<1> DEFINE s == After(l, 1)
<1>7. s \in Seq(Token) /\ m \in Token /\ m # Space /\ l = Cons(m, s)
  BY <1>3, <1>5, <1>6
<1> HIDE DEF s
<1>8. Split(Cons(m, s), Space)[1][1] = m
  BY <1>7, SplitHead
<1>9. MethodOf(l) = m
  BY <1>7, <1>8 DEF MethodOf
<1>10. Opens(l)
  BY <1>4, <1>5 DEF Opens
<1> QED
  BY <1>9, <1>10 DEF m

\* Header lines give headers of their request.
LEMMA HeadsGive ==
    ASSUME NEW x \in Asks, NEW texts \in Seq(Heads(x))
    PROVE  \E H : /\ \A h \in H : Carries({x.form}, h) /\ Fits(x.num, h)
                  /\ AppendAll(<<>>, Flat(Each(ParsedOf, texts))) \in Seq(Grouped(H))
<1> DEFINE M == Heads(x)
           H == {h \in UNION {{ParsedOf(l)[1]} : l \in M} :
                    Carries({x.form}, h) /\ Fits(x.num, h)}
<1>1. {x.form} \in SUBSET Forms
  BY DEF Asks
<1>2. \A l \in M : ParsedOf(l) = <<>> \/ \E h \in H : ParsedOf(l) = <<h>>
  <2> SUFFICES ASSUME NEW l \in M, ParsedOf(l) # <<>>
               PROVE  \E h \in H : ParsedOf(l) = <<h>>
    OBVIOUS
  <2>1. l \in LinesOf({x.form}) \ {<<>>}
    BY DEF Heads
  <2>2. PICK h : ParsedOf(l) = <<h>> /\ Carries({x.form}, h)
    BY <1>1, <2>1, LineGives DEF Gives
  <2>3. Fits(x.num, h)
    BY <2>2 DEF Heads
  <2>4. ParsedOf(l)[1] = h
    BY <2>2
  <2>5. h \in UNION {{ParsedOf(k)[1]} : k \in M}
    BY <2>4
  <2> QED
    BY <2>2, <2>3, <2>5
<1>3. \A h \in H : Carries({x.form}, h) /\ Fits(x.num, h)
  OBVIOUS
<1>4. texts \in Seq(M)
  OBVIOUS
<1> HIDE DEF M, H
<1>5. AppendAll(<<>>, Flat(Each(ParsedOf, texts))) \in Seq(Grouped(H))
  BY <1>2, <1>4, TextsGive
<1> QED
  BY <1>3, <1>5

\* The first lines of a whole text are refused or give one of its requests.
LEMMA PacketSource ==
    ASSUME NEW X \in SUBSET Asks, NEW T, NEW L \in Seq(T), Whole(X, L), NEW end \in 1..Len(L),
           NEW packet, packet = SubSeq(L, 1, end)
    PROVE  \/ ParseMessage(packet) = Nil
           \/ \E req : ParseMessage(packet) = Some(req) /\ \E x \in X : Source(x, req)
<1>1. Len(L) \in Nat /\ 1 \in 1..(Len(L) + 1) /\ end \in (1 - 1)..Len(L) /\ end \in Nat
  OBVIOUS
<1>2. packet \in Seq(T) /\ Len(packet) = end - 1 + 1
  BY <1>1, SubType
<1>3. ASSUME NEW i \in 1..end
      PROVE  packet[i] = L[i]
  <2>1. i \in 1..(end - 1 + 1) /\ 1 + i - 1 = i
    BY <1>1
  <2> QED
    BY <1>1, <2>1, SubAt
<1>4. packet[1] = L[1] /\ 1 \in 1..Len(L) /\ Len(packet) = end
  BY <1>1, <1>2, <1>3
<1>5. CASE L[1] \in Seq(Bare)
  <2>1. ParseStartLine(packet[1]) = Nil
    BY <1>4, <1>5, NoStart
  <2> QED
    BY <2>1 DEF ParseMessage, ReadHeaders
<1>6. ASSUME NEW x \in X, Starts(x, L, 1)
      PROVE  \/ ParseMessage(packet) = Nil
             \/ \E req : ParseMessage(packet) = Some(req) /\ Source(x, req)
  <2> DEFINE M == Heads(x)
             lines == After(packet, 1)
             texts == HeaderTexts(lines)
  <2>1. x \in Asks
    OBVIOUS
  <2>2. L[1] = StartText(x.form.method)
    BY <1>6 DEF Starts
  <2>3. PICK b \in 2..Len(L) : L[b] = <<>> /\ \A j \in 2..(b - 1) : L[j] \in M
    BY <1>6 DEF Starts
  <2>4. lines = SubSeq(packet, 2, end)
    BY <1>4 DEF After
  <2>5. 2 \in 1..(Len(packet) + 1) /\ end \in (2 - 1)..Len(packet)
    BY <1>1, <1>4
  <2>6. lines \in Seq(T) /\ Len(lines) = end - 2 + 1
    BY <1>2, <2>4, <2>5, SubType
  <2>7. ASSUME NEW i \in 1..Len(lines)
        PROVE  lines[i] = L[i + 1]
    <3>1. i \in 1..(end - 2 + 1) /\ 2 + i - 1 = i + 1 /\ i + 1 \in 1..end
      BY <1>1, <2>6
    <3>2. lines[i] = packet[2 + i - 1]
      BY <1>2, <2>4, <2>5, <3>1, SubAt
    <3> QED
      BY <1>3, <3>1, <3>2
  <2>8. Opens(packet[1]) /\ MethodOf(packet[1]) = x.form.method
    BY <1>4, <2>1, <2>2, StartOpens
  <2>9. Unfolded(M)
    BY LineShape DEF Unfolded, Heads, Asks
  <2> HIDE DEF lines, M
  <2>10. ASSUME NEW i \in 1..Len(lines)
         PROVE  lines[i] \in M \/ \E c \in 1..i : lines[c] = <<>>
    <3>1. CASE i + 1 < b
      <4>1. i + 1 \in 2..(b - 1)
        BY <3>1
      <4> QED
        BY <2>3, <2>7, <4>1
    <3>2. CASE i + 1 >= b
      <4> DEFINE c == b - 1
      <4>1. c \in 1..i /\ c \in 1..Len(lines) /\ c + 1 = b
        BY <2>3, <2>6, <3>2
      <4> HIDE DEF c
      <4>2. lines[c] = <<>>
        BY <2>3, <2>7, <4>1
      <4> QED
        BY <4>1, <4>2
    <3> QED
      BY <2>3, <3>1, <3>2
  <2>11. texts \in Seq(M)
    BY <2>6, <2>9, <2>10, HeaderTextsIn
  <2>12. \/ ParseMessage(packet) = Nil
         \/ \E req : /\ ParseMessage(packet) = Some(req) /\ IsReq(req)
                     /\ req.method = MethodOf(packet[1])
                     /\ req.headers = AppendAll(<<>>, Flat(Each(ParsedOf, texts)))
    BY <2>8, MessageIs DEF lines
  <2> HIDE DEF texts
  <2>13. \E H : /\ \A h \in H : Carries({x.form}, h) /\ Fits(x.num, h)
                /\ AppendAll(<<>>, Flat(Each(ParsedOf, texts))) \in Seq(Grouped(H))
    BY <2>1, <2>11, HeadsGive DEF M
  <2> QED
    BY <2>8, <2>12, <2>13 DEF Source
<1>7. L[1] \in Seq(Bare) \/ \E x \in X : Starts(x, L, 1)
  BY <1>4 DEF Whole
<1> QED
  BY <1>5, <1>6, <1>7


-----------------------------------------------------------------------------
-----------------------------------------------------------------------------
(* Parameters of which no key comes twice are their own clone *)

\* Such parameters but the last are such parameters, and Add appends it.
LEMMA AddLast ==
    ASSUME NEW T, NEW s \in Seq(Param(T)), NEW p \in Param(T), Append(s, p) \in Lists(T)
    PROVE  s \in Lists(T) /\ Add(s, p.key, p.val) = Append(s, p)
<1> DEFINE r == Append(s, p)
           n == Len(s)
<1>1. n \in Nat /\ Len(r) = n + 1 /\ r[n + 1] = p /\ \A i \in 1..n : r[i] = s[i]
  OBVIOUS
<1>2. \A i, j \in 1..Len(r) : r[i].key = r[j].key => i = j
  BY DEF Lists
<1> HIDE DEF r, n
<1>3. \A i \in 1..n : i \in 1..Len(r) /\ r[i] = s[i] /\ i # n + 1
  BY <1>1
<1>4. n + 1 \in 1..Len(r)
  BY <1>1
<1>5. \A i, j \in 1..n : s[i].key = s[j].key => i = j
  BY <1>2, <1>3, Zenon
<1>6. \A i \in 1..n : s[i].key # p.key
  BY <1>1, <1>2, <1>3, <1>4, Zenon
<1>7. s \in Lists(T)
  BY <1>5 DEF Lists, n
<1>8. KeyAt(s, p.key) = 0
  BY <1>6, KeyAtIs, KeyAtIn DEF n
<1>9. p = [key |-> p.key, val |-> p.val]
  BY DEF Param
<1>10. Add(s, p.key, p.val) = Append(s, [key |-> p.key, val |-> p.val])
  BY <1>8 DEF Add, Has
<1> QED
  BY <1>7, <1>9, <1>10

\* CloneParams of them gives them.
LEMMA CloneParamsIs ==
    ASSUME NEW T, NEW params \in Lists(T)
    PROVE  CloneParams(params) = params
<1> DEFINE F == CloneF(T)
           P == Param(T)
           L == Lists(T)
           K == {s \in Seq(P) : s \in L => Fold(F, <<>>, s) = s}
<1>1. F \in Ops(L, P) /\ <<>> \in L
  BY CloneOps, Zenon
<1>2. <<>> \in K
  BY FoldEmpty
<1>3. ASSUME NEW s \in Seq(P), NEW p \in P, s \in K
      PROVE  Append(s, p) \in K
  <2> SUFFICES ASSUME Append(s, p) \in L PROVE Fold(F, <<>>, Append(s, p)) = Append(s, p)
    OBVIOUS
  <2>1. s \in L /\ Add(s, p.key, p.val) = Append(s, p)
    BY AddLast
  <2>2. Fold(F, <<>>, s) = s
    BY <1>3, <2>1
  <2>3. F[s][p] = Add(s, p.key, p.val)
    BY <2>1 DEF CloneF
  <2> HIDE DEF F, P, L, K
  <2>4. Fold(F, <<>>, Append(s, p)) = F[Fold(F, <<>>, s)][p]
    BY <1>1, FoldAppend
  <2> QED
    BY <2>1, <2>2, <2>3, <2>4
<1>4. Seq(P) \subseteq K
  <2> HIDE DEF K
  <2> QED
    BY <1>2, <1>3, SeqInduction
<1>5. params \in Seq(P)
  BY DEF Lists
<1>6. CloneParams(params) = Fold(F, <<>>, params)
  BY CloneFold
<1> QED
  BY <1>4, <1>5, <1>6

-----------------------------------------------------------------------------
(* The headers of a message, appended again *)

\* AppendAll of a concatenation.
LEMMA AppendAllCat ==
    ASSUME NEW H, NEW headers \in Seq(Group(H)), NEW u \in Seq(H), NEW v \in Seq(H)
    PROVE  AppendAll(headers, u \o v) = AppendAll(AppendAll(headers, u), v)
<1> DEFINE S == Seq(Group(H))
           F == AppendF(H)
           a == AppendAll(headers, u)
<1>1. F \in Ops(S, H) /\ headers \in S
  BY AppendOps
<1>2. a = Fold(F, headers, u) /\ a \in S
  BY AppendFold, AppendAllType
<1>3. u \o v \in Seq(H)
  OBVIOUS
<1>4. AppendAll(headers, u \o v) = Fold(F, headers, u \o v)
  BY <1>3, AppendFold
<1> HIDE DEF a
<1>5. AppendAll(a, v) = Fold(F, a, v)
  BY <1>2, AppendFold
<1> HIDE DEF S, F
<1>6. Fold(F, headers, u \o v) = Fold(F, Fold(F, headers, u), v)
  BY <1>1, FoldConcat
<1> QED
  BY <1>2, <1>4, <1>5, <1>6 DEF a

\* Groups of headers of their own name, none empty and no two of one name.
Distinct(headers) ==
    \A i, j \in 1..Len(headers) : headers[i].name = headers[j].name => i = j
Neat(H) ==
    {headers \in Seq(Grouped(H)) :
        Distinct(headers) /\ \A i \in 1..Len(headers) : headers[i].list # <<>>}

\* Headers of a name that no group has make a group of their own.
LEMMA NewGroup ==
    ASSUME NEW H, NEW headers \in Seq(Group(H)), NEW name, GroupAt(headers, name) = 0,
           NEW list \in Seq(Named(H, name)), list # <<>>
    PROVE  AppendAll(headers, list) = Append(headers, [name |-> name, list |-> list])
<1> DEFINE N == Named(H, name)
           with(s) == Append(headers, [name |-> name, list |-> s])
           K == {s \in Seq(N) : s # <<>> => AppendAll(headers, s) = with(s)}
<1>0. N \subseteq H /\ \A h \in N : NameOf(h) = name
  BY DEF Named
<1>1. <<>> \in K
  OBVIOUS
<1>2. ASSUME NEW s \in Seq(N), NEW h \in N, s \in K
      PROVE  Append(s, h) \in K
  <2> DEFINE a == AppendAll(headers, s)
             r == Append(s, h)
  <2>1. s \in Seq(H) /\ h \in H /\ NameOf(h) = name
    BY <1>0, SeqMonotonic
  <2>2. AppendAll(headers, r) = AppendHeader(a, h)
    BY <2>1, AppendAllAppend
  <2>3. r \in Seq(N)
    OBVIOUS
  <2>4. CASE s = <<>>
    <3>1. a = headers
      BY <2>4, AppendAllEmpty
    <3>2. r = <<h>>
      BY <2>4
    <3>3. AppendHeader(headers, h) = with(r)
      BY <2>1, <3>2 DEF AppendHeader
    <3> QED
      BY <2>2, <2>3, <3>1, <3>3
  <2>5. CASE s # <<>>
    <3> DEFINE g == [name |-> name, list |-> s]
               n == Len(headers) + 1
               new == [name |-> name, list |-> r]
    <3>1. a = Append(headers, g)
      BY <1>2, <2>5
    <3> HIDE DEF K, a
    <3>2. g.name = name /\ g.list = s /\ [g EXCEPT !.list = Append(@, h)] = new
      OBVIOUS
    <3> HIDE DEF g, new, r
    <3>3. n \in Nat \ {0} /\ Len(a) = n /\ a[n] = g /\ \A i \in 1..(n - 1) : a[i] = headers[i]
      BY <3>1
    <3>4. \A i \in 1..(n - 1) : headers[i].name # name
      BY GroupAtIn
    <3>5. a \in Seq(Group(H) \cup {g})
      BY <3>1
    <3>6. GroupAt(a, name) = n
      <4>1. n \in 1..Len(a) /\ a[n].name = name /\ \A i \in 1..(n - 1) : a[i].name # name
        BY <3>2, <3>3, <3>4
      <4> HIDE DEF n
      <4> QED
        BY <3>5, <4>1, GroupAtIs
    <3>7. AppendHeader(a, h) = [a EXCEPT ![n].list = Append(@, h)]
      <4> HIDE DEF n
      <4>1. n # 0
        BY <3>3
      <4> QED
        BY <2>1, <3>6, <4>1 DEF AppendHeader
    <3>8. [a EXCEPT ![n].list = Append(@, h)] = [a EXCEPT ![n] = new]
      BY <3>2, <3>3
    <3>9. [a EXCEPT ![n] = new] = Append(headers, new)
      <4> DEFINE T == Group(H) \cup {g, new}
                 x == [a EXCEPT ![n] = new]
                 y == Append(headers, new)
      <4>1. a \in Seq(T) /\ n \in 1..Len(a) /\ new \in T
        BY <3>1, <3>3
      <4>2. y \in Seq(T) /\ Len(y) = n /\ y[n] = new /\ \A i \in 1..(n - 1) : y[i] = headers[i]
        OBVIOUS
      <4>3. n \in Nat \ {0} /\ Len(a) = n /\ \A i \in 1..(n - 1) : a[i] = headers[i]
        BY <3>3
      <4> HIDE DEF n, T, y
      <4>4. x \in Seq(T) /\ Len(x) = n /\ \A i \in 1..n : x[i] = IF i = n THEN new ELSE a[i]
        BY <4>1, <4>3, ExceptSeq
      <4> HIDE DEF x
      <4>5. \A i \in 1..n : i = n \/ i \in 1..(n - 1)
        BY <4>3
      <4>6. \A i \in 1..n : x[i] = y[i]
        BY <4>2, <4>3, <4>4, <4>5
      <4>7. x = y
        BY <4>2, <4>4, <4>6, SameSeq
      <4> QED
        BY <4>7 DEF x, y
    <3> QED
      BY <2>2, <2>3, <3>7, <3>8, <3>9 DEF K, new, r
  <2> QED
    BY <2>4, <2>5
<1>3. Seq(N) \subseteq K
  <2> HIDE DEF K
  <2> QED
    BY <1>1, <1>2, SeqInduction
<1> QED
  BY <1>3

\* Headers of all groups, of one more group.
LEMMA AllAppend ==
    ASSUME NEW H, NEW headers \in Seq(Group(H)), NEW g \in Group(H)
    PROVE  AllHeaders(Append(headers, g)) = AllHeaders(headers) \o g.list
<1> DEFINE lists(s) == [i \in DOMAIN s |-> s[i].list]
           r == Append(headers, g)
<1>1. ASSUME NEW s \in Seq(Group(H))
      PROVE  AllHeaders(s) = Flat(lists(s)) /\ lists(s) \in Seq(Seq(H)) /\ Len(lists(s)) = Len(s)
  <2>1. AllHeaders(s) = Flat(lists(s))
    BY DEF AllHeaders, Each
  <2>2. DOMAIN s = 1..Len(s) /\ Len(s) \in Nat /\ \A i \in 1..Len(s) : s[i].list \in Seq(H)
    <3>1. \A i \in 1..Len(s) : s[i] \in Group(H)
      BY ElementOfSeq
    <3> QED
      BY <3>1 DEF Group
  <2> QED
    BY <2>1, <2>2
<1>2. r \in Seq(Group(H)) /\ Len(r) = Len(headers) + 1 /\ Len(headers) \in Nat
      /\ r[Len(headers) + 1] = g /\ \A i \in 1..Len(headers) : r[i] = headers[i]
  OBVIOUS
<1>3. lists(r) = Append(lists(headers), g.list)
  <2> DEFINE x == lists(r)
             y == Append(lists(headers), g.list)
             n == Len(headers) + 1
  <2>1. x \in Seq(Seq(H)) /\ Len(x) = n /\ \A i \in 1..n : x[i] = r[i].list
    <3> HIDE DEF r
    <3>1. x \in Seq(Seq(H)) /\ Len(x) = Len(r)
      BY <1>1, <1>2
    <3>2. DOMAIN r = 1..Len(r)
      BY <1>2
    <3> QED
      BY <1>2, <3>1, <3>2
  <2>2. g.list \in Seq(H)
    BY DEF Group
  <2>3. lists(headers) \in Seq(Seq(H)) /\ Len(lists(headers)) = Len(headers)
    BY <1>1
  <2>4. \A i \in 1..Len(headers) : lists(headers)[i] = headers[i].list
    OBVIOUS
  <2> DEFINE old == lists(headers)
  <2> HIDE DEF old
  <2>5. Append(old, g.list) \in Seq(Seq(H)) /\ Len(Append(old, g.list)) = n
        /\ Append(old, g.list)[n] = g.list
        /\ \A i \in 1..Len(headers) : Append(old, g.list)[i] = old[i]
    BY <1>2, <2>2, <2>3 DEF old
  <2>6. \A i \in 1..n : i = n \/ i \in 1..Len(headers)
    BY <1>2
  <2>7. \A i \in 1..n : x[i] = Append(old, g.list)[i]
    BY <1>2, <2>1, <2>4, <2>5, <2>6 DEF old
  <2> HIDE DEF x, r
  <2>8. x = Append(old, g.list)
    BY <2>1, <2>5, <2>7, SameSeq
  <2> QED
    BY <2>8 DEF x, old
<1>4. g.list \in Seq(H)
  BY DEF Group
<1>5. lists(headers) \in Seq(Seq(H)) /\ AllHeaders(headers) = Flat(lists(headers))
  BY <1>1
<1>6. AllHeaders(r) = Flat(lists(r))
  BY <1>1, <1>2
<1> DEFINE old == lists(headers)
<1> HIDE DEF old, r
<1>7. Flat(Append(old, g.list)) = Flat(old) \o g.list
  BY <1>4, <1>5, FlatAppend DEF old
<1> QED
  BY <1>3, <1>5, <1>6, <1>7 DEF old, r

\* The headers of a message are put into the groups they are in.
LEMMA Regrouped ==
    ASSUME NEW H, NEW headers \in Neat(H)
    PROVE  AppendAll(<<>>, AllHeaders(headers)) = headers
<1> DEFINE G == Grouped(H)
           again(s) == AppendAll(<<>>, AllHeaders(s))
           K == {s \in Seq(G) : s \in Neat(H) => again(s) = s}
<1>0. <<>> \in Seq(Group(H)) /\ <<>> \in Seq(G)
  OBVIOUS
<1>1. <<>> \in K
  <2>1. AllHeaders(<<>>) = <<>>
    <3>1. Each(LAMBDA g : g.list, <<>>) = <<>>
      BY DEF Each
    <3> QED
      BY <3>1, FlatEmpty DEF AllHeaders
  <2>2. again(<<>>) = <<>>
    BY <1>0, <2>1, AppendAllEmpty
  <2> QED
    BY <1>0, <2>2
<1>2. ASSUME NEW s \in Seq(G), NEW g \in G, s \in K
      PROVE  Append(s, g) \in K
  <2> DEFINE r == Append(s, g)
             n == Len(s)
             all == AllHeaders(s)
             none == <<>>
  <2> SUFFICES ASSUME r \in Neat(H) PROVE again(r) = r
    OBVIOUS
  <2>1. n \in Nat /\ Len(r) = n + 1 /\ r[n + 1] = g /\ \A i \in 1..n : r[i] = s[i]
    OBVIOUS
  <2>2. Distinct(r) /\ \A i \in 1..Len(r) : r[i].list # <<>>
    BY DEF Neat
  <2> HIDE DEF r
  <2>3. \A i \in 1..n : i \in 1..Len(r) /\ i # n + 1
    BY <2>1
  <2>4. n + 1 \in 1..Len(r)
    BY <2>1
  <2>5. g.list # <<>> /\ \A i \in 1..n : s[i].name # g.name
    BY <2>1, <2>2, <2>3, <2>4, Zenon DEF Distinct
  <2>6. s \in Neat(H)
    <3>1. Distinct(s)
      BY <2>1, <2>2, <2>3, Zenon DEF Distinct
    <3>2. \A i \in 1..Len(s) : s[i].list # <<>>
      BY <2>1, <2>2, <2>3
    <3> QED
      BY <3>1, <3>2 DEF Neat
  <2>7. AppendAll(none, all) = s
    BY <1>2, <2>6
  <2>8. s \in Seq(Group(H)) /\ none \in Seq(Group(H)) /\ g \in Group(H)
    BY GroupedAreGroups DEF Grouped
  <2>9. g.list \in Seq(Named(H, g.name)) /\ g.list \in Seq(H)
    BY DEF Grouped, Group
  <2>10. AllHeaders(r) = all \o g.list /\ all \in Seq(H)
    BY <2>8, AllAppend, AllHeadersType DEF r
  <2>11. GroupAt(s, g.name) = 0
    BY <2>5, <2>8, GroupAtIn
  <2>12. AppendAll(s, g.list) = Append(s, [name |-> g.name, list |-> g.list])
    BY <2>5, <2>8, <2>9, <2>11, NewGroup
  <2>13. g = [name |-> g.name, list |-> g.list]
    BY <2>8 DEF Group
  <2> HIDE DEF none, all
  <2>14. AppendAll(none, all \o g.list) = AppendAll(AppendAll(none, all), g.list)
    BY <2>8, <2>9, <2>10, AppendAllCat
  <2>15. AppendAll(none, AllHeaders(r)) = r
    BY <2>7, <2>10, <2>12, <2>13, <2>14 DEF r
  <2> QED
    BY <2>15 DEF none
<1>3. Seq(G) \subseteq K
  <2> HIDE DEF K
  <2> QED
    BY <1>1, <1>2, SeqInduction
<1>4. headers \in Seq(G)
  BY DEF Neat
<1> QED
  BY <1>3, <1>4

\* A header more, or a sequence of headers more.
LEMMA NeatAppend ==
    ASSUME NEW H, NEW headers \in Neat(H), NEW h \in H
    PROVE  AppendHeader(headers, h) \in Neat(H)
<1> DEFINE n == NameOf(h)
           at == GroupAt(headers, n)
           fresh == [name |-> n, list |-> <<h>>]
           old == headers[at]
           after == AppendHeader(headers, h)
           m == Len(headers)
<1>1. headers \in Seq(Grouped(H)) /\ headers \in Seq(Group(H)) /\ Distinct(headers)
      /\ \A i \in 1..m : headers[i].list # <<>>
  BY GroupedAreGroups DEF Neat
<1>2. after \in Seq(Grouped(H))
  BY <1>1, GroupedAppend
<1>3. \/ at = 0 /\ \A i \in 1..m : headers[i].name # n
      \/ at \in 1..m /\ old.name = n
  BY <1>1, GroupAtIn
<1>4. CASE at = 0 /\ \A i \in 1..m : headers[i].name # n
  <2>1. after = Append(headers, fresh)
    BY <1>4 DEF AppendHeader
  <2>2. fresh.name = n /\ fresh.list # <<>>
    OBVIOUS
  <2> HIDE DEF fresh, n, after
  <2>3. m \in Nat /\ Len(after) = m + 1 /\ after[m + 1] = fresh /\ \A i \in 1..m : after[i] = headers[i]
    BY <1>1, <2>1
  <2> HIDE DEF m
  <2>4. \A i \in 1..Len(after) : i = m + 1 \/ i \in 1..m
    BY <2>3
  <2>5. \A i \in 1..m : after[i].name = headers[i].name /\ headers[i].name # n
    BY <1>4, <2>3
  <2>6. Distinct(after)
    <3>1. \A i, j \in 1..m : headers[i].name = headers[j].name => i = j
      BY <1>1 DEF Distinct, m
    <3> QED
      BY <2>2, <2>3, <2>4, <2>5, <3>1, Zenon DEF Distinct
  <2>7. \A i \in 1..Len(after) : after[i].list # <<>>
    BY <1>1, <2>2, <2>3, <2>4
  <2> QED
    BY <1>2, <2>6, <2>7 DEF Neat, after
<1>5. CASE at \in 1..m /\ old.name = n
  <2> DEFINE new == [old EXCEPT !.list = Append(@, h)]
  <2>1. old \in Group(H)
    BY <1>1, <1>5
  <2>2. after = [headers EXCEPT ![at] = new]
    BY <1>5 DEF AppendHeader
  <2>3. new.name = old.name /\ new.list = Append(old.list, h) /\ old.list \in Seq(H)
    <3> HIDE DEF old
    <3> QED
      BY <2>1 DEF Group
  <2>4. Append(old.list, h) # <<>>
    <3> DEFINE l == old.list
    <3>1. l \in Seq(H)
      BY <2>3
    <3> HIDE DEF l
    <3>2. Len(Append(l, h)) = Len(l) + 1 /\ Len(l) \in Nat
      BY <3>1
    <3>3. Append(l, h) # <<>>
      BY <3>2
    <3> QED
      BY <3>3 DEF l
  <2> HIDE DEF new, at, after
  <2>5. Len(after) = m /\ \A i \in 1..m : after[i] = IF i = at THEN new ELSE headers[i]
    BY <1>1, <2>2
  <2>6. \A i \in 1..m : after[i].name = headers[i].name /\ after[i].list # <<>>
    BY <1>1, <2>3, <2>4, <2>5
  <2>7. Distinct(after)
    <3> HIDE DEF m
    <3>1. \A i, j \in 1..m : headers[i].name = headers[j].name => i = j
      BY <1>1 DEF Distinct, m
    <3> QED
      BY <2>5, <2>6, <3>1, Zenon DEF Distinct
  <2> QED
    BY <1>2, <2>5, <2>6, <2>7 DEF Neat, after
<1> QED
  BY <1>3, <1>4, <1>5

\* So do several.
LEMMA NeatAll ==
    ASSUME NEW H, NEW headers \in Neat(H), NEW hdrs \in Seq(H)
    PROVE  AppendAll(headers, hdrs) \in Neat(H)
<1> DEFINE K == {s \in Seq(H) : AppendAll(headers, s) \in Neat(H)}
<1>0. headers \in Seq(Group(H))
  BY GroupedAreGroups DEF Neat
<1>1. <<>> \in K
  <2>1. AppendAll(headers, <<>>) = headers /\ <<>> \in Seq(H)
    BY <1>0, AppendAllEmpty
  <2> QED
    BY <2>1
<1>2. ASSUME NEW s \in Seq(H), NEW h \in H, s \in K
      PROVE  Append(s, h) \in K
  <2> DEFINE a == AppendAll(headers, s)
  <2>1. a \in Neat(H)
    BY <1>2
  <2>2. AppendAll(headers, Append(s, h)) = AppendHeader(a, h) /\ Append(s, h) \in Seq(H)
    BY <1>0, AppendAllAppend
  <2> HIDE DEF a
  <2>3. AppendHeader(a, h) \in Neat(H)
    BY <2>1, NeatAppend
  <2> QED
    BY <2>2, <2>3
<1>3. Seq(H) \subseteq K
  <2> HIDE DEF K
  <2> QED
    BY <1>1, <1>2, SeqInduction
<1> QED
  BY <1>3

\* No headers are neat.
LEMMA NoneNeat ==
    ASSUME NEW H
    PROVE  <<>> \in Neat(H)
  BY EmptySeq DEF Neat, Distinct

\* One header takes the place of the first of its name.
LEMMA NeatReplace ==
    ASSUME NEW H, NEW headers \in Neat(H), NEW h \in H, GetHeaders(headers, NameOf(h)) # <<>>
    PROVE  ReplaceFirst(headers, h) \in Neat(H)
<1> DEFINE n == NameOf(h)
           at == GroupAt(headers, n)
           old == headers[at]
           new == [old EXCEPT !.list[1] = h]
           after == ReplaceFirst(headers, h)
           m == Len(headers)
<1>1. headers \in Seq(Grouped(H)) /\ headers \in Seq(Group(H)) /\ Distinct(headers)
      /\ \A i \in 1..m : headers[i].list # <<>>
  BY GroupedAreGroups DEF Neat
<1>2. after \in Seq(Grouped(H))
  BY <1>1, GroupedReplace
<1>3. at \in 1..m /\ old.name = n
  BY <1>1, GroupAtIn DEF GetHeaders
<1>4. after = [headers EXCEPT ![at] = new]
  BY <1>3 DEF ReplaceFirst
<1>5. old \in Group(H) /\ old.list # <<>>
  BY <1>1, <1>3
<1>6. new.name = old.name /\ new.list # <<>>
  <2> HIDE DEF old
  <2>1. old.list \in Seq(H) /\ 1 \in DOMAIN old.list
    BY <1>5, EmptySeq DEF Group
  <2> DEFINE list == [old.list EXCEPT ![1] = h]
  <2>2. new.name = old.name /\ new.list = list
    BY <1>5 DEF Group
  <2>3. DOMAIN list = DOMAIN old.list
    OBVIOUS
  <2> HIDE DEF list, new
  <2> QED
    BY <2>1, <2>2, <2>3
<1> HIDE DEF new, at, after
<1>7. Len(after) = m /\ \A i \in 1..m : after[i] = IF i = at THEN new ELSE headers[i]
  BY <1>1, <1>4
<1>8. \A i \in 1..m : after[i].name = headers[i].name /\ after[i].list # <<>>
  BY <1>1, <1>6, <1>7
<1>9. Distinct(after)
  <2> HIDE DEF m
  <2>1. \A i, j \in 1..m : headers[i].name = headers[j].name => i = j
    BY <1>1 DEF Distinct, m
  <2> QED
    BY <1>7, <1>8, <2>1, Zenon DEF Distinct
<1> QED
  BY <1>2, <1>7, <1>8, <1>9 DEF Neat, after

\* Neat groups of some headers are such of more.
LEMMA NeatWider ==
    ASSUME NEW H, NEW T, H \subseteq T, NEW headers \in Neat(H)
    PROVE  headers \in Neat(T)
<1>1. headers \in Seq(Grouped(H))
  BY DEF Neat
<1>2. headers \in Seq(Grouped(T))
  BY <1>1, WiderGroups
<1> QED
  BY <1>2 DEF Neat

-----------------------------------------------------------------------------
(* Clones *)

\* URIs with both lists; addresses of such; hops; a list that may be nil.
WholeURIs(T) == {u \in URIs(T) : Len(u.params) = 1 /\ Len(u.headers) = 1}
WholeAddresses(T) == {a \in Addresses(T) : a.uri \in WholeURIs(T) /\ Len(a.params) <= 1}

\* A header as the parsers and the builders make it: an address with a whole
\* URI, hops, at least one route, and no header of a route that is none.
Sound(T, h) ==
    /\ h.kind \in AddressKinds => h.val \in WholeAddresses(T)
    /\ h.kind = ViaName => h.val \in Seq(WholeHops(T))
    /\ h.kind \in RouteKinds => h.val \in Seq(WholeURIs(T)) /\ h.val # <<>>
    /\ NameOf(h) \in RouteKinds => h.kind \in RouteKinds
\* The tokens do not matter.
IsSound(h) == \E T : Sound(T, h)
IsWhole(uri) == \E T : uri \in WholeURIs(T)

\* A sequence of one element, and of none.
LEMMA OneElement ==
    ASSUME NEW S, NEW s \in Seq(S), Len(s) = 1
    PROVE  s = Some(s[1]) /\ s # Nil /\ s[1] \in S
<1>1. 1 \in 1..Len(s) /\ s[1] \in S
  BY ElementOfSeq
<1> DEFINE x == s[1]
<1>2. <<x>> \in Seq(S) /\ Len(<<x>>) = 1 /\ <<x>>[1] = x
  BY <1>1
<1>3. \A i \in 1..Len(s) : s[i] = <<x>>[i]
  BY <1>2
<1>4. s # <<>>
  BY EmptySeq
<1> HIDE DEF x
<1>5. s = <<x>>
  BY <1>2, <1>3, SameSeq
<1> QED
  BY <1>1, <1>4, <1>5 DEF Some, Nil, x
\* A sequence of at most one element that has not one is empty.
LEMMA NoElement ==
    ASSUME NEW S, NEW s \in Seq(S), Len(s) <= 1, Len(s) # 1
    PROVE  s = Nil
<1> DEFINE n == Len(s)
<1>0. n \in Nat /\ n <= 1 /\ n # 1
  BY LenProperties
<1>1. n = 0
  <2> HIDE DEF n
  <2> QED
    BY <1>0
<1> QED
  BY <1>1, EmptySeq DEF Nil

\* A list that may be nil is cloned as it is.
LEMMA CloneMaybeIs ==
    ASSUME NEW T, NEW params \in Seq(Lists(T)), Len(params) <= 1
    PROVE  /\ CloneMaybe(params) = params
           /\ params # Nil => CloneOrEmpty(params) = params
<1> DEFINE S == Lists(T)
<1>1. CASE Len(params) = 1
  <2>1. params = Some(params[1]) /\ params # Nil /\ params[1] \in S
    BY <1>1, OneElement
  <2>2. CloneParams(params[1]) = params[1]
    BY <2>1, CloneParamsIs
  <2> QED
    BY <2>1, <2>2 DEF CloneMaybe, CloneOrEmpty
<1>2. CASE Len(params) # 1
  <2> HIDE DEF S
  <2>1. params = Nil
    BY <1>2, NoElement
  <2> QED
    BY <2>1 DEF CloneMaybe
<1> QED
  BY <1>1, <1>2

\* A URI with both lists is cloned as it is.
LEMMA CloneURIIs ==
    ASSUME NEW T, NEW uri \in WholeURIs(T)
    PROVE  CloneURI(uri) = uri
<1>1. uri \in URIs(T) /\ Len(uri.params) = 1 /\ Len(uri.headers) = 1
  BY DEF WholeURIs
<1>2. uri.params \in Seq(Lists(T)) /\ uri.headers \in Seq(Lists(T))
  BY <1>1 DEF URIs
<1>3. CloneOrEmpty(uri.params) = uri.params /\ CloneOrEmpty(uri.headers) = uri.headers
  <2>1. ASSUME NEW params \in Seq(Lists(T)), Len(params) = 1
        PROVE  CloneOrEmpty(params) = params
    <3> DEFINE L == Lists(T)
    <3>1. params # Nil
      <4> HIDE DEF L
      <4>1. params \in Seq(L)
        BY DEF L
      <4> QED
        BY <2>1, <4>1, OneElement
    <3>2. Len(params) <= 1
      BY <2>1
    <3> QED
      BY <2>1, <3>1, <3>2, CloneMaybeIs
  <2> QED
    BY <1>1, <1>2, <2>1
<1>4. CloneURI(uri) = [uri EXCEPT !.params = CloneOrEmpty(uri.params),
                                  !.headers = CloneOrEmpty(uri.headers)]
  BY <1>1 DEF CloneURI, URIs
<1> QED
  BY <1>1, <1>3, <1>4 DEF URIs

\* So is an address, and so a hop.
LEMMA CloneAddressIs ==
    ASSUME NEW T, NEW addr \in WholeAddresses(T)
    PROVE  CloneAddress(addr) = addr
<1>1. addr \in Addresses(T) /\ addr.uri \in WholeURIs(T) /\ Len(addr.params) <= 1
  BY DEF WholeAddresses
<1>2. addr.params \in Seq(Lists(T)) /\ addr = [name |-> addr.name, uri |-> addr.uri,
                                              params |-> addr.params]
  BY <1>1 DEF Addresses
<1>3. CloneURI(addr.uri) = addr.uri
  BY <1>1, CloneURIIs
<1>4. CloneMaybe(addr.params) = addr.params
  BY <1>1, <1>2, CloneMaybeIs
<1> QED
  BY <1>2, <1>3, <1>4 DEF CloneAddress
\* So is a hop.
LEMMA CloneHopIs ==
    ASSUME NEW T, NEW hop \in WholeHops(T)
    PROVE  CloneHop(hop) = hop
<1>1. hop \in Hops(T) /\ Len(hop.params) <= 1
  BY DEF WholeHops
<1>2. hop.params \in Seq(Lists(T))
  BY <1>1 DEF Hops
<1>3. CloneMaybe(hop.params) = hop.params
  BY <1>1, <1>2, CloneMaybeIs
<1>4. CloneHop(hop) = [hop EXCEPT !.params = CloneMaybe(hop.params)]
  BY <1>1 DEF CloneHop, Hops
<1> QED
  BY <1>1, <1>3, <1>4 DEF Hops

\* Parameters equal themselves.
LEMMA SameItself ==
    ASSUME NEW T, NEW params \in Lists(T)
    PROVE  SameParams(params, params)
<1>1. params \in Seq(Param(T)) /\ \A i, j \in 1..Len(params) : params[i].key = params[j].key => i = j
  BY DEF Lists
<1>2. ASSUME NEW i \in DOMAIN params
      PROVE  Has(params, params[i].key) /\ Get(params, params[i].key) = params[i].val
  <2> DEFINE key == params[i].key
             k == KeyAt(params, key)
  <2>1. i \in 1..Len(params)
    BY <1>1
  <2>2. k = 0 \/ k \in 1..Len(params)
    BY <1>1, KeyAtIn
  <2>3. IF k = 0 THEN \A j \in 1..Len(params) : params[j].key # key ELSE params[k].key = key
    BY <1>1, KeyAtIs
  <2>4. k # 0
    BY <2>1, <2>3
  <2>5. k = i
    BY <1>1, <2>1, <2>2, <2>3, <2>4
  <2> QED
    BY <2>4, <2>5 DEF Has, Get
<1> QED
  BY <1>2 DEF SameParams
\* So does a list that may be nil.
LEMMA MaybeItself ==
    ASSUME NEW T, NEW params \in Seq(Lists(T))
    PROVE  EqualMaybe(params, params) /\ EqualParts(params, params)
<1>1. CASE params = Nil
  BY <1>1 DEF EqualMaybe, EqualParts
<1>2. CASE params # Nil
  <2> DEFINE L == Lists(T)
  <2>0. params \in Seq(L)
    OBVIOUS
  <2> HIDE DEF L
  <2>1. params[1] \in L
    BY <1>2, <2>0 DEF Nil
  <2>2. SameParams(params[1], params[1])
    BY <2>1, SameItself DEF L
  <2> QED
    BY <1>2, <2>2 DEF EqualMaybe, EqualParts
<1> QED
  BY <1>1, <1>2
\* A URI equals itself.
LEMMA URIItself ==
    ASSUME NEW T, NEW uri \in URIs(T)
    PROVE  EqualURI(uri, uri)
<1>1. uri.params \in Seq(Lists(T)) /\ uri.headers \in Seq(Lists(T))
  BY DEF URIs
<1> QED
  BY <1>1, MaybeItself DEF EqualURI

\* The Clone of a sound header panics on routes and on nothing else; else it is
\* the header, but for what the interface holds.
LEMMA PanicsOnRoutes ==
    ASSUME NEW T, NEW h, Sound(T, h)
    PROVE  ClonePanics(h) <=> NameOf(h) \in RouteKinds
<1>1. h.kind \in RouteKinds => h.kind # "Generic"
  BY DEF RouteKinds
<1> QED
  BY <1>1 DEF Sound, ClonePanics, NameOf

\* Else Clone gives the header, but for what the interface holds.
LEMMA CloneIs ==
    ASSUME NEW T, NEW h, Sound(T, h), h.kind \notin RouteKinds
    PROVE  /\ CloneHeader(h).kind = h.kind /\ CloneHeader(h).val = h.val
           /\ h.kind \in {"Allow", "X-GB-Ver"} =>
                CloneHeader(h).ptr = (h.kind \notin {"Via", "Allow"})
           /\ h.kind \notin AddressKinds \cup {"Via", "Allow", "Supported", "X-GB-Ver", "CSeq", "Generic"} => CloneHeader(h) = h
<1>0. "Via" \notin AddressKinds /\ ViaName = "Via"
  BY DEF AddressKinds, ViaName
<1>1. CASE h.kind \in AddressKinds
  <2>1. CloneAddress(h.val) = h.val
    BY <1>1, CloneAddressIs DEF Sound
  <2>3. h.kind \notin {"Via", "Allow", "Supported", "X-GB-Ver", "CSeq", "Generic"}
    BY <1>1 DEF AddressKinds
  <2>2. CloneHeader(h) = Header(h.kind, h.val)
    BY <1>1, <2>1, <2>3 DEF CloneHeader
  <2> QED
    BY <1>1, <2>2, <2>3 DEF Header
<1>2. CASE h.kind = "Via"
  <2> DEFINE hops == h.val
             dup == [i \in DOMAIN hops |-> CloneHop(hops[i])]
             W == WholeHops(T)
  <2>1. hops \in Seq(W)
    BY <1>0, <1>2 DEF Sound
  <2>2. \A i \in DOMAIN hops : CloneHop(hops[i]) = hops[i]
    BY <2>1, CloneHopIs
  <2> HIDE DEF W
  <2>3. dup = hops
    BY <2>1, <2>2
  <2>4. CloneHeader(h) = Header(h.kind, h.val)
    BY <1>0, <1>2, <2>3 DEF CloneHeader, Each
  <2> QED
    BY <1>2, <2>4 DEF Header
<1>3. CASE h.kind \in {"Allow", "Supported", "X-GB-Ver", "CSeq", "Generic"}
  <2>1. h.kind \notin AddressKinds /\ h.kind # "Via"
    BY <1>3 DEF AddressKinds
  <2>2. CloneHeader(h) = Header(h.kind, h.val)
    BY <1>3, <2>1 DEF CloneHeader
  <2> QED
    BY <1>3, <2>2 DEF Header
<1>4. CASE h.kind \notin AddressKinds \cup {"Via", "Allow", "Supported", "X-GB-Ver", "CSeq", "Generic"}
  <2>1. CloneHeader(h) = h
    BY <1>4 DEF CloneHeader
  <2> QED
    BY <1>4, <2>1
<1> QED
  BY <1>1, <1>2, <1>3, <1>4

\* It is written as the header is and has its name.
LEMMA CloneText ==
    ASSUME NEW T, NEW h, Sound(T, h), h.kind \notin RouteKinds
    PROVE  HeaderText(CloneHeader(h)) = HeaderText(h) /\ NameOf(CloneHeader(h)) = NameOf(h)
<1> DEFINE dup == CloneHeader(h)
<1>1. dup.kind = h.kind /\ dup.val = h.val
  BY CloneIs
<1> HIDE DEF dup
<1>2. NameOf(dup) = NameOf(h) /\ ValueText(dup) = ValueText(h)
  BY <1>1 DEF NameOf, ValueText
<1> QED
  BY <1>2 DEF HeaderText, dup

\* It equals the header both ways, as CloneIsEqual says.
LEMMA CloneEquals ==
    ASSUME NEW T, NEW h, Sound(T, h), h.kind \notin RouteKinds
    PROVE  IF h.kind = "X-GB-Ver" THEN ~EqualHeader(h, CloneHeader(h))
           ELSE /\ EqualHeader(h, CloneHeader(h))
                /\ EqualHeader(CloneHeader(h), h) \/ (h.kind = "Allow" /\ h.ptr)
<1> DEFINE dup == CloneHeader(h)
<1>1. dup.kind = h.kind /\ dup.val = h.val
      /\ (h.kind \in {"Allow", "X-GB-Ver"} => dup.ptr = (h.kind \notin {"Via", "Allow"}))
  BY CloneIs
<1> HIDE DEF dup
<1>2. /\ h.kind \in AddressKinds => h.kind \notin {"Via", "Allow", "X-GB-Ver"}
      /\ ViaName = "Via"
  BY DEF AddressKinds, ViaName
<1>3. CASE h.kind = "X-GB-Ver"
  <2>1. dup.ptr
    BY <1>1, <1>3
  <2> QED
    BY <1>2, <1>3, <2>1 DEF EqualHeader, dup
<1>4. CASE h.kind = "Allow"
  <2>1. ~dup.ptr
    BY <1>1, <1>4
  <2> QED
    BY <1>1, <1>2, <1>4, <2>1 DEF EqualHeader, dup
<1>5. CASE h.kind \in AddressKinds
  <2>1. h.val.uri \in URIs(T) /\ h.val.params \in Seq(Lists(T))
    BY <1>5 DEF Sound, WholeAddresses, Addresses
  <2>2. EqualURI(h.val.uri, h.val.uri) /\ EqualMaybe(h.val.params, h.val.params)
    BY <2>1, URIItself, MaybeItself
  <2>3. EqualAddress(h.val, h.val)
    BY <2>2 DEF EqualAddress
  <2> QED
    BY <1>1, <1>2, <1>5, <2>3 DEF EqualHeader, dup
<1>6. CASE h.kind = "Via"
  <2> DEFINE W == WholeHops(T)
             hops == h.val
  <2>1. hops \in Seq(W)
    BY <1>2, <1>6 DEF Sound
  <2>2. \A i \in DOMAIN hops : EqualHop(hops[i], hops[i])
    <3> SUFFICES ASSUME NEW i \in DOMAIN hops PROVE EqualHop(hops[i], hops[i])
      OBVIOUS
    <3>1. hops[i] \in W
      <4> HIDE DEF W, hops
      <4> QED
        BY <2>1
    <3>2. hops[i].params \in Seq(Lists(T))
      BY <3>1 DEF WholeHops, Hops
    <3>3. EqualMaybe(hops[i].params, hops[i].params)
      BY <3>2, MaybeItself
    <3> QED
      BY <3>3 DEF EqualHop
  <2> QED
    BY <1>1, <1>2, <1>6, <2>2 DEF EqualHeader, dup
<1>7. CASE h.kind \notin AddressKinds \cup {"Via", "Allow", "X-GB-Ver"}
  BY <1>1, <1>7 DEF EqualHeader, dup
<1> QED
  BY <1>3, <1>4, <1>5, <1>6, <1>7

-----------------------------------------------------------------------------
(* The elements of sequences *)

\* What Range gives for sequences.
LEMMA RangeIs ==
    ASSUME NEW T, NEW s \in Seq(T)
    PROVE  Range(s) = {s[i] : i \in 1..Len(s)} /\ Range(s) \subseteq T
<1>1. \A i \in 1..Len(s) : s[i] \in T
  BY ElementOfSeq
<1> QED
  BY <1>1 DEF Range
\* The elements of a concatenation.
LEMMA RangeCat ==
    ASSUME NEW T, NEW u \in Seq(T), NEW v \in Seq(T)
    PROVE  Range(u \o v) = Range(u) \cup Range(v)
<1> DEFINE w == u \o v
<1>1. w \in Seq(T) /\ Len(w) = Len(u) + Len(v) /\ Len(u) \in Nat /\ Len(v) \in Nat
  BY CatType
<1>2. \A i \in 1..Len(u) : w[i] = u[i]
  BY CatLeft
<1>3. \A i \in 1..Len(v) : w[Len(u) + i] = v[i]
  BY CatRight
<1>4. Range(w) = {w[i] : i \in 1..Len(w)}
  BY <1>1, RangeIs
<1>5. Range(u) = {u[i] : i \in 1..Len(u)} /\ Range(v) = {v[i] : i \in 1..Len(v)}
  BY RangeIs
<1> HIDE DEF w
<1>6. ASSUME NEW x \in Range(w)
      PROVE  x \in Range(u) \cup Range(v)
  <2>1. PICK i \in 1..Len(w) : x = w[i]
    BY <1>4
  <2>2. CASE i \in 1..Len(u)
    BY <1>2, <1>5, <2>1, <2>2
  <2>3. CASE i \notin 1..Len(u)
    <3>1. i - Len(u) \in 1..Len(v) /\ i = Len(u) + (i - Len(u))
      BY <1>1, <2>3
    <3>2. x = v[i - Len(u)]
      BY <1>3, <2>1, <3>1
    <3> QED
      BY <1>5, <3>1, <3>2
  <2> QED
    BY <2>2, <2>3
<1>7. ASSUME NEW x \in Range(u)
      PROVE  x \in Range(w)
  <2>1. PICK i \in 1..Len(u) : x = u[i]
    BY <1>5
  <2>2. i \in 1..Len(w) /\ x = w[i]
    BY <1>1, <1>2, <2>1
  <2> QED
    BY <1>4, <2>2
<1>8. ASSUME NEW x \in Range(v)
      PROVE  x \in Range(w)
  <2>1. PICK i \in 1..Len(v) : x = v[i]
    BY <1>5
  <2>2. Len(u) + i \in 1..Len(w) /\ x = w[Len(u) + i]
    BY <1>1, <1>3, <2>1
  <2> QED
    BY <1>4, <2>2
<1> QED
  BY <1>6, <1>7, <1>8 DEF w
\* The elements with one more.
LEMMA RangeAppend ==
    ASSUME NEW T, NEW s \in Seq(T), NEW t \in T
    PROVE  Range(Append(s, t)) = Range(s) \cup {t}
<1> DEFINE one == <<t>>
<1>1. one \in Seq(T) /\ Append(s, t) = s \o one /\ Len(one) = 1 /\ one[1] = t
  OBVIOUS
<1>2. Range(one) = {t}
  BY DEF Range
<1> HIDE DEF one
<1> QED
  BY <1>1, <1>2, RangeCat

\* Flat has the elements of its parts.
LEMMA FlatRange ==
    ASSUME NEW T, NEW seqs \in Seq(Seq(T))
    PROVE  Range(Flat(seqs)) = UNION {Range(s) : s \in Range(seqs)}
<1> DEFINE S == Seq(T)
           parts(s) == UNION {Range(x) : x \in Range(s)}
           K == {s \in Seq(S) : Range(Flat(s)) = parts(s)}
<1>1. <<>> \in K
  <2>1. Range(<<>>) = {} /\ <<>> \in Seq(S)
    BY DEF Range
  <2> QED
    BY <2>1, FlatEmpty
<1>2. ASSUME NEW s \in Seq(S), NEW t \in S, s \in K
      PROVE  Append(s, t) \in K
  <2> DEFINE r == Append(s, t)
             f == Flat(s)
  <2>1. r \in Seq(S) /\ Range(r) = Range(s) \cup {t}
    BY RangeAppend
  <2>2. f \in Seq(T) /\ Flat(r) = f \o t
    BY FlatType, FlatAppend
  <2>3. Range(f) = parts(s)
    BY <1>2
  <2> HIDE DEF r, f, K
  <2>4. Range(Flat(r)) = Range(f) \cup Range(t)
    BY <2>2, RangeCat
  <2>5. parts(r) = parts(s) \cup Range(t)
    BY <2>1
  <2>6. Range(Flat(r)) = parts(r)
    BY <2>3, <2>4, <2>5
  <2> QED
    BY <2>1, <2>6 DEF K, r
<1>3. Seq(S) \subseteq K
  <2> HIDE DEF K
  <2> QED
    BY <1>1, <1>2, SeqInduction
<1> QED
  BY <1>3

\* The headers of a message are those of its groups.
LEMMA AllRange ==
    ASSUME NEW H, NEW headers \in Seq(Group(H))
    PROVE  Range(AllHeaders(headers)) = UNION {Range(headers[i].list) : i \in 1..Len(headers)}
<1> DEFINE lists == [i \in DOMAIN headers |-> headers[i].list]
<1>1. AllHeaders(headers) = Flat(lists)
  BY DEF AllHeaders, Each
<1>2. DOMAIN headers = 1..Len(headers) /\ Len(headers) \in Nat
      /\ \A i \in 1..Len(headers) : headers[i].list \in Seq(H)
  <2>1. \A i \in 1..Len(headers) : headers[i] \in Group(H)
    BY ElementOfSeq
  <2> QED
    BY <2>1 DEF Group
<1>3. lists \in Seq(Seq(H)) /\ DOMAIN lists = 1..Len(headers)
      /\ \A i \in 1..Len(headers) : lists[i] = headers[i].list
  BY <1>2
<1> HIDE DEF lists
<1>4. Range(Flat(lists)) = UNION {Range(s) : s \in Range(lists)}
  BY <1>3, FlatRange
<1>5. Range(lists) = {headers[i].list : i \in 1..Len(headers)}
  BY <1>3 DEF Range
<1> QED
  BY <1>1, <1>4, <1>5

\* A name that a header of a neat message has is one that GetHeaders finds.
LEMMA NeatGet ==
    ASSUME NEW H, NEW headers \in Neat(H)
    PROVE  /\ \A h \in Range(AllHeaders(headers)) :
                    h \in H /\ GetHeaders(headers, NameOf(h)) # <<>>
           /\ \A name : GetHeaders(headers, name) # <<>> =>
                    \E h \in Range(AllHeaders(headers)) : NameOf(h) = name
<1>0. headers \in Seq(Grouped(H)) /\ \A i \in 1..Len(headers) : headers[i].list # <<>>
  BY DEF Neat
<1>1. headers \in Seq(Group(H))
  BY <1>0, GroupedAreGroups
<1> DEFINE all == Range(AllHeaders(headers))
<1>2. all = UNION {Range(headers[i].list) : i \in 1..Len(headers)}
  BY <1>1, AllRange
<1>3. \A i \in 1..Len(headers) : headers[i].list \in Seq(Named(H, headers[i].name))
  <2>1. \A i \in 1..Len(headers) : headers[i] \in Grouped(H)
    BY <1>0, ElementOfSeq
  <2> QED
    BY <2>1 DEF Grouped
<1> HIDE DEF all
<1>4. ASSUME NEW h \in all
      PROVE  h \in H /\ GetHeaders(headers, NameOf(h)) # <<>>
  <2>1. PICK i \in 1..Len(headers) : h \in Range(headers[i].list)
    BY <1>2
  <2> DEFINE N == Named(H, headers[i].name)
  <2>2. headers[i].list \in Seq(N)
    BY <1>3
  <2> HIDE DEF N
  <2>3. h \in N
    BY <2>1, <2>2, RangeIs
  <2>4. h \in H /\ NameOf(h) = headers[i].name
    BY <2>3 DEF N, Named
  <2> DEFINE at == GroupAt(headers, NameOf(h))
  <2>5. at \in 1..Len(headers)
    BY <1>1, <2>4, GroupAtIn
  <2>6. GetHeaders(headers, NameOf(h)) = headers[at].list
    BY <2>5 DEF GetHeaders
  <2> HIDE DEF at
  <2> QED
    BY <1>0, <2>4, <2>5, <2>6
<1>5. ASSUME NEW name, GetHeaders(headers, name) # <<>>
      PROVE  \E h \in all : NameOf(h) = name
  <2> DEFINE at == GroupAt(headers, name)
             list == headers[at].list
             N == Named(H, name)
  <2>1. at \in 1..Len(headers) /\ headers[at].name = name
    BY <1>1, <1>5, GroupAtIn DEF GetHeaders
  <2>2. list \in Seq(N) /\ list # <<>>
    BY <1>0, <1>3, <2>1
  <2>3. Range(list) \subseteq all
    BY <1>2, <2>1
  <2> HIDE DEF list, N, at
  <2>4. 1 \in DOMAIN list /\ list[1] \in N
    BY <2>2, EmptySeq, ElementOfSeq
  <2>5. list[1] \in all
    BY <2>3, <2>4 DEF Range
  <2> QED
    BY <2>4, <2>5 DEF N, Named
<1> QED
  BY <1>4, <1>5 DEF all

\* The clones of headers; groups of such.
Clones(s) == Each(CloneHeader, s)
CloneGroup(g) == [name |-> g.name, list |-> Clones(g.list)]
CloneGroups(headers) == Each(CloneGroup, headers)
Dups(H) == {CloneHeader(h) : h \in H}

\* The parts of a cloned group.
LEMMA CloneGroupIs ==
    ASSUME NEW g
    PROVE  CloneGroup(g).name = g.name /\ CloneGroup(g).list = Clones(g.list)
<1> DEFINE x == g.name
           y == Clones(g.list)
<1>1. CloneGroup(g) = [name |-> x, list |-> y]
  BY DEF CloneGroup
<1> HIDE DEF x, y
<1>2. CloneGroup(g).name = x /\ CloneGroup(g).list = y
  BY <1>1
<1> QED
  BY <1>2 DEF x, y

\* The clones of a sequence of headers, one by one.
LEMMA ClonesAre ==
    ASSUME NEW H, NEW s \in Seq(H)
    PROVE  Clones(s) \in Seq(Dups(H)) /\ Len(Clones(s)) = Len(s)
           /\ \A i \in 1..Len(s) : Clones(s)[i] = CloneHeader(s[i])
<1> DEFINE D == Dups(H)
           n == Len(s)
           f(i) == CloneHeader(s[i])
<1>1. Clones(s) = [i \in 1..n |-> f(i)] /\ n \in Nat
  BY DEF Clones, Each
<1>2. \A i \in 1..n : f(i) \in D
  <2>1. \A i \in 1..n : s[i] \in H
    BY ElementOfSeq
  <2> QED
    BY <2>1 DEF Dups
<1> HIDE DEF D, n, f
<1>3. Clones(s) \in Seq(D) /\ Len(Clones(s)) = n /\ \A i \in 1..n : Clones(s)[i] = f(i)
  BY <1>1, <1>2
<1> QED
  BY <1>3 DEF D, n, f
\* The clones of a concatenation.
LEMMA ClonesCat ==
    ASSUME NEW H, NEW u \in Seq(H), NEW v \in Seq(H)
    PROVE  Clones(u \o v) = Clones(u) \o Clones(v)
<1> DEFINE w == u \o v
           cu == Clones(u)
           cv == Clones(v)
           cw == Clones(w)
           D == Dups(H)
<1>1. w \in Seq(H) /\ Len(w) = Len(u) + Len(v) /\ Len(u) \in Nat /\ Len(v) \in Nat
  BY CatType
<1>2. \A i \in 1..Len(u) : w[i] = u[i]
  BY CatLeft
<1>3. \A i \in 1..Len(v) : w[Len(u) + i] = v[i]
  BY CatRight
<1> HIDE DEF w
<1>4. cu \in Seq(D) /\ Len(cu) = Len(u) /\ \A i \in 1..Len(u) : cu[i] = CloneHeader(u[i])
  BY ClonesAre
<1>5. cv \in Seq(D) /\ Len(cv) = Len(v) /\ \A i \in 1..Len(v) : cv[i] = CloneHeader(v[i])
  BY ClonesAre
<1>6. cw \in Seq(D) /\ Len(cw) = Len(w) /\ \A i \in 1..Len(w) : cw[i] = CloneHeader(w[i])
  BY <1>1, ClonesAre
<1> HIDE DEF cu, cv, cw, D
<1> DEFINE c == cu \o cv
<1>7. c \in Seq(D) /\ Len(c) = Len(cu) + Len(cv)
  BY <1>4, <1>5, CatType
<1>8. \A i \in 1..Len(cu) : c[i] = cu[i]
  BY <1>4, <1>5, CatLeft
<1>9. \A i \in 1..Len(cv) : c[Len(cu) + i] = cv[i]
  BY <1>4, <1>5, CatRight
<1> HIDE DEF c
<1>10. ASSUME NEW i \in 1..Len(cw)
       PROVE  cw[i] = c[i]
  <2>0. cw[i] = CloneHeader(w[i])
    BY <1>6
  <2>1. CASE i \in 1..Len(u)
    <3>1. w[i] = u[i] /\ c[i] = cu[i] /\ cu[i] = CloneHeader(u[i])
      BY <1>2, <1>4, <1>8, <2>1
    <3> QED
      BY <2>0, <3>1
  <2>2. CASE i \notin 1..Len(u)
    <3> DEFINE j == i - Len(u)
    <3>1. j \in 1..Len(v) /\ i = Len(u) + j
      BY <1>1, <1>6, <2>2
    <3> HIDE DEF j
    <3>2. w[i] = v[j] /\ c[i] = cv[j] /\ cv[j] = CloneHeader(v[j])
      BY <1>3, <1>4, <1>5, <1>9, <3>1
    <3> QED
      BY <2>0, <3>2
  <2> QED
    BY <2>1, <2>2
<1>11. Len(cw) = Len(c)
  BY <1>1, <1>4, <1>5, <1>6, <1>7
<1>12. cw = c
  BY <1>6, <1>7, <1>10, <1>11, SameSeq
<1> QED
  BY <1>12 DEF cw, c, cu, cv, w

\* The clones of the headers are the headers of the cloned groups.
LEMMA GroupsAre ==
    ASSUME NEW H, NEW headers \in Seq(Group(H)), \A h \in H : NameOf(CloneHeader(h)) = NameOf(h)
    PROVE  /\ CloneGroups(headers) \in Seq(Group(Dups(H)))
           /\ Len(CloneGroups(headers)) = Len(headers)
           /\ \A i \in 1..Len(headers) : CloneGroups(headers)[i] = CloneGroup(headers[i])
<1> DEFINE D == Dups(H)
           G == Group(D)
           n == Len(headers)
           f(i) == CloneGroup(headers[i])
<1>1. CloneGroups(headers) = [i \in 1..n |-> f(i)] /\ n \in Nat
  BY DEF CloneGroups, Each
<1>2. ASSUME NEW i \in 1..n
      PROVE  f(i) \in G
  <2> DEFINE g == headers[i]
  <2>1. g \in Group(H)
    BY ElementOfSeq
  <2> HIDE DEF g
  <2>2. g.list \in Seq(H) /\ g.name \in Names(H)
    BY <2>1 DEF Group
  <2>3. Clones(g.list) \in Seq(D)
    BY <2>2, ClonesAre
  <2>4. g.name \in Names(D)
    <3>1. PICK h \in H : g.name = NameOf(h)
      BY <2>2 DEF Names
    <3>2. CloneHeader(h) \in D /\ NameOf(CloneHeader(h)) = g.name
      BY <3>1 DEF Dups
    <3> QED
      BY <3>2 DEF Names
  <2> HIDE DEF D
  <2>5. CloneGroup(g) \in G
    BY <2>3, <2>4 DEF CloneGroup, Group
  <2> QED
    BY <2>5 DEF g
<1> HIDE DEF D, n, f, G
<1>3. CloneGroups(headers) \in Seq(G) /\ Len(CloneGroups(headers)) = n
      /\ \A i \in 1..n : CloneGroups(headers)[i] = f(i)
  BY <1>1, <1>2
<1> QED
  BY <1>3 DEF D, n, f, G

\* Their headers are the clones of the headers.
LEMMA AllClones ==
    ASSUME NEW H, NEW headers \in Seq(Group(H)), \A h \in H : NameOf(CloneHeader(h)) = NameOf(h)
    PROVE  AllHeaders(CloneGroups(headers)) = Clones(AllHeaders(headers))
<1> DEFINE G == Group(H)
           D == Dups(H)
           all(s) == AllHeaders(s)
           K == {s \in Seq(G) : all(CloneGroups(s)) = Clones(all(s))}
<1>1. <<>> \in K
  <2>1. AllHeaders(<<>>) = <<>>
    <3>1. AllHeaders(<<>>) = Flat(<<>>)
      BY DEF AllHeaders, Each
    <3> QED
      BY <3>1, FlatEmpty
  <2>2. CloneGroups(<<>>) = <<>> /\ Clones(<<>>) = <<>>
    BY DEF CloneGroups, Clones, Each
  <2> QED
    BY <2>1, <2>2
<1>2. ASSUME NEW s \in Seq(G), NEW g \in G, s \in K
      PROVE  Append(s, g) \in K
  <2> DEFINE r == Append(s, g)
             cs == CloneGroups(s)
             cr == CloneGroups(r)
             cg == CloneGroup(g)
             n == Len(s)
             DG == Group(D)
  <2>1. r \in Seq(G) /\ Len(r) = n + 1 /\ n \in Nat /\ r[n + 1] = g
        /\ \A i \in 1..n : r[i] = s[i]
    OBVIOUS
  <2>2. cs \in Seq(DG) /\ Len(cs) = n /\ \A i \in 1..n : cs[i] = CloneGroup(s[i])
    BY GroupsAre
  <2> HIDE DEF r
  <2>3. cr \in Seq(DG) /\ Len(cr) = Len(r) /\ \A i \in 1..Len(r) : cr[i] = CloneGroup(r[i])
    BY <2>1, GroupsAre
  <2>4. n + 1 \in 1..Len(r)
    BY <2>1
  <2>5. cr[n + 1] = cg
    BY <2>1, <2>3, <2>4
  <2>6. cg \in DG
    <3> HIDE DEF cr, cg, DG
    <3>1. n + 1 \in 1..Len(cr)
      BY <2>3, <2>4
    <3> QED
      BY <2>3, <2>5, <3>1, ElementOfSeq
  <2>7. all(cs) = Clones(all(s))
    BY <1>2
  <2> HIDE DEF cs, cr, cg, DG, n, K
  <2> DEFINE t == Append(cs, cg)
  <2>8. t \in Seq(DG) /\ Len(t) = n + 1 /\ t[n + 1] = cg /\ \A i \in 1..n : t[i] = cs[i]
    <3>1. cs \in Seq(DG)
      BY <2>2
    <3>2. Len(cs) = n
      BY <2>2
    <3> HIDE DEF t
    <3>3. t \in Seq(DG) /\ Len(t) = Len(cs) + 1 /\ t[Len(cs) + 1] = cg
          /\ \A i \in 1..Len(cs) : t[i] = cs[i]
      BY <3>1, <2>6 DEF t
    <3> QED
      BY <3>2, <3>3
  <2> HIDE DEF t
  <2>9. \A i \in 1..(n + 1) : i = n + 1 \/ i \in 1..n
    BY <2>1
  <2>10. \A i \in 1..n : cr[i] = CloneGroup(s[i])
    <3>1. \A i \in 1..n : i \in 1..Len(r)
      BY <2>1
    <3> QED
      BY <2>1, <2>3, <3>1
  <2>11. \A i \in 1..Len(cr) : cr[i] = t[i]
    BY <2>1, <2>2, <2>3, <2>5, <2>8, <2>9, <2>10, Zenon
  <2>12. cr = t
    BY <2>1, <2>3, <2>8, <2>11, SameSeq
  <2>13. all(t) = all(cs) \o cg.list
    BY <2>2, <2>6, AllAppend DEF t, DG
  <2>14. cg.list = Clones(g.list)
    BY DEF cg, CloneGroup
  <2>15. all(s) \in Seq(H) /\ g.list \in Seq(H)
    BY AllHeadersType DEF Group
  <2>16. Clones(all(s) \o g.list) = Clones(all(s)) \o Clones(g.list)
    BY <2>15, ClonesCat
  <2>17. all(r) = all(s) \o g.list
    BY AllAppend DEF r
  <2>18. all(cr) = Clones(all(r))
    BY <2>7, <2>12, <2>13, <2>14, <2>16, <2>17
  <2> QED
    BY <2>1, <2>18 DEF K, cr, r
<1>3. Seq(G) \subseteq K
  <2> HIDE DEF K
  <2> QED
    BY <1>1, <1>2, SeqInduction
<1> QED
  BY <1>3

\* They are neat.
LEMMA GroupsNeat ==
    ASSUME NEW H, NEW headers \in Neat(H), \A h \in H : NameOf(CloneHeader(h)) = NameOf(h)
    PROVE  CloneGroups(headers) \in Neat(Dups(H))
<1> DEFINE D == Dups(H)
           c == CloneGroups(headers)
           n == Len(headers)
<1>0. headers \in Seq(Grouped(H)) /\ Distinct(headers) /\ \A i \in 1..n : headers[i].list # <<>>
  BY DEF Neat
<1>1. headers \in Seq(Group(H))
  BY <1>0, GroupedAreGroups
<1>2. c \in Seq(Group(D)) /\ Len(c) = n /\ \A i \in 1..n : c[i] = CloneGroup(headers[i])
  BY <1>1, GroupsAre
<1> HIDE DEF c
<1>3. \A i \in 1..n : c[i].name = headers[i].name /\ c[i].list = Clones(headers[i].list)
  BY <1>2, CloneGroupIs
<1>4. Distinct(c)
  BY <1>0, <1>2, <1>3 DEF Distinct
<1>5. ASSUME NEW i \in 1..n
      PROVE  c[i] \in Grouped(D) /\ c[i].list # <<>>
  <2> DEFINE g == headers[i]
             N == Named(H, g.name)
             list == g.list
  <2>1. g \in Grouped(H)
    BY <1>0, ElementOfSeq
  <2>2. list \in Seq(N) /\ list # <<>>
    BY <1>0, <2>1 DEF Grouped
  <2> HIDE DEF list, N
  <2>3. Clones(list) \in Seq(Dups(N)) /\ Len(Clones(list)) = Len(list)
    BY <2>2, ClonesAre
  <2>4. Len(list) # 0
    BY <2>2, EmptySeq
  <2>5. Dups(N) \subseteq Named(D, g.name)
    BY DEF Dups, N, Named
  <2>6. Clones(list) \in Seq(Named(D, g.name))
    BY <2>3, <2>5, SeqMonotonic
  <2>7. c[i].name = g.name /\ c[i].list = Clones(list)
    BY <1>3 DEF list
  <2>8. c[i] \in Group(D)
    BY <1>2, ElementOfSeq
  <2>9. Clones(list) # <<>>
    BY <2>3, <2>4, EmptySeq
  <2> QED
    BY <2>6, <2>7, <2>8, <2>9 DEF Grouped
<1>6. c \in Seq(Grouped(D))
  <2> DEFINE GD == Grouped(D)
  <2>1. \A i \in 1..Len(c) : c[i] \in GD
    BY <1>2, <1>5
  <2> HIDE DEF GD
  <2>2. c = [i \in 1..Len(c) |-> c[i]] /\ Len(c) \in Nat
    BY <1>2
  <2>3. c \in Seq(GD)
    BY <2>1, <2>2
  <2> QED
    BY <2>3 DEF GD
<1>7. \A i \in 1..Len(c) : c[i].list # <<>>
  BY <1>2, <1>5
<1> QED
  BY <1>4, <1>6, <1>7 DEF Neat, c

\* A message as it is parsed, built or derived: its headers are sound and in
\* groups, and it announces the body that it has.
SoundMessage(H, msg) ==
    /\ \A h \in H : IsSound(h)
    /\ msg.headers \in Neat(H)
    /\ msg.version = Version
    /\ msg.type \in {"request", "response"}
    /\ msg.type = "request" => IsWhole(msg.recipient)
    /\ msg.body # <<>> =>
        FirstHeader(msg.headers, LengthName) = Some(Header(LengthName, Len(msg.body)))

Cloned(msg) ==
    /\ ClonePanicsOn(msg) <=> \E name \in RouteKinds : GetHeaders(msg.headers, name) # <<>>
    /\ ~ClonePanicsOn(msg) =>
        /\ MessageLines(CloneMessage(msg)) = MessageLines(msg)
        /\ \A i \in DOMAIN AllHeaders(msg.headers) :
            LET h == AllHeaders(msg.headers)[i]
            IN IF h.kind = "X-GB-Ver" THEN ~EqualHeader(h, CloneHeader(h))
               ELSE /\ EqualHeader(h, CloneHeader(h))
                    /\ EqualHeader(CloneHeader(h), h) \/ (h.kind = "Allow" /\ h.ptr)

\* Whatever its kind a clone has the name and the text of the header.
LEMMA CloneNamed ==
    ASSUME NEW h, IsSound(h)
    PROVE  HeaderText(CloneHeader(h)) = HeaderText(h) /\ NameOf(CloneHeader(h)) = NameOf(h)
<1>1. CASE h.kind \in RouteKinds
  <2>1. h.kind \notin AddressKinds \cup {"Via", "Allow", "Supported", "X-GB-Ver", "CSeq", "Generic"}
    BY <1>1 DEF RouteKinds, AddressKinds
  <2>2. CloneHeader(h) = h
    BY <2>1 DEF CloneHeader
  <2> QED
    BY <2>2
<1>2. CASE h.kind \notin RouteKinds
  BY <1>2, CloneText DEF IsSound
<1> QED
  BY <1>1, <1>2

\* The length of a body is set to what it is.
LEMMA LengthKept ==
    ASSUME NEW H, NEW headers \in Neat(H), \A h \in H : IsSound(h), NEW length,
           FirstHeader(headers, LengthName) = Some(length), length.kind = LengthName
    PROVE  /\ GetHeaders(CloneGroups(headers), LengthName) # <<>>
           /\ ReplaceFirst(CloneGroups(headers), length) = CloneGroups(headers)
<1> DEFINE c == CloneGroups(headers)
           at == GroupAt(headers, LengthName)
           D == Dups(H)
           g == headers[at]
<1>0. headers \in Seq(Grouped(H)) /\ \A i \in 1..Len(headers) : headers[i].list # <<>>
  BY DEF Neat
<1>1. headers \in Seq(Group(H))
  BY <1>0, GroupedAreGroups
<1>2. \A h \in H : NameOf(CloneHeader(h)) = NameOf(h)
  BY CloneNamed
<1>3. c \in Seq(Group(D)) /\ Len(c) = Len(headers)
      /\ \A i \in 1..Len(headers) : c[i] = CloneGroup(headers[i])
  BY <1>1, <1>2, GroupsAre
<1>4. GetHeaders(headers, LengthName) # <<>> /\ GetHeaders(headers, LengthName)[1] = length
  BY DEF FirstHeader, Some, Nil
<1>5. at \in 1..Len(headers)
  BY <1>1, <1>4, GroupAtIn DEF GetHeaders
<1>6. g.list # <<>> /\ g.list[1] = length
  BY <1>4, <1>5 DEF GetHeaders
<1>7. g \in Group(H)
  BY <1>1, <1>5, ElementOfSeq
<1> HIDE DEF c
<1>8. \A i \in 1..Len(headers) : c[i].name = headers[i].name
  BY <1>3, CloneGroupIs
<1>9. GroupAt(c, LengthName) = at
  <2> DEFINE A == Group(H)
             B == Group(D)
             G == A \cup B
  <2>1. headers \in Seq(A) /\ c \in Seq(B)
    BY <1>1, <1>3
  <2>2. A \subseteq G /\ B \subseteq G
    OBVIOUS
  <2> HIDE DEF A, B, G
  <2>3. headers \in Seq(G) /\ c \in Seq(G)
    BY <2>1, <2>2, SeqMonotonic
  <2> QED
    BY <1>3, <1>8, <2>3, GroupAtSame
<1>10. c[at] = CloneGroup(g)
  BY <1>3, <1>5
<1> DEFINE list == Clones(g.list)
<1>11. c[at].list = list
  BY <1>10, CloneGroupIs
<1>12. list \in Seq(D) /\ Len(list) = Len(g.list) /\ 1 \in 1..Len(g.list)
       /\ list[1] = CloneHeader(length)
  <2>1. g.list \in Seq(H)
    BY <1>7 DEF Group
  <2>2. list \in Seq(D) /\ Len(list) = Len(g.list)
        /\ \A i \in 1..Len(g.list) : list[i] = CloneHeader(g.list[i])
    BY <2>1, ClonesAre
  <2>3. 1 \in 1..Len(g.list)
    BY <1>6, <2>1, EmptySeq
  <2> HIDE DEF list, g, D
  <2> QED
    BY <1>6, <2>2, <2>3
<1>13. CloneHeader(length) = length
  <2>1. length.kind \notin AddressKinds \cup {"Via", "Allow", "Supported", "X-GB-Ver", "CSeq", "Generic"}
    BY DEF LengthName, AddressKinds
  <2> QED
    BY <2>1 DEF CloneHeader
<1>14. NameOf(length) = LengthName
  BY DEF NameOf, LengthName
<1>15. GetHeaders(c, LengthName) = list
  <2>1. at # 0
    BY <1>5
  <2> HIDE DEF at, list
  <2> QED
    BY <1>9, <1>11, <2>1 DEF GetHeaders
<1>16. list # <<>>
  <2> HIDE DEF list
  <2> QED
    BY <1>12, EmptySeq
<1>17. ReplaceFirst(c, length) = [c EXCEPT ![at].list[1] = length]
  BY <1>9, <1>14 DEF ReplaceFirst
<1> HIDE DEF at, list, g
<1>18. [list EXCEPT ![1] = length] = list
  BY <1>12, <1>13
<1>19. at \in 1..Len(c) /\ c[at] \in Group(D)
  BY <1>3, <1>5, ElementOfSeq
<1>20. [c[at] EXCEPT !.list = list] = c[at]
  BY <1>11, <1>19 DEF Group
<1>21. [c EXCEPT ![at].list[1] = length] = [c EXCEPT ![at] = [c[at] EXCEPT !.list = [list EXCEPT ![1] = length]]]
  BY <1>11
<1>22. [c EXCEPT ![at] = c[at]] = c
  BY <1>3
<1> QED
  BY <1>15, <1>16, <1>17, <1>18, <1>20, <1>21, <1>22 DEF c

\* The text of the clone is that of the message.
LEMMA CloneWritten ==
    ASSUME NEW H, NEW msg, SoundMessage(H, msg)
    PROVE  MessageLines(CloneMessage(msg)) = MessageLines(msg)
<1> DEFINE headers == msg.headers
           all == AllHeaders(headers)
           c == CloneGroups(headers)
           dup == Each(CloneHeader, all)
           body == msg.body
           D == Dups(H)
           length == Header("Content-Length", Len(body))
<1>0. headers \in Neat(H) /\ \A h \in H : IsSound(h)
  BY DEF SoundMessage
<1>1. headers \in Seq(Group(H))
  BY <1>0, GroupedAreGroups DEF Neat
<1>2. \A h \in H : NameOf(CloneHeader(h)) = NameOf(h) /\ HeaderText(CloneHeader(h)) = HeaderText(h)
  BY <1>0, CloneNamed
<1>3. c \in Neat(D)
  BY <1>0, <1>2, GroupsNeat
<1>4. AllHeaders(c) = dup
  BY <1>1, <1>2, AllClones DEF Clones
<1>5. AppendAll(<<>>, dup) = c
  BY <1>3, <1>4, Regrouped
<1>6. all \in Seq(H)
  BY <1>1, AllHeadersType
<1>7. HeaderLines(c) = HeaderLines(headers)
  <2>1. dup \in Seq(D) /\ Len(dup) = Len(all) /\ \A i \in 1..Len(all) : dup[i] = CloneHeader(all[i])
    BY <1>6, ClonesAre DEF Clones
  <2>2. HeaderLines(c) = Each(HeaderText, dup) /\ HeaderLines(headers) = Each(HeaderText, all)
    BY <1>4 DEF HeaderLines
  <2> HIDE DEF dup, all, c, headers
  <2>3. \A i \in 1..Len(all) : all[i] \in H
    BY <1>6, ElementOfSeq
  <2>4. \A i \in 1..Len(all) : HeaderText(dup[i]) = HeaderText(all[i])
    BY <1>2, <2>1, <2>3
  <2>5. DOMAIN dup = 1..Len(all) /\ DOMAIN all = 1..Len(all)
    BY <1>6, <2>1
  <2>6. Each(HeaderText, dup) = [i \in 1..Len(all) |-> HeaderText(dup[i])]
    BY <2>5 DEF Each
  <2>7. Each(HeaderText, all) = [i \in 1..Len(all) |-> HeaderText(all[i])]
    BY <2>5 DEF Each
  <2> QED
    BY <2>2, <2>4, <2>6, <2>7
<1>8. ASSUME body # <<>>
      PROVE  GetHeaders(c, "Content-Length") # <<>> /\ ReplaceFirst(c, length) = c
  <2>1. FirstHeader(headers, LengthName) = Some(length) /\ length.kind = LengthName
    BY <1>8 DEF SoundMessage, LengthName, Header
  <2> HIDE DEF length, c, headers
  <2>2. GetHeaders(CloneGroups(headers), LengthName) # <<>>
        /\ ReplaceFirst(CloneGroups(headers), length) = CloneGroups(headers)
    BY <1>0, <2>1, LengthKept
  <2> QED
    BY <2>2 DEF c, LengthName
<1> HIDE DEF c, dup, all, length
<1>10. CASE msg.type = "request"
  <2> DEFINE uri == CloneURI(msg.recipient)
             method == msg.method
             bare == [type |-> "request", method |-> method, recipient |-> uri,
                      version |-> Version, headers |-> c, body |-> <<>>]
             full == [type |-> "request", method |-> method, recipient |-> uri,
                      version |-> Version, headers |-> c, body |-> body]
  <2>1. CloneMessage(msg) = NewMessage(bare, body)
    BY <1>5, <1>10 DEF CloneMessage, NewRequest, dup, all
  <2>2. uri = msg.recipient
    BY <1>10, CloneURIIs DEF SoundMessage, IsWhole
  <2> HIDE DEF uri, method, body
  <2>3. NewMessage(bare, body) = full
    <3>1. CASE body = <<>>
      BY <3>1 DEF NewMessage
    <3>2. CASE body # <<>>
      <4>1. SetBody(bare, body) = [bare EXCEPT !.body = body, !.headers = c]
        BY <1>8, <3>2 DEF SetBody, length
      <4> QED
        BY <3>2, <4>1 DEF NewMessage
    <3> QED
      BY <3>1, <3>2
  <2>4. StartLine(full) = StartLine(msg)
    BY <1>10, <2>2 DEF StartLine, SoundMessage, method
  <2>5. MessageLines(full) = <<StartLine(full)>> \o HeaderLines(c) \o << <<>> >> \o body
    BY DEF MessageLines
  <2> QED
    BY <1>7, <2>1, <2>3, <2>4, <2>5 DEF MessageLines, body
<1>11. CASE msg.type = "response"
  <2> DEFINE status == msg.status
             reason == msg.reason
             bare == [type |-> "response", status |-> status, reason |-> reason,
                      version |-> Version, headers |-> c, body |-> <<>>]
             full == [type |-> "response", status |-> status, reason |-> reason,
                      version |-> Version, headers |-> c, body |-> body]
  <2>1. CloneMessage(msg) = NewMessage(bare, body)
    BY <1>5, <1>11 DEF CloneMessage, NewResponse, dup, all
  <2> HIDE DEF status, reason, body
  <2>3. NewMessage(bare, body) = full
    <3>1. CASE body = <<>>
      BY <3>1 DEF NewMessage
    <3>2. CASE body # <<>>
      <4>1. SetBody(bare, body) = [bare EXCEPT !.body = body, !.headers = c]
        BY <1>8, <3>2 DEF SetBody, length
      <4> QED
        BY <3>2, <4>1 DEF NewMessage
    <3> QED
      BY <3>1, <3>2
  <2>4. StartLine(full) = StartLine(msg)
    BY <1>11 DEF StartLine, SoundMessage, status, reason
  <2>5. MessageLines(full) = <<StartLine(full)>> \o HeaderLines(c) \o << <<>> >> \o body
    BY DEF MessageLines
  <2> QED
    BY <1>7, <2>1, <2>3, <2>4, <2>5 DEF MessageLines, body
<1> QED
  BY <1>10, <1>11 DEF SoundMessage

\* The clone of a message has the text of the message, and the clone of each of
\* its headers equals it; Clone panics on a message with a route, and on no other.
THEOREM ClonedMessage ==
    ASSUME NEW H, NEW msg, SoundMessage(H, msg)
    PROVE  Cloned(msg)
<1> DEFINE all == AllHeaders(msg.headers)
<1>0. msg.headers \in Neat(H) /\ \A h \in H : IsSound(h)
  BY DEF SoundMessage
<1>1. all \in Seq(H)
  <2>1. msg.headers \in Seq(Group(H))
    BY <1>0, GroupedAreGroups DEF Neat
  <2> QED
    BY <2>1, AllHeadersType
<1>2. /\ \A h \in Range(all) : h \in H /\ GetHeaders(msg.headers, NameOf(h)) # <<>>
      /\ \A name : GetHeaders(msg.headers, name) # <<>> =>
                    \E h \in Range(all) : NameOf(h) = name
  BY <1>0, NeatGet
<1> HIDE DEF all
<1>3. \A h \in H : ClonePanics(h) <=> NameOf(h) \in RouteKinds
  BY <1>0, PanicsOnRoutes DEF IsSound
<1>4. ClonePanicsOn(msg) <=> \E h \in Range(all) : ClonePanics(h)
  BY DEF ClonePanicsOn, Range, all
<1>5. ClonePanicsOn(msg) <=> \E name \in RouteKinds : GetHeaders(msg.headers, name) # <<>>
  <2>1. ASSUME ClonePanicsOn(msg)
        PROVE  \E name \in RouteKinds : GetHeaders(msg.headers, name) # <<>>
    BY <1>2, <1>3, <1>4, <2>1
  <2>2. ASSUME NEW name \in RouteKinds, GetHeaders(msg.headers, name) # <<>>
        PROVE  ClonePanicsOn(msg)
    <3>1. PICK h \in Range(all) : NameOf(h) = name
      BY <1>2, <2>2
    <3>2. h \in H
      BY <1>2
    <3> QED
      BY <1>3, <1>4, <3>1, <3>2
  <2> QED
    BY <2>1, <2>2
<1>6. MessageLines(CloneMessage(msg)) = MessageLines(msg)
  BY CloneWritten
<1>7. ASSUME ~ClonePanicsOn(msg), NEW i \in DOMAIN all
      PROVE  IF all[i].kind = "X-GB-Ver" THEN ~EqualHeader(all[i], CloneHeader(all[i]))
             ELSE /\ EqualHeader(all[i], CloneHeader(all[i]))
                  /\ EqualHeader(CloneHeader(all[i]), all[i]) \/ (all[i].kind = "Allow" /\ all[i].ptr)
  <2> DEFINE h == all[i]
  <2>1. h \in Range(all)
    BY DEF Range
  <2>2. h \in H
    BY <1>2, <2>1
  <2>3. ~ClonePanics(h)
    BY <1>4, <1>7, <2>1
  <2> HIDE DEF h
  <2>4. IsSound(h)
    BY <1>0, <2>2
  <2>5. h.kind \notin RouteKinds
    BY <2>3, <2>4 DEF ClonePanics, IsSound, Sound
  <2>6. IF h.kind = "X-GB-Ver" THEN ~EqualHeader(h, CloneHeader(h))
        ELSE /\ EqualHeader(h, CloneHeader(h))
             /\ EqualHeader(CloneHeader(h), h) \/ (h.kind = "Allow" /\ h.ptr)
    BY <2>4, <2>5, CloneEquals DEF IsSound
  <2> QED
    BY <2>6 DEF h
<1> QED
  BY <1>5, <1>6, <1>7 DEF Cloned, all

-----------------------------------------------------------------------------
(* What is parsed is sound *)

\* A sequence of anything.
IsSeq(s) == \E T : s \in Seq(T)

\* A URI that is parsed has both lists.
LEMMA URIOfWhole ==
    ASSUME NEW encrypted, NEW userInfo, NEW hostPort, NEW tail, NEW params, NEW headers, NEW uri,
           uri = URIOf(encrypted, userInfo, hostPort, tail, params, headers).uri
    PROVE  Len(uri.params) = 1 /\ Len(uri.headers) = 1
<1>1. URIOf(encrypted, userInfo, hostPort, tail, params, headers) = BadURI
      \/ URIOf(encrypted, userInfo, hostPort, tail, params, headers).uri =
            URIRecord(encrypted, userInfo.user, userInfo.password, hostPort.host, hostPort.port,
                      Some(params.params), Some(headers.params))
  BY DEF URIOf, URIRecord
<1>2. BadURI.uri.params = Some(<<>>) /\ BadURI.uri.headers = Some(<<>>)
  BY DEF BadURI, NewURI
<1>3. \A x : Len(Some(x)) = 1
  BY DEF Some
<1> QED
  BY <1>1, <1>2, <1>3 DEF URIRecord

\* So it is whole.
LEMMA ParseURIWhole ==
    ASSUME NEW T, NEW text \in Seq(T)
    PROVE  ParseURI(text).uri \in WholeURIs(T)
<1>1. ParseURI(text).uri \in URIs(T)
  BY ParseURIType
<1>2. BadURI.uri.params = Some(<<>>) /\ BadURI.uri.headers = Some(<<>>)
  BY DEF BadURI, NewURI
<1>3. \A x : Len(Some(x)) = 1
  BY DEF Some
<1>4. ParseURI(text) = BadURI
      \/ \E encrypted, userInfo, cut : ParseURI(text) = ParseAfterUser(encrypted, userInfo, cut)
  BY DEF ParseURI, ParseSipURI
<1>5. ASSUME NEW encrypted, NEW userInfo, NEW cut
      PROVE  \E a, b, c, d, e, f :
                ParseAfterUser(encrypted, userInfo, cut) = URIOf(a, b, c, d, e, f)
  <2>1. \A params : \E a, b, c, d, e, f :
            ParseHeadersOfURI(encrypted, userInfo, cut, params) = URIOf(a, b, c, d, e, f)
    BY DEF ParseHeadersOfURI
  <2>2. \E params : ParseAfterUser(encrypted, userInfo, cut)
                        = ParseHeadersOfURI(encrypted, userInfo, cut, params)
    BY DEF ParseAfterUser
  <2> QED
    BY <2>1, <2>2
<1>6. Len(ParseURI(text).uri.params) = 1 /\ Len(ParseURI(text).uri.headers) = 1
  <2>1. CASE ParseURI(text) = BadURI
    BY <1>2, <1>3, <2>1
  <2>2. CASE \E a, b, c, d, e, f : ParseURI(text) = URIOf(a, b, c, d, e, f)
    BY <2>2, URIOfWhole
  <2> QED
    BY <1>4, <1>5, <2>1, <2>2
<1> QED
  BY <1>1, <1>6 DEF WholeURIs

\* So is the address that is parsed.
LEMMA AddressValueWhole ==
    ASSUME NEW T, NEW text \in Seq(T)
    PROVE  ParseAddressValue(text).addr \in WholeAddresses(T)
<1> DEFINE addr == ParseAddressValue(text).addr
           named == DisplayName(Trim(text))
           name == named.name
           rest == named.rest
           end == FirstOf(rest, {Rangle})
           part == SubSeq(rest, 2, end - 1)
           params == ParseParams(After(rest, end), ";", ";", ",", TRUE, TRUE)
<1>1. addr \in Addresses(T)
  BY AddressValueType
<1>2. name \in Seq(T) /\ rest \in Seq(T)
  BY TrimType, DisplayNameType
<1>3. \/ ParseAddressValue(text) = BadAddress
      \/ ParseAddressValue(text) = Bracketed(name, rest)
  BY DEF ParseAddressValue
<1> HIDE DEF name, rest
<1>4. end \in 0..Len(rest) /\ Len(rest) \in Nat
  BY <1>2, FirstType
<1>5. Bracketed(name, rest) \in {BadAddress, AddressOf(name, ParseURI(part), params)}
  BY DEF Bracketed, Rangle
<1> HIDE DEF end
<1>6. part \in Seq(T)
  <2>1. 2 \in Nat \ {0} /\ end - 1 \in Int /\ end - 1 <= Len(rest)
    BY <1>4
  <2> QED
    BY <1>2, <2>1, StretchType
<1> HIDE DEF part, params
<1>7. AddressOf(name, ParseURI(part), params) = BadAddress
      \/ /\ AddressOf(name, ParseURI(part), params).addr.uri = ParseURI(part).uri
         /\ AddressOf(name, ParseURI(part), params).addr.params = Some(params.params)
  BY DEF AddressOf
<1>8. BadAddress.addr.uri = BadURI.uri /\ BadAddress.addr.params = Nil
  BY DEF BadAddress
<1>9. ParseURI(part).uri \in WholeURIs(T)
  BY <1>6, ParseURIWhole
<1>10. BadURI.uri \in WholeURIs(T)
  <2>1. BadURI.uri.params = Some(<<>>) /\ BadURI.uri.headers = Some(<<>>)
    BY DEF BadURI, NewURI
  <2>2. Len(Some(<<>>)) = 1
    BY DEF Some
  <2> QED
    BY <2>1, <2>2, BadURIType DEF WholeURIs
<1>11. Len(Some(params.params)) = 1 /\ Len(Nil) = 0
  BY DEF Some, Nil
<1>12. addr.uri \in WholeURIs(T) /\ Len(addr.params) <= 1
  <2>1. CASE ParseAddressValue(text) = BadAddress
    BY <1>8, <1>10, <1>11, <2>1
  <2>2. CASE ParseAddressValue(text) = AddressOf(name, ParseURI(part), params)
    <3>1. CASE AddressOf(name, ParseURI(part), params) = BadAddress
      BY <1>8, <1>10, <1>11, <2>2, <3>1
    <3>2. CASE /\ AddressOf(name, ParseURI(part), params).addr.uri = ParseURI(part).uri
               /\ AddressOf(name, ParseURI(part), params).addr.params = Some(params.params)
      <4>1. addr.uri = ParseURI(part).uri /\ addr.params = Some(params.params)
        BY <2>2, <3>2
      <4> HIDE DEF addr
      <4>2. addr.uri \in WholeURIs(T)
        BY <1>9, <4>1
      <4>3. Len(addr.params) = 1
        BY <1>11, <4>1
      <4> QED
        BY <4>2, <4>3
    <3> QED
      BY <1>7, <3>1, <3>2
  <2> QED
    BY <1>3, <1>5, <2>1, <2>2
<1> HIDE DEF addr
<1> QED
  BY <1>1, <1>12 DEF WholeAddresses, addr

\* The addresses of a text.
LEMMA AddressValuesWhole ==
    ASSUME NEW T, Comma \in T, NEW text \in Seq(T)
    PROVE  ParseAddressValues(text).addrs \in Seq(WholeAddresses(T))
<1> DEFINE sections == AddressSections(text)
           values == Each(ParseAddressValue, sections)
           bad == SelectInSeq(values, LAMBDA v : v.err)
           good == IF bad = 0 THEN values ELSE Upto(values, bad - 1)
           W == WholeAddresses(T)
           addrs == ParseAddressValues(text).addrs
<1>1. sections \in Seq(Seq(T))
  <2>1. Append(text, Comma) \in Seq(T)
    OBVIOUS
  <2>2. sections = Fold(SectionF(T), NoSections, Append(text, Comma)).done
    BY <2>1, SectionFold
  <2>3. Fold(SectionF(T), NoSections, Append(text, Comma)) \in Sections(T)
    BY <2>1, SectionOps, FoldType
  <2> QED
    BY <2>2, <2>3 DEF Sections
<1>2. addrs = [i \in DOMAIN good |-> good[i].addr]
  BY DEF ParseAddressValues, AddressesOf
<1> HIDE DEF sections, addrs
<1>3. values = [i \in 1..Len(sections) |-> ParseAddressValue(sections[i])] /\ Len(sections) \in Nat
  BY <1>1 DEF Each
<1>4. \A i \in 1..Len(sections) : ParseAddressValue(sections[i]).addr \in W
  <2>1. \A i \in 1..Len(sections) : sections[i] \in Seq(T)
    BY <1>1
  <2> QED
    BY <2>1, AddressValueWhole
<1> DEFINE V == {ParseAddressValue(sections[i]) : i \in 1..Len(sections)}
<1> HIDE DEF W
<1>5. values \in Seq(V)
  BY <1>3
<1>6. \A v \in V : v.addr \in W
  BY <1>4
<1> HIDE DEF values, V
<1>7. bad \in 0..Len(values)
  <2> DEFINE I == {i \in 1..Len(values) : values[i].err}
  <2>1. bad = IF I # {} THEN Min(I) ELSE 0
    BY DEF SelectInSeq
  <2>2. I \in SUBSET Nat /\ Len(values) \in Nat
    BY <1>5
  <2>3. I \subseteq 1..Len(values)
    OBVIOUS
  <2> HIDE DEF I, bad
  <2>4. I # {} => Min(I) \in I
    BY <2>2, MinIn
  <2>5. CASE I = {}
    BY <2>1, <2>2, <2>5
  <2>6. CASE I # {}
    <3>1. bad = Min(I)
      BY <2>1, <2>6
    <3>2. Min(I) \in I
      BY <2>4, <2>6
    <3>3. Min(I) \in 1..Len(values)
      BY <2>3, <3>2
    <3> QED
      BY <2>2, <3>1, <3>3
  <2> QED
    BY <2>5, <2>6
<1> HIDE DEF bad
<1>8. good \in Seq(V)
  <2>1. Len(values) \in Nat
    BY <1>5
  <2>2. bad - 1 \in Int /\ bad - 1 <= Len(values)
    BY <1>7, <2>1
  <2>3. Upto(values, bad - 1) \in Seq(V)
    BY <1>5, <2>2, UptoType
  <2> QED
    BY <1>5, <2>3
<1> HIDE DEF good
<1>9. DOMAIN good = 1..Len(good) /\ Len(good) \in Nat /\ \A i \in 1..Len(good) : good[i].addr \in W
  BY <1>6, <1>8
<1>10. addrs \in Seq(W)
  BY <1>2, <1>9
<1> QED
  BY <1>10 DEF addrs, W

\* Headers that are sound and of one name.
Sounds(headers, name) ==
    IsSeq(headers) /\ \A h \in Range(headers) : IsSound(h) /\ NameOf(h) = name

\* No headers, and one.
LEMMA NoneSounds ==
    ASSUME NEW name
    PROVE  Sounds(<<>>, name)
  BY DEF Sounds, IsSeq, Range
\* One sound header is such.
LEMMA OneSounds ==
    ASSUME NEW h, IsSound(h), NEW name, NameOf(h) = name
    PROVE  Sounds(<<h>>, name)
<1>1. <<h>> \in Seq({h})
  BY OneIn
<1>2. Range(<<h>>) \subseteq {h}
  BY <1>1, RangeIs
<1> QED
  BY <1>1, <1>2 DEF Sounds, IsSeq

\* The headers of To, From and Contact.
LEMMA AddressesSound ==
    ASSUME NEW kind \in AddressKinds, NEW T, NEW text \in Seq(T)
    PROVE  Sounds(ParseValue(kind, text).headers, kind)
<1> DEFINE U == T \cup {Comma}
           addrs == ParseAddressValues(text).addrs
           W == WholeAddresses(U)
           hdrs == Each(LAMBDA addr : Header(kind, addr), addrs)
           S == {Header(kind, a) : a \in W}
<1>1. text \in Seq(U) /\ Comma \in U
  BY SeqMonotonic
<1> HIDE DEF U
<1>2. addrs \in Seq(W)
  BY <1>1, AddressValuesWhole
<1>3. ParseValue(kind, text) = ParseAddressHeader(kind, ParseAddressValues(text))
  BY DEF ParseValue, AddressKinds, RouteKinds, NumberKinds, TextKinds
<1>4. ParseAddressHeader(kind, ParseAddressValues(text)).headers \in {<<>>, hdrs}
  BY DEF ParseAddressHeader, ParseError, Parsed
<1> HIDE DEF addrs
<1>5. hdrs = [i \in 1..Len(addrs) |-> Header(kind, addrs[i])] /\ Len(addrs) \in Nat
      /\ \A i \in 1..Len(addrs) : addrs[i] \in W
  BY <1>2 DEF Each
<1> HIDE DEF hdrs, W
<1>6. hdrs \in Seq(S)
  BY <1>5
<1>7. Range(hdrs) \subseteq S
  BY <1>6, RangeIs
<1>8. ASSUME NEW a \in W
      PROVE  IsSound(Header(kind, a)) /\ NameOf(Header(kind, a)) = kind
  <2> DEFINE h == Header(kind, a)
  <2>1. h.kind = kind /\ h.val = a
    BY DEF Header
  <2> HIDE DEF h
  <2>2. kind # ViaName /\ kind \notin RouteKinds /\ kind # "Generic"
    BY DEF AddressKinds, RouteKinds, ViaName
  <2>3. NameOf(h) = kind
    BY <2>1, <2>2 DEF NameOf
  <2>4. Sound(U, h)
    BY <2>1, <2>2, <2>3 DEF Sound, W
  <2> QED
    BY <2>3, <2>4 DEF IsSound, h
<1>9. Sounds(hdrs, kind)
  BY <1>6, <1>7, <1>8 DEF Sounds, IsSeq
<1> QED
  BY <1>3, <1>4, <1>9, NoneSounds

\* A Via header.
LEMMA ViaSounds ==
    ASSUME NEW T, NEW text \in Seq(T)
    PROVE  Sounds(ParseVia(text).headers, ViaName)
<1> DEFINE U == T \cup {Empty, Slash}
<1>1. text \in Seq(U) /\ Empty \in U /\ Slash \in U
  BY SeqMonotonic
<1> HIDE DEF U
<1>2. \/ ParseVia(text).headers = <<>>
      \/ \E hops \in Seq(WholeHops(U)) : ParseVia(text).headers = <<Header("Via", hops)>>
  BY <1>1, ParseViaType
<1>3. ASSUME NEW hops \in Seq(WholeHops(U))
      PROVE  Sounds(<<Header("Via", hops)>>, ViaName)
  <2> DEFINE h == Header("Via", hops)
  <2>1. h.kind = ViaName /\ h.val = hops
    BY DEF Header, ViaName
  <2> HIDE DEF h
  <2>2. ViaName \notin AddressKinds /\ ViaName \notin RouteKinds /\ ViaName # "Generic"
    BY DEF AddressKinds, RouteKinds, ViaName
  <2>3. NameOf(h) = ViaName
    BY <2>1, <2>2 DEF NameOf
  <2>4. Sound(U, h)
    BY <2>1, <2>2, <2>3 DEF Sound
  <2>5. IsSound(h)
    BY <2>4 DEF IsSound
  <2> QED
    BY <2>3, <2>5, OneSounds DEF h
<1> QED
  BY <1>2, <1>3, NoneSounds

\* A header of any kind but the routes.
LEMMA ValueSounds ==
    ASSUME NEW kind, kind \notin RouteKinds, NEW T, NEW text \in Seq(T)
    PROVE  Sounds(ParseValue(kind, text).headers, kind)
<1>1. CASE kind \in AddressKinds
  BY <1>1, AddressesSound
<1>2. CASE kind = ViaName
  <2>1. ParseValue(kind, text) = ParseVia(text)
    BY <1>2 DEF ParseValue, RouteKinds, AddressKinds, NumberKinds, TextKinds, ViaName
  <2> QED
    BY <1>2, <2>1, ViaSounds
<1>3. CASE kind \notin AddressKinds /\ kind # ViaName
  <2>1. OneHeader(ParseValue(kind, text), kind)
    BY <1>3, ParseOther
  <2>2. ASSUME NEW h, NameOf(h) = kind, h.kind \in {kind, "Generic"}
        PROVE  IsSound(h)
    <3>1. "Generic" \notin AddressKinds /\ "Generic" \notin RouteKinds /\ "Generic" # ViaName
      BY DEF AddressKinds, RouteKinds, ViaName
    <3>2. h.kind \notin AddressKinds /\ h.kind # ViaName /\ h.kind \notin RouteKinds
      BY <1>3, <2>2, <3>1
    <3>3. Sound(T, h)
      BY <2>2, <3>2 DEF Sound
    <3> QED
      BY <3>3 DEF IsSound
  <2>3. CASE ParseValue(kind, text).headers = <<>>
    BY <2>3, NoneSounds
  <2>4. ASSUME NEW h, ParseValue(kind, text).headers = <<h>>, NameOf(h) = kind,
               h.kind \in {kind, "Generic"}
        PROVE  Sounds(ParseValue(kind, text).headers, kind)
    <3>1. IsSound(h)
      BY <2>2, <2>4
    <3>2. Sounds(<<h>>, kind)
      BY <2>4, <3>1, OneSounds
    <3> QED
      BY <2>4, <3>2
  <2> QED
    BY <2>1, <2>3, <2>4 DEF OneHeader
<1> QED
  BY <1>1, <1>2, <1>3

\* A line of any header but the routes.
LEMMA LineSounds ==
    ASSUME NEW l, IsSeq(l), FullName(l[1]) \notin RouteKinds
    PROVE  Sounds(ParsedOf(l), FullName(l[1]))
<1> DEFINE colon == FirstOf(l, {":"})
           text == Trim(After(l, colon))
<1>1. PICK T : l \in Seq(T)
  BY DEF IsSeq
<1>2. colon \in Nat
  <2>1. colon \in 0..Len(l)
    BY <1>1, FirstType
  <2> QED
    BY <1>1, <2>1
<1>3. ParsedOf(l) \in {<<>>, ParseValue(FullName(l[1]), text).headers}
  BY DEF ParsedOf, ParseHeader, ParseError
<1> HIDE DEF colon
<1>4. After(l, colon) \in Seq(T)
  BY <1>1, <1>2, AfterType
<1>5. text \in Seq(T)
  BY <1>4, TrimType
<1> HIDE DEF text
<1>6. Sounds(ParseValue(FullName(l[1]), text).headers, FullName(l[1]))
  BY <1>5, ValueSounds
<1> QED
  BY <1>3, <1>6, NoneSounds

\* The headers of lines of M, each of which gives sound headers or none, are
\* sound and under their names.
LEMMA TextsSound ==
    ASSUME NEW M, \A l \in M : IsSeq(ParsedOf(l)) /\ \A h \in Range(ParsedOf(l)) : IsSound(h),
           NEW texts \in Seq(M)
    PROVE  \E H : /\ \A h \in H : IsSound(h)
                  /\ Flat(Each(ParsedOf, texts)) \in Seq(H)
                  /\ AppendAll(<<>>, Flat(Each(ParsedOf, texts))) \in Neat(H)
<1> DEFINE H == UNION {Range(ParsedOf(l)) : l \in M}
           parts == Each(ParsedOf, texts)
<1>1. \A l \in M : ParsedOf(l) \in Seq(H)
  <2> SUFFICES ASSUME NEW l \in M
               PROVE  ParsedOf(l) \in Seq(H)
    OBVIOUS
  <2>1. PICK T : ParsedOf(l) \in Seq(T)
    BY DEF IsSeq
  <2> DEFINE s == ParsedOf(l)
  <2>2. Range(s) \subseteq H
    OBVIOUS
  <2> HIDE DEF s, H
  <2>3. s \in Seq(T) /\ Range(s) = {s[i] : i \in 1..Len(s)}
    BY <2>1, RangeIs DEF s
  <2>4. s \in Seq(H)
    BY <2>2, <2>3
  <2> QED
    BY <2>4 DEF s
<1>2. \A h \in H : IsSound(h)
  OBVIOUS
<1> HIDE DEF H
<1>3. parts \in Seq(Seq(H))
  <2>1. parts = [i \in 1..Len(texts) |-> ParsedOf(texts[i])] /\ Len(texts) \in Nat
    BY DEF Each
  <2>2. \A i \in 1..Len(texts) : ParsedOf(texts[i]) \in Seq(H)
    BY <1>1
  <2> HIDE DEF parts
  <2> QED
    BY <2>1, <2>2
<1> HIDE DEF parts
<1>4. Flat(parts) \in Seq(H)
  BY <1>3, FlatType
<1>5. AppendAll(<<>>, Flat(parts)) \in Neat(H)
  BY <1>4, NoneNeat, NeatAll
<1> QED
  BY <1>2, <1>4, <1>5 DEF parts

\* A route header whose text is one section, without "@", has a route or is no header.
LEMMA RouteSounds ==
    ASSUME NEW kind \in RouteKinds, NEW text \in Seq(Token \ {Comma, Quote}), text # <<>>,
           text[Len(text)] = Rangle, text \in Seq(Token \ {AtSign})
    PROVE  Sounds(ParseValue(kind, text).headers, kind)
<1> DEFINE sections == AddressSections(text)
           values == Each(ParseAddressValue, sections)
           v == ParseAddressValue(text)
           bad == SelectInSeq(values, LAMBDA x : x.err)
           good == IF bad = 0 THEN values ELSE Upto(values, bad - 1)
           W == WholeAddresses(Token)
           read == ParseAddressValues(text)
           addrs == read.addrs
           uris == Each(LAMBDA addr : addr.uri, addrs)
<1>1. sections = <<text>>
  BY OneSection
<1>2. ~Forgiven(text)
  <2>1. Split(text, AtSign) = <<text>>
    BY SplitFree
  <2>2. Len(Split(text, AtSign)) # 2
    BY <2>1
  <2> QED
    BY <2>2 DEF Forgiven, AtSign
<1>3. Len(values) = 1 /\ values \in Seq({v})
  <2>1. values = [i \in DOMAIN <<text>> |-> ParseAddressValue(<<text>>[i])]
    BY <1>1 DEF Each
  <2>2. values = [i \in DOMAIN <<text>> |-> values[i]] /\ values[1] = v
    BY <2>1
  <2> HIDE DEF values, v
  <2>3. values = <<v>>
    BY <2>2, OneMap
  <2> QED
    BY <2>3
<1>4. addrs \in Seq(W)
  <2>1. text \in Seq(Token)
    <3>1. Token \ {AtSign} \subseteq Token
      OBVIOUS
    <3> QED
      BY <3>1, SeqMonotonic
  <2>2. Comma \in Token
    BY MarksAreTokens
  <2> QED
    BY <2>1, <2>2, AddressValuesWhole
<1>5. read = AddressesOf(values, Forgiven(text))
  BY DEF ParseAddressValues
<1>6. read.err \/ (bad = 0 /\ addrs = [i \in DOMAIN values |-> values[i].addr])
  <2> HIDE DEF values
  <2>1. read.err = (bad # 0 /\ ~Forgiven(text))
    BY <1>5 DEF AddressesOf
  <2>2. addrs = [i \in DOMAIN good |-> good[i].addr]
    BY <1>5 DEF AddressesOf
  <2> HIDE DEF bad, read
  <2>3. CASE bad = 0
    BY <2>2, <2>3
  <2>4. CASE bad # 0
    BY <1>2, <2>1, <2>4
  <2> QED
    BY <2>3, <2>4
<1>7. ParseValue(kind, text) = ParseRoute(kind, read)
  <2>1. /\ kind \notin NumberKinds /\ kind \notin TextKinds /\ kind \notin AddressKinds
        /\ kind # "CSeq" /\ kind # "Via" /\ kind # "Call-ID" /\ kind # "Allow"
        /\ kind # "Supported"
    BY DEF RouteKinds, NumberKinds, TextKinds, AddressKinds
  <2> QED
    BY <2>1 DEF ParseValue
<1> HIDE DEF values, bad, v, sections, read
<1>8. CASE read.err
  <2>1. ParseRoute(kind, read) = ParseError
    BY <1>8 DEF ParseRoute
  <2> QED
    BY <1>7, <2>1, NoneSounds DEF ParseError
<1>9. CASE ~read.err /\ addrs = [i \in DOMAIN values |-> values[i].addr]
  <2> DEFINE h == Header(kind, uris)
  <2>1. ParseRoute(kind, read) = Parsed(<<h>>)
    BY <1>9 DEF ParseRoute
  <2>2. uris \in Seq(WholeURIs(Token)) /\ uris # <<>>
    <3>1. Len(addrs) = 1
      BY <1>3, <1>9
    <3>2. uris = [i \in 1..Len(addrs) |-> addrs[i].uri]
      BY <1>4 DEF Each
    <3>3. \A i \in 1..Len(addrs) : addrs[i].uri \in WholeURIs(Token)
      <4>1. \A i \in 1..Len(addrs) : addrs[i] \in W
        BY <1>4, ElementOfSeq
      <4> QED
        BY <4>1 DEF WholeAddresses
    <3> HIDE DEF addrs, uris
    <3> QED
      BY <3>1, <3>2, <3>3
  <2>3. h.kind = kind /\ h.val = uris
    BY DEF Header
  <2> HIDE DEF h, uris
  <2>4. kind \notin AddressKinds /\ kind # ViaName /\ kind # "Generic"
    BY DEF AddressKinds, RouteKinds, ViaName
  <2>5. NameOf(h) = kind
    BY <2>3, <2>4 DEF NameOf
  <2>6. Sound(Token, h)
    BY <2>2, <2>3, <2>4, <2>5 DEF Sound
  <2>7. Sounds(<<h>>, kind)
    BY <2>5, <2>6, OneSounds DEF IsSound
  <2>8. Parsed(<<h>>).headers = <<h>>
    BY DEF Parsed
  <2> QED
    BY <1>7, <2>1, <2>7, <2>8
<1> QED
  BY <1>6, <1>8, <1>9

\* The route that a proxy records.
RecordText == <<Langle, SipWord, Colon, ProxyWord, Semi, LrWord, Rangle>>
RecordLine == <<"Record-Route", ":", " ", "<", "sip", ":", "proxy", ";", "lr", ">">>

\* A sequence with a head, element by element.
LEMMA ConsAll ==
    ASSUME NEW T, NEW x \in T, NEW text \in Seq(T)
    PROVE  /\ Cons(x, text) \in Seq(T) /\ Len(Cons(x, text)) = Len(text) + 1 /\ Cons(x, text)[1] = x
           /\ \A i \in 1..Len(text) : Cons(x, text)[i + 1] = text[i]
<1>1. \A i \in 1..Len(text) : Cons(x, text)[i + 1] = text[i]
  BY ConsAt
<1> QED
  BY <1>1, ConsIs

\* A sequence from its fourth element on.
LEMMA HeadThree ==
    ASSUME NEW T, NEW a \in T, NEW b \in T, NEW c \in T, NEW u \in Seq(T), NEW s \in Seq(T),
           Len(s) = Len(u) + 3, s[1] = a, s[2] = b, s[3] = c,
           \A n \in 1..Len(u) : s[n + 3] = u[n]
    PROVE  s = Cons(a, Cons(b, Cons(c, u)))
<1> DEFINE v == Cons(c, u)
           w == Cons(b, v)
           x == Cons(a, w)
<1>1. v \in Seq(T) /\ Len(v) = Len(u) + 1 /\ v[1] = c /\ \A n \in 1..Len(u) : v[n + 1] = u[n]
  BY ConsAll
<1> HIDE DEF v
<1>2. w \in Seq(T) /\ Len(w) = Len(v) + 1 /\ w[1] = b /\ \A n \in 1..Len(v) : w[n + 1] = v[n]
  <2>1. v \in Seq(T)
    BY <1>1
  <2> QED
    BY <2>1, ConsAll
<1> HIDE DEF w
<1>3. x \in Seq(T) /\ Len(x) = Len(w) + 1 /\ x[1] = a /\ \A n \in 1..Len(w) : x[n + 1] = w[n]
  <2>1. w \in Seq(T)
    BY <1>2
  <2> QED
    BY <2>1, ConsAll
<1> HIDE DEF x
<1>4. Len(u) \in Nat /\ Len(x) = Len(s)
  BY <1>1, <1>2, <1>3
<1>5. ASSUME NEW n \in 1..Len(s)
      PROVE  s[n] = x[n]
  <2>1. x[2] = b /\ x[3] = c
    BY <1>1, <1>2, <1>3, <1>4
  <2>2. CASE n \in {1, 2, 3}
    BY <1>3, <2>1, <2>2
  <2>3. CASE n \notin {1, 2, 3}
    <3>1. n - 3 \in 1..Len(u) /\ n = (n - 3) + 3
      BY <1>4, <2>3
    <3> DEFINE m == n - 3
    <3>2. m \in 1..Len(u) /\ n = m + 3 /\ m + 1 \in 1..Len(v) /\ m + 2 \in 1..Len(w)
          /\ m + 2 = (m + 1) + 1 /\ m + 3 = (m + 2) + 1
      BY <1>1, <1>2, <1>4, <3>1
    <3> HIDE DEF m
    <3>3. s[m + 3] = u[m] /\ v[m + 1] = u[m] /\ w[(m + 1) + 1] = v[m + 1]
          /\ x[(m + 2) + 1] = w[m + 2]
      BY <1>1, <1>2, <1>3, <3>2
    <3> QED
      BY <3>2, <3>3
  <2> QED
    BY <2>2, <2>3
<1>6. s = x
  BY <1>3, <1>4, <1>5, SameSeq
<1> QED
  BY <1>6 DEF x, w, v

\* A sequence of ten elements, from the fourth on.
LEMMA TenCons ==
    ASSUME NEW a, NEW b, NEW c, NEW d, NEW e, NEW f, NEW g, NEW h, NEW i, NEW j
    PROVE  <<a, b, c, d, e, f, g, h, i, j>> = Cons(a, Cons(b, Cons(c, <<d, e, f, g, h, i, j>>)))
<1> DEFINE T == {a, b, c, d, e, f, g, h, i, j}
           u == <<d, e, f, g, h, i, j>>
           s == <<a, b, c, d, e, f, g, h, i, j>>
<1>1. a \in T /\ b \in T /\ c \in T
  OBVIOUS
<1>2. u \in Seq(T) /\ Len(u) = 7
  OBVIOUS
<1>3. s \in Seq(T) /\ Len(s) = 10 /\ s[1] = a /\ s[2] = b /\ s[3] = c
      /\ \A n \in 1..7 : s[n + 3] = u[n]
  OBVIOUS
<1> HIDE DEF T, s, u
<1>4. Len(s) = Len(u) + 3
  BY <1>2, <1>3
<1>5. s = Cons(a, Cons(b, Cons(c, u)))
  <2>1. a \in T
    BY <1>1
  <2>2. b \in T
    BY <1>1
  <2>3. c \in T
    BY <1>1
  <2>4. u \in Seq(T)
    BY <1>2
  <2>5. s \in Seq(T)
    BY <1>3
  <2>6. s[1] = a /\ s[2] = b /\ s[3] = c /\ \A n \in 1..Len(u) : s[n + 3] = u[n]
    BY <1>2, <1>3
  <2> QED
    BY <1>4, <2>1, <2>2, <2>3, <2>4, <2>5, <2>6, HeadThree
<1> QED
  BY <1>5 DEF s, u

\* A sequence of seven.
LEMMA SevenAt ==
    ASSUME NEW X, NEW a \in X, NEW b \in X, NEW c \in X, NEW d \in X, NEW e \in X, NEW f \in X,
           NEW g \in X, NEW s, s = <<a, b, c, d, e, f, g>>
    PROVE  s \in Seq(X) /\ s # <<>> /\ s[1] = a /\ s[Len(s)] = g
  OBVIOUS

\* Its line gives a route or no header.
LEMMA RecordSounds == IsSeq(RecordLine) /\ Sounds(ParsedOf(RecordLine), RouteName)
<1> DEFINE text == RecordText
           X == Token \ {Comma, Quote, AtSign}
<1>1. RecordLine = HeaderLine(RouteName, text)
  <2>1. RecordLine = <<RouteName, Colon, Space, Langle, SipWord, Colon, ProxyWord, Semi, LrWord,
                       Rangle>>
    BY DEF RecordLine, RouteName, Colon, Space, Langle, SipWord, ProxyWord, Semi, LrWord, Rangle
  <2> QED
    BY <2>1, TenCons DEF HeaderLine, RecordText
<1>2. /\ Langle \in X /\ SipWord \in X /\ Colon \in X /\ ProxyWord \in X /\ Semi \in X
      /\ LrWord \in X /\ Rangle \in X
  <2>1. ProxyWord \in Word
    BY FixedAreWords DEF FixedWords
  <2>2. LrWord \in X
    <3>1. LrWord \in Token
      BY FixedAreWords, WordIs DEF FixedWords
    <3>2. LrWord \notin {Comma, Quote, AtSign}
      BY DEF LrWord, Comma, Quote, AtSign
    <3> QED
      BY <3>1, <3>2
  <2>3. SipWord \notin {Comma, Quote, AtSign}
    BY MarksDiffer DEF MarkSet
  <2> QED
    BY <2>1, <2>2, <2>3, WordIs, MarksAreTokens, MarksDiffer
<1>3. text \in Seq(X) /\ text # <<>> /\ text[1] = Langle /\ text[Len(text)] = Rangle
  <2> HIDE DEF X
  <2> QED
    BY <1>2, SevenAt DEF RecordText
<1> HIDE DEF text
<1>4. text \in Seq(Token \ {Comma, Quote}) /\ text \in Seq(Token \ {AtSign}) /\ text \in Seq(Token)
  <2>1. X \subseteq Token \ {Comma, Quote} /\ X \subseteq Token \ {AtSign} /\ X \subseteq Token
    OBVIOUS
  <2> HIDE DEF X
  <2> QED
    BY <1>3, <2>1, SeqMonotonic
<1>5. Langle \notin Blank /\ Rangle \notin Blank
  BY BlankIs, MarksDiffer
<1>6. ParsedOf(HeaderLine(RouteName, text)) = ParseValue(RouteName, text).headers
  BY <1>3, <1>4, <1>5, NamedLine
<1>7. RouteName \in RouteKinds /\ RouteName \in Token
  BY FixedAreWords, WordIs DEF RouteKinds, RouteName, NameWords
<1>8. Sounds(ParseValue(RouteName, text).headers, RouteName)
  BY <1>3, <1>4, <1>7, RouteSounds
<1>9. IsSeq(HeaderLine(RouteName, text))
  BY <1>4, <1>7, HeaderLineIs DEF IsSeq
<1> QED
  BY <1>1, <1>6, <1>8, <1>9

\* A response is a record of its parts, as a request is.
IsAnswer(resp) ==
    resp = [type |-> resp.type, status |-> resp.status, reason |-> resp.reason,
            version |-> resp.version, headers |-> resp.headers, body |-> resp.body]
\* A message but for its headers and its body.
Framework(msg) ==
    /\ msg.version = Version
    /\ \/ IsReq(msg) /\ msg.type = "request" /\ IsWhole(msg.recipient)
       \/ IsAnswer(msg) /\ msg.type = "response"

\* What a start line gives.
LEMMA StartFramed ==
    ASSUME NEW l, IsSeq(l)
    PROVE  \/ ParseStartLine(l) = Nil
           \/ \E bare : ParseStartLine(l) = Some(bare) /\ Framework(bare)
<1> DEFINE parts == Split(l, " ")
<1>1. PICK T : l \in Seq(T)
  BY DEF IsSeq
<1>2. parts \in Seq(Seq(T))
  BY <1>1, SplitType
<1>3. CASE IsRequest(l)
  <2> DEFINE uri == ParseURI(parts[2])
             req == NewRequest(parts[1][1], uri.uri, <<>>, <<>>)
  <2>1. ParseStartLine(l) = Nil \/ ParseStartLine(l) = Some(req)
    BY <1>3 DEF ParseStartLine, RequestTo
  <2>2. Len(parts) = 3
    BY <1>3 DEF IsRequest
  <2> HIDE DEF parts
  <2>3. parts[2] \in Seq(T)
    BY <1>2, <2>2
  <2>4. uri.uri \in WholeURIs(T)
    BY <2>3, ParseURIWhole
  <2>5. IsWhole(uri.uri)
    BY <2>4 DEF IsWhole
  <2> HIDE DEF uri
  <2>6. IsReq(req) /\ req.type = "request" /\ req.recipient = uri.uri /\ req.version = Version
    BY DEF NewRequest, NewMessage, IsReq
  <2> HIDE DEF req
  <2> QED
    BY <2>1, <2>5, <2>6 DEF Framework
<1>4. CASE ~IsRequest(l)
  <2> DEFINE status == CHOOSE s \in Statuses : parts[2] = <<ToString(s)>>
             reason == Join(After(parts, 2), <<" ">>)
             resp == NewResponse(status, reason, <<>>, <<>>)
  <2>1. ParseStartLine(l) = Nil \/ ParseStartLine(l) = Some(resp)
    BY <1>4 DEF ParseStartLine
  <2> HIDE DEF status, reason, parts
  <2>2. IsAnswer(resp) /\ resp.type = "response" /\ resp.version = Version
    BY DEF NewResponse, NewMessage, IsAnswer
  <2> HIDE DEF resp
  <2> QED
    BY <2>1, <2>2 DEF Framework
<1> QED
  BY <1>3, <1>4

\* The body of a packet without its start line.
BodyPart(lines) ==
    LET end == SelectInSeq(lines, LAMBDA l : l = <<>>)
    IN IF end = 0 THEN <<>> ELSE After(lines, end)
\* The headers of its lines.
HeaderPart(lines) == Flat(Each(ParsedOf, HeaderTexts(lines)))

\* What a packet is parsed to.
LEMMA ParsedIs ==
    ASSUME NEW packet, IsSeq(packet[1])
    PROVE  \/ ParseMessage(packet) = Nil
           \/ \E msg : /\ ParseMessage(packet) = Some(msg) /\ Framework(msg)
                       /\ msg.headers = AppendAll(<<>>, HeaderPart(After(packet, 1)))
                       /\ msg.body = BodyPart(After(packet, 1))
<1> DEFINE bare == ParseStartLine(packet[1])
           lines == After(packet, 1)
           headers == AppendAll(<<>>, HeaderPart(lines))
           body == BodyPart(lines)
           msg == [bare[1] EXCEPT !.headers = headers, !.body = body]
<1>1. ParseMessage(packet) = IF bare = Nil THEN Nil ELSE Complete(msg)
  BY DEF ParseMessage, ReadHeaders, ParsedOf, Each, BodyPart, HeaderPart
<1>2. Complete(msg) = Nil \/ Complete(msg) = Some(msg)
  BY DEF Complete
<1>3. bare = Nil \/ \E b : bare = Some(b) /\ Framework(b)
  BY StartFramed
<1> HIDE DEF headers, body, bare
<1>4. ASSUME NEW b, bare = Some(b), Framework(b)
      PROVE  Framework(msg) /\ msg.headers = headers /\ msg.body = body
  <2>1. bare[1] = b
    BY <1>4 DEF Some
  <2>2. msg = [b EXCEPT !.headers = headers, !.body = body]
    BY <2>1
  <2> HIDE DEF msg
  <2>3. CASE IsReq(b) /\ b.type = "request" /\ IsWhole(b.recipient)
    <3>1. b = [type |-> b.type, method |-> b.method, recipient |-> b.recipient,
               version |-> b.version, headers |-> b.headers, body |-> b.body]
      BY <2>3 DEF IsReq
    <3>2. msg = [type |-> b.type, method |-> b.method, recipient |-> b.recipient,
                 version |-> b.version, headers |-> headers, body |-> body]
      BY <2>2, <3>1
    <3> QED
      BY <1>4, <2>3, <3>2 DEF IsReq, Framework
  <2>4. CASE IsAnswer(b) /\ b.type = "response"
    <3>1. b = [type |-> b.type, status |-> b.status, reason |-> b.reason,
               version |-> b.version, headers |-> b.headers, body |-> b.body]
      BY <2>4 DEF IsAnswer
    <3>2. msg = [type |-> b.type, status |-> b.status, reason |-> b.reason,
                 version |-> b.version, headers |-> headers, body |-> body]
      BY <2>2, <3>1
    <3> QED
      BY <1>4, <2>4, <3>2 DEF IsAnswer, Framework
  <2> QED
    BY <1>4, <2>3, <2>4 DEF Framework
<1> HIDE DEF msg
<1> QED
  BY <1>1, <1>2, <1>3, <1>4 DEF headers, body

\* Lines that are read one by one: none continues another, and what each gives is
\* sound.
Plainly(M) ==
    /\ Unfolded(M)
    /\ \A l \in M : IsSeq(ParsedOf(l)) /\ \A h \in Range(ParsedOf(l)) : IsSound(h)

\* What a packet of such lines is parsed to.
LEMMA PacketSound ==
    ASSUME NEW M, Plainly(M), NEW T, NEW packet, IsSeq(packet[1]), NEW lines \in Seq(T),
           lines = After(packet, 1),
           \A i \in 1..Len(lines) : lines[i] \in M \/ \E b \in 1..i : lines[b] = <<>>,
           NEW msg, ParseMessage(packet) = Some(msg)
    PROVE  /\ Framework(msg) /\ msg.body = BodyPart(lines)
           /\ \E H : /\ \A h \in H : IsSound(h)
                     /\ HeaderPart(lines) \in Seq(H) /\ msg.headers \in Neat(H)
                     /\ msg.headers = AppendAll(<<>>, HeaderPart(lines))
<1>1. Some(msg) # Nil /\ \A m : Some(m) = Some(msg) => m = msg
  BY DEF Some, Nil
<1>2. Framework(msg) /\ msg.headers = AppendAll(<<>>, HeaderPart(lines)) /\ msg.body = BodyPart(lines)
  BY <1>1, ParsedIs
<1>3. HeaderTexts(lines) \in Seq(M)
  BY HeaderTextsIn DEF Plainly
<1>4. \E H : /\ \A h \in H : IsSound(h)
             /\ HeaderPart(lines) \in Seq(H)
             /\ AppendAll(<<>>, HeaderPart(lines)) \in Neat(H)
  BY <1>3, TextsSound DEF Plainly, HeaderPart
<1> QED
  BY <1>2, <1>4

\* What is read of such a packet is cloned equal, when its length is announced.
THEOREM ReadCloned ==
    ASSUME NEW M, Plainly(M), NEW T, NEW packet, IsSeq(packet[1]), NEW lines \in Seq(T),
           lines = After(packet, 1),
           \A i \in 1..Len(lines) : lines[i] \in M \/ \E b \in 1..i : lines[b] = <<>>,
           NEW msg, ParseMessage(packet) = Some(msg),
           msg.body # <<>> =>
            FirstHeader(msg.headers, LengthName) = Some(Header(LengthName, Len(msg.body)))
    PROVE  Cloned(msg)
<1>1. /\ Framework(msg)
      /\ \E H : (\A h \in H : IsSound(h)) /\ msg.headers \in Neat(H)
  BY PacketSound
<1>2. PICK H : (\A h \in H : IsSound(h)) /\ msg.headers \in Neat(H)
  BY <1>1
<1>3. /\ msg.version = Version /\ msg.type \in {"request", "response"}
      /\ msg.type = "request" => IsWhole(msg.recipient)
  BY <1>1 DEF Framework
<1>4. SoundMessage(H, msg)
  BY <1>2, <1>3 DEF SoundMessage
<1> QED
  BY <1>4, ClonedMessage

================================================================================
