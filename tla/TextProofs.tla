------------------------------ MODULE TextProofs -------------------------------
(***************************************************************************)
(* Theorems about the helpers of Params and the text functions: the folds  *)
(* that the parsers are written with, what concatenation, search and       *)
(* splitting do to a text. Induction over the length of a text is done     *)
(* once, in SetInduction and SeqInduction, with a set of numbers or texts  *)
(* in the place of a predicate; every function that walks a text is then   *)
(* shown to be a fold, and its behaviour follows from that of folds.       *)
(***************************************************************************)
EXTENDS Messages, Manscdp, WellFoundedInduction, SequenceTheorems, TLAPS

\* Induction over the numbers, with a set in the place of a predicate.
LEMMA SetInduction ==
    ASSUME NEW S, 0 \in S, \A n \in Nat : n \in S => n + 1 \in S
    PROVE  Nat \subseteq S
<1> DEFINE T == Nat \ S
           R == OpToRel(<, Nat)
<1> SUFFICES ASSUME T # {} PROVE FALSE
  OBVIOUS
<1>1. IsWellFoundedOn(R, Nat)
  BY NatLessThanWellFounded
<1>2. PICK x \in T : \A y \in T : <<y, x>> \notin R
  <2> HIDE DEF R
  <2>1. T \subseteq Nat
    OBVIOUS
  <2> HIDE DEF T
  <2> QED
    BY <1>1, <2>1, WFMin
<1>3. \A a, b \in Nat : <<a, b>> \in R <=> a < b
  BY DEF OpToRel
<1> HIDE DEF R
<1>4. x \in Nat /\ x # 0
  OBVIOUS
<1>5. x - 1 \in Nat /\ x - 1 < x
  BY <1>4
<1>6. <<x - 1, x>> \in R
  BY <1>3, <1>4, <1>5
<1>7. x - 1 \notin T
  <2> HIDE DEF T
  <2> QED
    BY <1>2, <1>6
<1> QED
  BY <1>4, <1>5, <1>7

\* A set of sequences with the empty one and all that extend one of its own.
LEMMA SeqInduction ==
    ASSUME NEW T, NEW S, <<>> \in S,
           \A s \in Seq(T), t \in T : s \in S => Append(s, t) \in S
    PROVE  Seq(T) \subseteq S
<1> DEFINE K == {k \in Nat : \A s \in Seq(T) : Len(s) = k => s \in S}
<1>1. 0 \in K
  OBVIOUS
<1>2. ASSUME NEW k \in Nat, k \in K
      PROVE  k + 1 \in K
  <2> SUFFICES ASSUME NEW s \in Seq(T), Len(s) = k + 1
               PROVE  s \in S
    OBVIOUS
  <2>1. PICK r \in Seq(T), t \in T : s = Append(r, t)
    BY SequenceEmptyOrAppend
  <2>2. Len(r) = k
    BY <2>1
  <2> QED
    BY <1>2, <2>1, <2>2
<1>3. Nat \subseteq K
  <2> HIDE DEF K
  <2> QED
    BY <1>1, <1>2, SetInduction
<1> QED
  BY <1>3

\* Opaque, as a function set is not when a lemma is used.
Ops(S, T) == [S -> [T -> S]]

\* A step of an operation of Ops stays among its states.
LEMMA OpsApply ==
    ASSUME NEW S, NEW T, NEW F \in Ops(S, T), NEW s \in S, NEW t \in T
    PROVE  F[s][t] \in S
  BY DEF Ops

\* The states of a fold of F over seq.
Runs(g, F, base, seq) ==
    /\ g[0] = base
    /\ \A i \in 1..Len(seq) : g[i] = F[g[i - 1]][seq[i]]

\* An operation can be run along every sequence.
LEMMA RunExists ==
    ASSUME NEW S, NEW T, NEW F \in Ops(S, T), NEW base \in S, NEW seq \in Seq(T)
    PROVE  \E g \in [0..Len(seq) -> S] : Runs(g, F, base, seq)
<1> DEFINE Good(s) == \E g \in [0..Len(s) -> S] : Runs(g, F, base, s)
           K == {s \in Seq(T) : Good(s)}
<1>1. <<>> \in K
  <2> DEFINE g == [i \in 0..0 |-> base]
  <2>1. g \in [0..Len(<<>>) -> S] /\ Runs(g, F, base, <<>>)
    BY DEF Runs
  <2> QED
    BY <2>1
<1>2. ASSUME NEW s \in Seq(T), NEW t \in T, s \in K
      PROVE  Append(s, t) \in K
  <2>0. Good(s)
    BY <1>2
  <2>1. PICK g \in [0..Len(s) -> S] : Runs(g, F, base, s)
    BY <2>0
  <2> DEFINE n == Len(s)
             r == Append(s, t)
             h == [i \in 0..(n + 1) |-> IF i = n + 1 THEN F[g[n]][t] ELSE g[i]]
  <2>2. n \in Nat /\ Len(r) = n + 1 /\ r \in Seq(T) /\ r[n + 1] = t
        /\ \A i \in 1..n : r[i] = s[i]
    OBVIOUS
  <2>3. g[n] \in S /\ F[g[n]][t] \in S
    <3>1. n \in 0..Len(s)
      OBVIOUS
    <3>2. g[n] \in S
      BY <3>1
    <3> QED
      BY <3>2, OpsApply
  <2> HIDE DEF n, r
  <2>4. h \in [0..(n + 1) -> S]
    BY <2>1, <2>2, <2>3 DEF n
  <2>5. h[0] = base
    BY <2>1, <2>2 DEF Runs
  <2>6. ASSUME NEW i \in 1..(n + 1)
        PROVE  h[i] = F[h[i - 1]][r[i]]
    <3>1. CASE i = n + 1
      BY <2>2, <3>1
    <3>2. CASE i # n + 1
      <4>1. i \in 1..n
        BY <2>2, <3>2
      <4>2. h[i] = g[i] /\ h[i - 1] = g[i - 1]
        BY <2>2, <4>1
      <4>3. g[i] = F[g[i - 1]][s[i]]
        BY <2>1, <4>1 DEF Runs, n
      <4> QED
        BY <2>2, <4>1, <4>2, <4>3
    <3> QED
      BY <3>1, <3>2
  <2> HIDE DEF h
  <2>7. Runs(h, F, base, r)
    BY <2>2, <2>5, <2>6 DEF Runs
  <2>8. Good(r)
    BY <2>2, <2>4, <2>7
  <2> QED
    BY <2>2, <2>8 DEF r
<1>3. seq \in K
  <2> HIDE DEF K
  <2> QED
    BY <1>1, <1>2, SeqInduction
<1> QED
  BY <1>3

\* Two runs of an operation along a sequence pass through the same states.
LEMMA RunsAgree ==
    ASSUME NEW F, NEW base, NEW T, NEW seq \in Seq(T), NEW g, NEW h,
           Runs(g, F, base, seq), Runs(h, F, base, seq)
    PROVE  \A i \in 0..Len(seq) : g[i] = h[i]
<1> DEFINE K == {k \in Nat : k <= Len(seq) => g[k] = h[k]}
<1>1. 0 \in K
  BY DEF Runs
<1>2. ASSUME NEW k \in Nat, k \in K
      PROVE  k + 1 \in K
  <2> SUFFICES ASSUME k + 1 <= Len(seq)
               PROVE  g[k + 1] = h[k + 1]
    OBVIOUS
  <2>1. g[k] = h[k] /\ k + 1 \in 1..Len(seq) /\ (k + 1) - 1 = k
    BY <1>2
  <2> QED
    BY <2>1 DEF Runs
<1>3. Nat \subseteq K
  <2> HIDE DEF K
  <2> QED
    BY <1>1, <1>2, SetInduction
<1> QED
  BY <1>3

\* What a fold comes to.
Fold(F, base, seq) == (CHOOSE g : Runs(g, F, base, seq))[Len(seq)]

\* Where any run ends is the fold.
LEMMA FoldIs ==
    ASSUME NEW F, NEW base, NEW T, NEW seq \in Seq(T), NEW g, Runs(g, F, base, seq)
    PROVE  Fold(F, base, seq) = g[Len(seq)]
<1> DEFINE h == CHOOSE h : Runs(h, F, base, seq)
<1>1. Runs(h, F, base, seq)
  OBVIOUS
<1>2. Len(seq) \in 0..Len(seq)
  OBVIOUS
<1> HIDE DEF h
<1>3. h[Len(seq)] = g[Len(seq)]
  BY <1>1, <1>2, RunsAgree
<1> QED
  BY <1>3 DEF h, Fold

\* A fold along nothing.
LEMMA FoldEmpty ==
    ASSUME NEW F, NEW base
    PROVE  Fold(F, base, <<>>) = base
<1> DEFINE g == [i \in 0..0 |-> base]
<1>1. Runs(g, F, base, <<>>) /\ g[0] = base
  BY DEF Runs
<1>2. <<>> \in Seq({}) /\ Len(<<>>) = 0
  OBVIOUS
<1> HIDE DEF g
<1>3. Fold(F, base, <<>>) = g[Len(<<>>)]
  BY <1>1, <1>2, FoldIs
<1> QED
  BY <1>1, <1>2, <1>3

\* A fold ends in a state of the operation.
LEMMA FoldType ==
    ASSUME NEW S, NEW T, NEW F \in Ops(S, T), NEW base \in S, NEW seq \in Seq(T)
    PROVE  Fold(F, base, seq) \in S
<1>1. PICK g \in [0..Len(seq) -> S] : Runs(g, F, base, seq)
  BY RunExists
<1>2. Fold(F, base, seq) = g[Len(seq)]
  BY <1>1, FoldIs
<1> QED
  BY <1>1, <1>2

\* A fold takes its last step last.
LEMMA FoldAppend ==
    ASSUME NEW S, NEW T, NEW F \in Ops(S, T), NEW base \in S, NEW seq \in Seq(T), NEW t \in T
    PROVE  Fold(F, base, Append(seq, t)) = F[Fold(F, base, seq)][t]
<1> DEFINE r == Append(seq, t)
           n == Len(seq)
<1>1. r \in Seq(T) /\ Len(r) = n + 1 /\ n \in Nat /\ r[n + 1] = t
      /\ \A i \in 1..n : r[i] = seq[i]
  OBVIOUS
<1> HIDE DEF r
<1>2. PICK g \in [0..Len(r) -> S] : Runs(g, F, base, r)
  BY <1>1, RunExists
<1>3. Runs(g, F, base, seq)
  <2>1. \A i \in 1..n : i \in 1..Len(r) /\ r[i] = seq[i]
    BY <1>1
  <2> QED
    BY <1>2, <2>1 DEF Runs
<1>4. Fold(F, base, r) = g[n + 1]
  BY <1>1, <1>2, FoldIs
<1>5. Fold(F, base, seq) = g[n]
  BY <1>3, FoldIs
<1>6. g[n + 1] = F[g[n]][r[n + 1]]
  <2> HIDE DEF n
  <2>1. n + 1 \in 1..Len(r) /\ (n + 1) - 1 = n
    BY <1>1
  <2> QED
    BY <1>2, <2>1 DEF Runs
<1> QED
  BY <1>1, <1>4, <1>5, <1>6 DEF r

\* h is a run of F for as long as its states are in S.
Follows(h, S, F, base, seq) ==
    /\ h[0] = base
    /\ \A i \in 1..Len(seq) : h[i - 1] \in S => h[i] = F[h[i - 1]][seq[i]]

\* Whatever follows an operation from its base ends in the fold.
LEMMA FollowsFold ==
    ASSUME NEW S, NEW T, NEW F \in Ops(S, T), NEW base \in S, NEW seq \in Seq(T),
           NEW h, Follows(h, S, F, base, seq)
    PROVE  h[Len(seq)] = Fold(F, base, seq)
<1>1. PICK g \in [0..Len(seq) -> S] : Runs(g, F, base, seq)
  BY RunExists
<1> DEFINE K == {k \in Nat : k <= Len(seq) => h[k] = g[k]}
<1>2. 0 \in K
  BY <1>1 DEF Runs, Follows
<1>3. ASSUME NEW k \in Nat, k \in K
      PROVE  k + 1 \in K
  <2> SUFFICES ASSUME k + 1 <= Len(seq)
               PROVE  g[k + 1] = h[k + 1]
    OBVIOUS
  <2>1. h[k] = g[k] /\ k \in 0..Len(seq) /\ k + 1 \in 1..Len(seq) /\ (k + 1) - 1 = k
    BY <1>3
  <2>2. g[k] \in S
    BY <2>1
  <2>3. h[k + 1] = F[h[k]][seq[k + 1]]
    BY <2>1, <2>2 DEF Follows
  <2>4. g[k + 1] = F[g[k]][seq[k + 1]]
    BY <1>1, <2>1 DEF Runs
  <2> QED
    BY <2>1, <2>3, <2>4
<1>4. Nat \subseteq K
  <2> HIDE DEF K
  <2> QED
    BY <1>2, <1>3, SetInduction
<1>5. Fold(F, base, seq) = g[Len(seq)]
  BY <1>1, FoldIs
<1>6. Len(seq) \in Nat /\ Len(seq) <= Len(seq)
  OBVIOUS
<1> QED
  BY <1>4, <1>5, <1>6

\* The run as the recursive function by which the helpers of Params are written.
LEMMA RunIs ==
    ASSUME NEW S, NEW T, NEW F \in Ops(S, T), NEW base \in S, NEW seq \in Seq(T)
    PROVE  \E g : /\ g = [i \in 0..Len(seq) |-> IF i = 0 THEN base ELSE F[g[i - 1]][seq[i]]]
                  /\ \A i \in 1..Len(seq) : g[i - 1] \in S /\ seq[i] \in T
<1>1. PICK g \in [0..Len(seq) -> S] : Runs(g, F, base, seq)
  BY RunExists
<1>2. \A i \in 0..Len(seq) : g[i] = IF i = 0 THEN base ELSE F[g[i - 1]][seq[i]]
  BY <1>1 DEF Runs
<1>3. ASSUME NEW i \in 1..Len(seq)
      PROVE  g[i - 1] \in S /\ seq[i] \in T
  <2>1. i - 1 \in 0..Len(seq)
    OBVIOUS
  <2> QED
    BY <2>1, ElementOfSeq
<1>4. g = [i \in 0..Len(seq) |-> g[i]]
  OBVIOUS
<1> QED
  BY <1>2, <1>3, <1>4

FlatF(T) == [s \in Seq(T) |-> [t \in Seq(T) |-> s \o t]]
\* Flat is the fold of concatenation.
LEMMA FlatFold ==
    ASSUME NEW T, NEW seqs \in Seq(Seq(T))
    PROVE  Flat(seqs) = Fold(FlatF(T), <<>>, seqs)
<1> DEFINE S == Seq(T)
           F == FlatF(T)
           eq(g) == g = [i \in 0..Len(seqs) |-> IF i = 0 THEN <<>> ELSE g[i - 1] \o seqs[i]]
           h == CHOOSE g : eq(g)
<1>1. F \in Ops(S, S) /\ <<>> \in S
  BY DEF FlatF, Ops
<1>2. eq(h)
  <2>1. PICK g : /\ g = [i \in 0..Len(seqs) |-> IF i = 0 THEN <<>> ELSE F[g[i - 1]][seqs[i]]]
                 /\ \A i \in 1..Len(seqs) : g[i - 1] \in S /\ seqs[i] \in S
    <3> HIDE DEF F, S
    <3> QED
      BY <1>1, RunIs DEF S
  <2>2. eq(g)
    BY <2>1 DEF FlatF
  <2> HIDE DEF eq
  <2> QED
    BY <2>2
<1>3. Follows(h, S, F, <<>>, seqs)
  <2> HIDE DEF h
  <2> QED
    BY <1>2 DEF Follows, FlatF
<1>4. Flat(seqs) = h[Len(seqs)]
  BY DEF Flat, Scan
<1> HIDE DEF h, F, S
<1>5. seqs \in Seq(S)
  BY DEF S
<1> QED
  BY <1>1, <1>3, <1>4, <1>5, FollowsFold DEF F

\* A fold along two sequences, one after the other.
LEMMA FoldConcat ==
    ASSUME NEW S, NEW T, NEW F \in Ops(S, T), NEW base \in S,
           NEW u \in Seq(T), NEW v \in Seq(T)
    PROVE  Fold(F, base, u \o v) = Fold(F, Fold(F, base, u), v)
<1> DEFINE K == {s \in Seq(T) : Fold(F, base, u \o s) = Fold(F, Fold(F, base, u), s)}
<1>1. Fold(F, base, u) \in S
  BY FoldType
<1>2. <<>> \in K
  <2>1. Fold(F, Fold(F, base, u), <<>>) = Fold(F, base, u)
    BY <1>1, FoldEmpty
  <2>2. u \o <<>> = u /\ <<>> \in Seq(T)
    OBVIOUS
  <2> QED
    BY <2>1, <2>2
<1>3. ASSUME NEW s \in Seq(T), NEW t \in T, s \in K
      PROVE  Append(s, t) \in K
  <2> DEFINE w == u \o s
             b == Fold(F, base, u)
             r == Append(s, t)
  <2>1. u \o r = Append(w, t) /\ w \in Seq(T) /\ r \in Seq(T)
    OBVIOUS
  <2>2. Fold(F, base, w) = Fold(F, b, s)
    BY <1>3
  <2> HIDE DEF w, K
  <2>3. Fold(F, base, Append(w, t)) = F[Fold(F, base, w)][t]
    BY <2>1, FoldAppend
  <2> HIDE DEF b
  <2>4. b \in S
    BY <1>1 DEF b
  <2>5. Fold(F, b, Append(s, t)) = F[Fold(F, b, s)][t]
    BY <2>4, FoldAppend
  <2>6. Fold(F, base, u \o r) = Fold(F, b, r)
    BY <2>1, <2>2, <2>3, <2>5
  <2> QED
    BY <2>1, <2>6 DEF K, b
<1>4. Seq(T) \subseteq K
  <2> HIDE DEF K
  <2> QED
    BY <1>2, <1>3, SeqInduction
<1> QED
  BY <1>4

-----------------------------------------------------------------------------
(* Sequences *)

\* Sequences with the same elements are equal.
LEMMA SameSeq ==
    ASSUME NEW T, NEW s \in Seq(T), NEW t \in Seq(T), Len(s) = Len(t),
           \A i \in 1..Len(s) : s[i] = t[i]
    PROVE  s = t
  OBVIOUS

\* What a concatenation is, and how long.
LEMMA CatType ==
    ASSUME NEW T, NEW u \in Seq(T), NEW v \in Seq(T)
    PROVE  u \o v \in Seq(T) /\ Len(u \o v) = Len(u) + Len(v) /\ Len(u) \in Nat /\ Len(v) \in Nat
  OBVIOUS
\* The elements of a concatenation that come from its left part.
LEMMA CatLeft ==
    ASSUME NEW T, NEW u \in Seq(T), NEW v \in Seq(T), NEW i \in 1..Len(u)
    PROVE  (u \o v)[i] = u[i]
  OBVIOUS
\* Those that come from its right part.
LEMMA CatRight ==
    ASSUME NEW T, NEW u \in Seq(T), NEW v \in Seq(T), NEW i \in 1..Len(v)
    PROVE  (u \o v)[Len(u) + i] = v[i]
  OBVIOUS

\* The three facts above, for a concatenation that has a name.
LEMMA CatIs ==
    ASSUME NEW T, NEW u \in Seq(T), NEW v \in Seq(T), NEW w, w = u \o v
    PROVE  /\ w \in Seq(T) /\ Len(w) = Len(u) + Len(v) /\ Len(u) \in Nat /\ Len(v) \in Nat
           /\ \A i \in 1..Len(u) : w[i] = u[i]
           /\ \A i \in 1..Len(v) : w[Len(u) + i] = v[i]
<1>1. w \in Seq(T) /\ Len(w) = Len(u) + Len(v) /\ Len(u) \in Nat /\ Len(v) \in Nat
  BY CatType
<1>2. \A i \in 1..Len(u) : w[i] = u[i]
  BY CatLeft
<1>3. \A i \in 1..Len(v) : w[Len(u) + i] = v[i]
  BY CatRight
<1> QED
  BY <1>1, <1>2, <1>3

\* Concatenation is associative.
LEMMA CatAssoc ==
    ASSUME NEW T, NEW u \in Seq(T), NEW v \in Seq(T), NEW w \in Seq(T)
    PROVE  (u \o v) \o w = u \o (v \o w)
  OBVIOUS

\* To append an element is to concatenate it.
LEMMA AppendOne ==
    ASSUME NEW T, NEW u \in Seq(T), NEW t \in T
    PROVE  Append(u, t) = u \o <<t>>
  OBVIOUS

\* Nothing is the unit of concatenation.
LEMMA CatEmpty ==
    ASSUME NEW T, NEW u \in Seq(T)
    PROVE  u \o <<>> = u /\ <<>> \o u = u
  OBVIOUS

\* What a stretch of a sequence is, and how long.
LEMMA SubType ==
    ASSUME NEW T, NEW s \in Seq(T), NEW m \in 1..(Len(s) + 1), NEW n \in (m - 1)..Len(s)
    PROVE  SubSeq(s, m, n) \in Seq(T) /\ Len(SubSeq(s, m, n)) = n - m + 1
  OBVIOUS
\* The elements of a stretch.
LEMMA SubAt ==
    ASSUME NEW T, NEW s \in Seq(T), NEW m \in 1..(Len(s) + 1), NEW n \in (m - 1)..Len(s),
           NEW i \in 1..(n - m + 1)
    PROVE  SubSeq(s, m, n)[i] = s[m + i - 1]
  OBVIOUS

\* The two parts of a text.
LEMMA UptoCat ==
    ASSUME NEW T, NEW u \in Seq(T), NEW v \in Seq(T)
    PROVE  Upto(u \o v, Len(u)) = u /\ After(u \o v, Len(u)) = v
<1> DEFINE s == u \o v
<1>1. /\ s \in Seq(T) /\ Len(s) = Len(u) + Len(v) /\ Len(u) \in Nat /\ Len(v) \in Nat
      /\ \A i \in 1..Len(u) : s[i] = u[i]
      /\ \A i \in 1..Len(v) : s[Len(u) + i] = v[i]
  BY CatType, CatLeft, CatRight
<1> HIDE DEF s
<1>2. SubSeq(s, 1, Len(u)) = u
  <2>1. 1 \in 1..(Len(s) + 1) /\ Len(u) \in (1 - 1)..Len(s) /\ Len(u) - 1 + 1 = Len(u)
    BY <1>1
  <2>2. SubSeq(s, 1, Len(u)) \in Seq(T) /\ Len(SubSeq(s, 1, Len(u))) = Len(u)
    BY <1>1, <2>1, SubType
  <2>3. ASSUME NEW i \in 1..Len(u) PROVE SubSeq(s, 1, Len(u))[i] = u[i]
    <3>1. SubSeq(s, 1, Len(u))[i] = s[1 + i - 1] /\ 1 + i - 1 = i
      BY <1>1, <2>1, SubAt
    <3> QED
      BY <1>1, <3>1
  <2> QED
    BY <2>2, <2>3, SameSeq
<1>3. SubSeq(s, Len(u) + 1, Len(s)) = v
  <2> DEFINE m == Len(u) + 1
             r == SubSeq(s, m, Len(s))
  <2>1. m \in 1..(Len(s) + 1) /\ Len(s) \in (m - 1)..Len(s) /\ Len(s) - m + 1 = Len(v)
    BY <1>1
  <2>2. r \in Seq(T) /\ Len(r) = Len(v)
    <3> HIDE DEF m
    <3> QED
      BY <1>1, <2>1, SubType
  <2>3. ASSUME NEW i \in 1..Len(v) PROVE r[i] = v[i]
    <3>1. m + i - 1 = Len(u) + i
      BY <1>1
    <3> HIDE DEF m
    <3>2. r[i] = s[m + i - 1]
      BY <1>1, <2>1, SubAt
    <3> QED
      BY <1>1, <3>1, <3>2
  <2> HIDE DEF r
  <2>4. r = v
    BY <2>2, <2>3, SameSeq
  <2> QED
    BY <2>4 DEF r
<1> QED
  BY <1>2, <1>3 DEF s, Upto, After

-----------------------------------------------------------------------------
(* Tokens in texts *)

Free(text, tokens) == \A i \in DOMAIN text : text[i] \notin tokens

\* A concatenation is free of the tokens that both of its parts are free of.
LEMMA FreeCat ==
    ASSUME NEW T, NEW u \in Seq(T), NEW v \in Seq(T), NEW tokens
    PROVE  Free(u \o v, tokens) <=> Free(u, tokens) /\ Free(v, tokens)
<1>1. /\ Len(u) \in Nat /\ Len(v) \in Nat
      /\ DOMAIN u = 1..Len(u) /\ DOMAIN v = 1..Len(v) /\ DOMAIN (u \o v) = 1..(Len(u) + Len(v))
      /\ \A i \in 1..Len(u) : (u \o v)[i] = u[i]
      /\ \A i \in 1..Len(v) : (u \o v)[Len(u) + i] = v[i]
  BY CatType, CatLeft, CatRight
<1>2. ASSUME Free(u \o v, tokens) PROVE Free(u, tokens) /\ Free(v, tokens)
  <2>1. \A i \in 1..Len(u) : i \in 1..(Len(u) + Len(v))
    BY <1>1
  <2>2. \A i \in 1..Len(v) : Len(u) + i \in 1..(Len(u) + Len(v))
    BY <1>1
  <2> QED
    BY <1>1, <1>2, <2>1, <2>2 DEF Free
<1>3. ASSUME Free(u, tokens), Free(v, tokens) PROVE Free(u \o v, tokens)
  <2>1. SUFFICES ASSUME NEW i \in 1..(Len(u) + Len(v)) PROVE (u \o v)[i] \notin tokens
    BY <1>1 DEF Free
  <2>2. CASE i <= Len(u)
    BY <1>1, <1>3, <2>2 DEF Free
  <2>3. CASE i > Len(u)
    <3>1. i - Len(u) \in 1..Len(v) /\ Len(u) + (i - Len(u)) = i
      BY <1>1, <2>3
    <3>2. (u \o v)[i] = v[i - Len(u)]
      BY <1>1, <3>1
    <3> QED
      BY <1>1, <1>3, <3>1, <3>2 DEF Free
  <2> QED
    BY <1>1, <2>2, <2>3
<1> QED
  BY <1>2, <1>3

\* The least member, from its definition.
LEMMA MinIs ==
    ASSUME NEW S \in SUBSET Int, NEW x \in S, \A y \in S : x <= y
    PROVE  Min(S) = x
<1>1. \A z \in S : (\A y \in S : z <= y) => z = x
  OBVIOUS
<1> QED
  BY <1>1 DEF Min

\* The greatest member, from its definition.
LEMMA MaxIs ==
    ASSUME NEW S \in SUBSET Int, NEW x \in S, \A y \in S : y <= x
    PROVE  Max(S) = x
<1>1. \A z \in S : (\A y \in S : z >= y) => z = x
  OBVIOUS
<1>2. \A y \in S : x >= y
  OBVIOUS
<1> QED
  BY <1>1, <1>2 DEF Max

\* Every set of numbers that is not empty has a least member.
LEMMA MinIn ==
    ASSUME NEW S \in SUBSET Nat, S # {}
    PROVE  Min(S) \in S /\ \A y \in S : Min(S) <= y
<1> DEFINE K == {n \in Nat : \A y \in S : n <= y}
<1>1. PICK x \in S : \A y \in S : x <= y
  <2> SUFFICES ASSUME \A x \in S : \E y \in S : y < x
               PROVE  FALSE
    <3>1. ASSUME NEW x \in S, NEW y \in S
          PROVE  x <= y \/ y < x
      OBVIOUS
    <3> QED
      BY <3>1
  <2>1. 0 \in K
    OBVIOUS
  <2>2. ASSUME NEW n \in Nat, n \in K
        PROVE  n + 1 \in K
    <3>1. ASSUME NEW y \in S PROVE n + 1 <= y
      <4>1. PICK z \in S : z < y
        OBVIOUS
      <4> QED
        BY <2>2, <4>1
    <3> QED
      BY <3>1
  <2>3. Nat \subseteq K
    <3> HIDE DEF K
    <3> QED
      BY <2>1, <2>2, SetInduction
  <2>4. PICK x \in S : TRUE
    OBVIOUS
  <2>5. x + 1 \in K
    BY <2>3, <2>4
  <2> QED
    BY <2>5
<1> QED
  BY <1>1, MinIs

\* Every set of numbers below a bound that is not empty has a greatest member.
LEMMA MaxIn ==
    ASSUME NEW N \in Nat, NEW S \in SUBSET (0..N), S # {}
    PROVE  Max(S) \in S
<1> DEFINE K == {n \in Nat : \A y \in S : y <= n}
           m == Min(K)
<1>1. K \in SUBSET Nat /\ N \in K
  OBVIOUS
<1>2. m \in K /\ \A y \in K : m <= y
  <2>1. K # {} /\ K \in SUBSET Nat
    BY <1>1
  <2> HIDE DEF K
  <2> QED
    BY <2>1, MinIn
<1>3. m \in Nat /\ \A y \in S : y <= m
  BY <1>2
<1> HIDE DEF m
<1>4. m \in S
  <2>1. ASSUME m \notin S
        PROVE  FALSE
    <3>1. PICK y \in S : TRUE
      OBVIOUS
    <3>2. m # 0 /\ m - 1 \in Nat
      BY <1>3, <2>1, <3>1
    <3>3. \A z \in S : z <= m - 1
      BY <1>3, <2>1
    <3>4. m - 1 \in K
      BY <3>2, <3>3
    <3>5. m <= m - 1
      BY <1>2, <3>4
    <3> QED
      BY <1>3, <3>5
  <2> QED
    BY <2>1
<1>5. Max(S) = m
  <2>1. S \in SUBSET Int
    OBVIOUS
  <2> QED
    BY <1>3, <1>4, <2>1, MaxIs
<1> QED
  BY <1>4, <1>5

\* The first position of a token, from its definition.
LEMMA FirstIs ==
    ASSUME NEW T, NEW text \in Seq(T), NEW tokens, NEW i \in 1..Len(text),
           text[i] \in tokens, \A j \in 1..(i - 1) : text[j] \notin tokens
    PROVE  FirstOf(text, tokens) = i
<1> DEFINE I == {j \in 1..Len(text) : text[j] \in tokens}
<1>1. FirstOf(text, tokens) = IF I # {} THEN Min(I) ELSE 0
  BY DEF FirstOf, SelectInSeq
<1>2. i \in I /\ I \in SUBSET Int /\ \A j \in I : i <= j
  OBVIOUS
<1> HIDE DEF I
<1>3. Min(I) = i
  BY <1>2, MinIs
<1> QED
  BY <1>1, <1>2, <1>3

\* FirstOf is 0 where there is none.
LEMMA FirstNone ==
    ASSUME NEW T, NEW text \in Seq(T), NEW tokens, Free(text, tokens)
    PROVE  FirstOf(text, tokens) = 0
  BY DEF FirstOf, SelectInSeq, Free

\* The first token after a text that is free of it.
LEMMA FirstCat ==
    ASSUME NEW T, NEW u \in Seq(T), NEW t \in T, NEW v \in Seq(T), NEW tokens,
           Free(u, tokens), t \in tokens
    PROVE  FirstOf(u \o (<<t>> \o v), tokens) = Len(u) + 1
<1> DEFINE w == <<t>> \o v
<1>1. w \in Seq(T) /\ Len(w) = 1 + Len(v) /\ w[1] = t
  OBVIOUS
<1> HIDE DEF w
<1>2. /\ u \o w \in Seq(T) /\ Len(u \o w) = Len(u) + Len(w) /\ Len(u) \in Nat /\ Len(v) \in Nat
      /\ \A i \in 1..Len(u) : (u \o w)[i] = u[i]
      /\ (u \o w)[Len(u) + 1] = w[1]
  <2>1. /\ u \o w \in Seq(T) /\ Len(u \o w) = Len(u) + Len(w) /\ Len(u) \in Nat /\ Len(v) \in Nat
        /\ \A i \in 1..Len(u) : (u \o w)[i] = u[i]
    BY <1>1, CatType, CatLeft
  <2>2. 1 \in 1..Len(w)
    BY <1>1, <2>1
  <2>3. (u \o w)[Len(u) + 1] = w[1]
    BY <1>1, <2>2, CatRight
  <2> QED
    BY <2>1, <2>3
<1>3. Len(u) + 1 \in 1..Len(u \o w)
  BY <1>1, <1>2
<1>4. \A j \in 1..((Len(u) + 1) - 1) : (u \o w)[j] \notin tokens
  BY <1>2 DEF Free
<1> QED
  BY <1>1, <1>2, <1>3, <1>4, FirstIs DEF w

(* Cons(x, text) is a text that begins with the token x. *)

\* What Cons gives: a head before a text.
LEMMA ConsIs ==
    ASSUME NEW T, NEW x \in T, NEW text \in Seq(T)
    PROVE  /\ Cons(x, text) \in Seq(T) /\ Cons(x, text) # <<>>
           /\ Len(Cons(x, text)) = Len(text) + 1 /\ Cons(x, text)[1] = x
           /\ After(Cons(x, text), 1) = text
<1> DEFINE a == <<x>>
           s == Cons(x, text)
<1>1. a \in Seq(T)
  OBVIOUS
<1>2. Len(a) = 1
  OBVIOUS
<1>3. a[1] = x
  OBVIOUS
<1>4. s = a \o text
  BY DEF Cons
<1> HIDE DEF a, s
<1>5. s \in Seq(T)
  BY <1>1, <1>4, CatType
<1>6. Len(s) = 1 + Len(text)
  BY <1>1, <1>2, <1>4, CatType
<1>7. s[1] = a[1]
  <2>1. 1 \in 1..Len(a)
    BY <1>2
  <2> QED
    BY <1>1, <1>4, <2>1, CatLeft
<1>8. After(s, 1) = text
  BY <1>1, <1>2, <1>4, UptoCat
<1>9. Len(text) \in Nat
  OBVIOUS
<1> QED
  BY <1>3, <1>5, <1>6, <1>7, <1>8, <1>9, EmptySeq DEF s

\* The elements behind the head.
LEMMA ConsAt ==
    ASSUME NEW T, NEW x \in T, NEW text \in Seq(T), NEW i \in 1..Len(text)
    PROVE  Cons(x, text)[i + 1] = text[i]
<1> DEFINE a == <<x>>
<1>1. a \in Seq(T)
  OBVIOUS
<1>2. Len(a) = 1
  OBVIOUS
<1>3. Cons(x, text) = a \o text
  BY DEF Cons
<1> HIDE DEF a
<1>4. (a \o text)[Len(a) + i] = text[i]
  BY <1>1, CatRight
<1>5. Len(a) + i = i + 1
  BY <1>2
<1> QED
  BY <1>3, <1>4, <1>5

\* A head stays the head of a concatenation.
LEMMA ConsCat ==
    ASSUME NEW T, NEW x \in T, NEW text \in Seq(T), NEW v \in Seq(T)
    PROVE  Cons(x, text) \o v = Cons(x, text \o v)
<1> DEFINE a == <<x>>
<1>1. a \in Seq(T)
  OBVIOUS
<1>2. Cons(x, text) = a \o text /\ Cons(x, text \o v) = a \o (text \o v)
  BY DEF Cons
<1> HIDE DEF a
<1> QED
  BY <1>1, <1>2, CatAssoc

\* A head before nothing.
LEMMA ConsEmpty ==
    ASSUME NEW x
    PROVE  Cons(x, <<>>) = <<x>>
<1>1. <<x>> \in Seq({x})
  OBVIOUS
<1> QED
  BY <1>1, CatEmpty DEF Cons

\* Everything is after nothing.
LEMMA AfterNone ==
    ASSUME NEW T, NEW text \in Seq(T)
    PROVE  After(text, 0) = text /\ Upto(text, 0) = <<>>
<1>1. After(text, 0) = SubSeq(text, 1, Len(text)) /\ Upto(text, 0) = SubSeq(text, 1, 0)
  BY DEF After, Upto
<1> QED
  BY <1>1

\* What is after a position behind the head.
LEMMA ConsAfter ==
    ASSUME NEW T, NEW x \in T, NEW text \in Seq(T), NEW n \in 0..Len(text)
    PROVE  After(Cons(x, text), n + 1) = After(text, n)
<1> DEFINE c == Cons(x, text)
           l == Len(text)
           s == SubSeq(c, n + 2, l + 1)
           t == SubSeq(text, n + 1, l)
<1>1. c \in Seq(T)
  BY ConsIs
<1>2. Len(c) = l + 1
  BY ConsIs
<1>3. \A i \in 1..l : c[i + 1] = text[i]
  BY ConsAt
<1>4. l \in Nat
  OBVIOUS
<1>5. After(c, n + 1) = s
  BY <1>2, <1>4 DEF After
<1>6. After(text, n) = t
  BY DEF After
<1> HIDE DEF c
<1>7. s \in Seq(T) /\ Len(s) = l - n
  <2>1. n + 2 \in 1..(Len(c) + 1) /\ l + 1 \in ((n + 2) - 1)..Len(c)
        /\ (l + 1) - (n + 2) + 1 = l - n
    BY <1>2, <1>4
  <2> HIDE DEF l
  <2> QED
    BY <1>1, <2>1, SubType
<1>8. t \in Seq(T) /\ Len(t) = l - n
  <2>1. n + 1 \in 1..(Len(text) + 1) /\ l \in ((n + 1) - 1)..Len(text)
        /\ l - (n + 1) + 1 = l - n
    BY <1>4
  <2> HIDE DEF l
  <2> QED
    BY <2>1, SubType
<1>9. \A i \in 1..(l - n) : s[i] = t[i]
  <2> SUFFICES ASSUME NEW i \in 1..(l - n) PROVE s[i] = t[i]
    OBVIOUS
  <2>1. s[i] = c[(n + 2) + i - 1]
    <3>1. n + 2 \in 1..(Len(c) + 1) /\ l + 1 \in ((n + 2) - 1)..Len(c)
          /\ i \in 1..((l + 1) - (n + 2) + 1)
      BY <1>2, <1>4
    <3> HIDE DEF l
    <3> QED
      BY <1>1, <3>1, SubAt
  <2>2. t[i] = text[(n + 1) + i - 1]
    <3>1. n + 1 \in 1..(Len(text) + 1) /\ l \in ((n + 1) - 1)..Len(text)
          /\ i \in 1..(l - (n + 1) + 1)
      BY <1>4
    <3> HIDE DEF l
    <3> QED
      BY <3>1, SubAt
  <2>3. (n + 2) + i - 1 = (n + i) + 1 /\ (n + 1) + i - 1 = n + i /\ n + i \in 1..l
    BY <1>4
  <2> QED
    BY <1>3, <2>1, <2>2, <2>3
<1> HIDE DEF s, t, l
<1>10. s = t
  BY <1>7, <1>8, <1>9, SameSeq
<1> QED
  BY <1>5, <1>6, <1>10 DEF c

\* What is up to a position behind the head.
LEMMA ConsUpto ==
    ASSUME NEW T, NEW x \in T, NEW text \in Seq(T), NEW n \in 0..Len(text)
    PROVE  Upto(Cons(x, text), n + 1) = Cons(x, Upto(text, n))
<1> DEFINE c == Cons(x, text)
           l == Len(text)
           s == SubSeq(c, 1, n + 1)
           u == SubSeq(text, 1, n)
           t == Cons(x, u)
<1>1. c \in Seq(T)
  BY ConsIs
<1>2. Len(c) = l + 1 /\ c[1] = x
  BY ConsIs
<1>3. \A i \in 1..l : c[i + 1] = text[i]
  BY ConsAt
<1>4. l \in Nat
  OBVIOUS
<1>5. Upto(c, n + 1) = s /\ Upto(text, n) = u
  BY DEF Upto
<1> HIDE DEF c
<1>6. s \in Seq(T) /\ Len(s) = n + 1
  <2>1. 1 \in 1..(Len(c) + 1) /\ n + 1 \in (1 - 1)..Len(c) /\ (n + 1) - 1 + 1 = n + 1
    BY <1>2, <1>4
  <2> QED
    BY <1>1, <2>1, SubType
<1>7. u \in Seq(T) /\ Len(u) = n
  <2>1. 1 \in 1..(Len(text) + 1) /\ n \in (1 - 1)..Len(text) /\ n - 1 + 1 = n
    OBVIOUS
  <2> QED
    BY <2>1, SubType
<1>8. \A i \in 1..n : u[i] = text[i]
  <2> SUFFICES ASSUME NEW i \in 1..n PROVE u[i] = text[i]
    OBVIOUS
  <2>1. 1 \in 1..(Len(text) + 1) /\ n \in (1 - 1)..Len(text) /\ i \in 1..(n - 1 + 1)
              /\ 1 + i - 1 = i
    OBVIOUS
  <2> QED
    BY <2>1, SubAt
<1>9. \A i \in 1..(n + 1) : s[i] = c[i]
  <2> SUFFICES ASSUME NEW i \in 1..(n + 1) PROVE s[i] = c[i]
    OBVIOUS
  <2>1. 1 \in 1..(Len(c) + 1) /\ n + 1 \in (1 - 1)..Len(c) /\ i \in 1..((n + 1) - 1 + 1)
        /\ 1 + i - 1 = i
    BY <1>2, <1>4
  <2> QED
    BY <1>1, <2>1, SubAt
<1> HIDE DEF s, u
<1>10. t \in Seq(T)
  BY <1>7, ConsIs
<1>11. Len(t) = n + 1 /\ t[1] = x
  BY <1>7, ConsIs
<1>12. \A i \in 1..n : t[i + 1] = u[i]
  BY <1>7, ConsAt
<1> HIDE DEF t
<1>13. \A i \in 1..(n + 1) : s[i] = t[i]
  <2> SUFFICES ASSUME NEW i \in 1..(n + 1) PROVE s[i] = t[i]
    OBVIOUS
  <2>1. CASE i = 1
    BY <1>2, <1>9, <1>11, <2>1
  <2>2. CASE i # 1
    <3>1. PICK k \in 1..n : i = k + 1
      <4>1. i - 1 \in 1..n /\ i = (i - 1) + 1
        BY <2>2
      <4> QED
        BY <4>1
    <3>2. t[i] = text[k]
      BY <1>8, <1>12, <3>1
    <3>3. c[i] = text[k]
      <4>1. k \in 1..l
        BY <1>4
      <4> QED
        BY <1>3, <3>1, <4>1
    <3> QED
      BY <1>9, <3>2, <3>3
  <2> QED
    BY <2>1, <2>2
<1>14. s = t
  BY <1>6, <1>10, <1>11, <1>13, SameSeq
<1> QED
  BY <1>5, <1>14 DEF c, t

\* FirstOf gives 0 where there is none and else the first position.
LEMMA FirstIn ==
    ASSUME NEW T, NEW text \in Seq(T), NEW tokens, NEW f, f = FirstOf(text, tokens)
    PROVE  \/ f = 0 /\ \A i \in 1..Len(text) : text[i] \notin tokens
           \/ f \in 1..Len(text) /\ text[f] \in tokens
                 /\ \A i \in 1..(f - 1) : text[i] \notin tokens
<1> DEFINE I == {i \in 1..Len(text) : text[i] \in tokens}
<1>1. f = IF I # {} THEN Min(I) ELSE 0
  BY DEF FirstOf, SelectInSeq
<1>2. CASE I = {}
  BY <1>1, <1>2
<1>3. CASE I # {}
  <2>1. I \in SUBSET Nat
    OBVIOUS
  <2>0. \A i \in 1..Len(text) : i \notin I => text[i] \notin tokens
    OBVIOUS
  <2>3. \A i \in I : i \in 1..Len(text) /\ text[i] \in tokens
    OBVIOUS
  <2> HIDE DEF I
  <2>2. f \in I /\ \A i \in I : f <= i
    BY <1>1, <1>3, <2>1, MinIn
  <2>4. f \in 1..Len(text) /\ text[f] \in tokens
    BY <2>2, <2>3
  <2>5. ASSUME NEW i \in 1..(f - 1) PROVE text[i] \notin tokens
    <3>1. i \in 1..Len(text) /\ i < f /\ i \in Int /\ f \in Int
      BY <2>4
    <3>2. i \notin I
      BY <2>2, <3>1
    <3> QED
      BY <2>0, <3>1, <3>2
  <2> QED
    BY <2>4, <2>5
<1> QED
  BY <1>2, <1>3

\* The first position of a token in a text with a head.
LEMMA ConsFirst ==
    ASSUME NEW T, NEW x \in T, NEW text \in Seq(T), NEW tokens
    PROVE  FirstOf(Cons(x, text), tokens) = IF x \in tokens THEN 1
                                            ELSE IF FirstOf(text, tokens) = 0 THEN 0
                                            ELSE FirstOf(text, tokens) + 1
<1> DEFINE c == Cons(x, text)
           f == FirstOf(text, tokens)
           l == Len(text)
<1>1. c \in Seq(T)
  BY ConsIs
<1>2. Len(c) = l + 1 /\ c[1] = x
  BY ConsIs
<1>3. \A i \in 1..l : c[i + 1] = text[i]
  BY ConsAt
<1>4. l \in Nat
  OBVIOUS
<1>5. \/ f = 0 /\ \A i \in 1..l : text[i] \notin tokens
      \/ f \in 1..l /\ text[f] \in tokens /\ \A i \in 1..(f - 1) : text[i] \notin tokens
  BY FirstIn
<1> HIDE DEF c, f, l
<1>6. CASE x \in tokens
  <2>1. 1 \in 1..Len(c)
    BY <1>2, <1>4
  <2>2. c[1] \in tokens
    BY <1>2, <1>6
  <2>3. \A j \in 1..(1 - 1) : c[j] \notin tokens
    OBVIOUS
  <2>4. FirstOf(c, tokens) = 1
    BY <1>1, <2>1, <2>2, <2>3, FirstIs
  <2> QED
    BY <1>6, <2>4 DEF c
<1>7. ASSUME NEW i \in 2..(l + 1) PROVE \E k \in 1..l : i = k + 1 /\ c[i] = text[k]
  <2>1. i - 1 \in 1..l /\ (i - 1) + 1 = i
    BY <1>4
  <2> QED
    BY <1>3, <2>1
<1>8. CASE x \notin tokens /\ f = 0
  <2>1. \A i \in 1..(l + 1) : c[i] \notin tokens
    <3> SUFFICES ASSUME NEW i \in 1..(l + 1) PROVE c[i] \notin tokens
      OBVIOUS
    <3>1. CASE i = 1
      BY <1>2, <1>8, <3>1
    <3>2. CASE i \in 2..(l + 1)
      BY <1>4, <1>5, <1>7, <1>8, <3>2
    <3> QED
      BY <1>4, <3>1, <3>2
  <2>2. Free(c, tokens)
    BY <1>1, <1>2, <2>1 DEF Free
  <2>3. FirstOf(c, tokens) = 0
    BY <1>1, <2>2, FirstNone
  <2> QED
    BY <1>8, <2>3 DEF c, f
<1>9. CASE x \notin tokens /\ f # 0
  <2>1. f \in 1..l /\ text[f] \in tokens /\ \A i \in 1..(f - 1) : text[i] \notin tokens
    BY <1>5, <1>9
  <2>2. f + 1 \in 1..Len(c)
    BY <1>2, <1>4, <2>1
  <2>3. c[f + 1] \in tokens
    BY <1>3, <2>1
  <2>4. \A j \in 1..((f + 1) - 1) : c[j] \notin tokens
    <3> SUFFICES ASSUME NEW j \in 1..((f + 1) - 1) PROVE c[j] \notin tokens
      OBVIOUS
    <3>1. CASE j = 1
      BY <1>2, <1>9, <3>1
    <3>2. CASE j # 1
      <4>1. j \in 2..(l + 1) /\ j - 1 \in 1..(f - 1)
        BY <1>4, <2>1, <3>2
      <4>2. PICK k \in 1..l : j = k + 1 /\ c[j] = text[k]
        BY <1>7, <4>1
      <4>3. k \in 1..(f - 1)
        BY <4>1, <4>2
      <4> QED
        BY <2>1, <4>2, <4>3
    <3> QED
      BY <3>1, <3>2
  <2>5. FirstOf(c, tokens) = f + 1
    BY <1>1, <2>2, <2>3, <2>4, FirstIs
  <2> QED
    BY <1>9, <2>5 DEF c, f
<1> QED
  BY <1>6, <1>8, <1>9 DEF f

\* When a text with a head is free of tokens.
LEMMA ConsFree ==
    ASSUME NEW T, NEW x \in T, NEW text \in Seq(T), NEW tokens
    PROVE  Free(Cons(x, text), tokens) <=> x \notin tokens /\ Free(text, tokens)
<1> DEFINE a == <<x>>
<1>1. a \in Seq(T)
  OBVIOUS
<1>2. Free(a, tokens) <=> x \notin tokens
  BY DEF Free
<1>3. Cons(x, text) = a \o text
  BY DEF Cons
<1> HIDE DEF a
<1>4. Free(a \o text, tokens) <=> Free(a, tokens) /\ Free(text, tokens)
  BY <1>1, FreeCat
<1> QED
  BY <1>2, <1>3, <1>4

\* Texts of two, three and four tokens, head by head.
LEMMA Two ==
    ASSUME NEW a, NEW b
    PROVE  <<a, b>> = Cons(a, <<b>>)
<1> DEFINE T == {a, b}
           o == <<a>>
           t == <<a, b>>
<1>1. o \in Seq(T) /\ b \in T
  OBVIOUS
<1>2. t = Append(o, b)
  OBVIOUS
<1> HIDE DEF o, t, T
<1>3. Append(o, b) = o \o <<b>>
  BY <1>1, AppendOne
<1> QED
  BY <1>2, <1>3 DEF o, t, Cons

\* The same for three tokens.
LEMMA Three ==
    ASSUME NEW a, NEW b, NEW c
    PROVE  <<a, b, c>> = Cons(a, <<b, c>>)
<1> DEFINE T == {a, b, c}
           o == <<a, b>>
           p == <<b>>
           q == <<c>>
           t == <<a, b, c>>
<1>1. o \in Seq(T)
  OBVIOUS
<1>2. t = Append(o, c)
  OBVIOUS
<1>3. p \in Seq(T)
  OBVIOUS
<1>4. q \in Seq(T)
  OBVIOUS
<1>5. a \in T /\ c \in T
  OBVIOUS
<1>6. o = Cons(a, p)
  BY Two
<1>7. p \o q = <<b, c>>
  BY Two DEF Cons
<1> HIDE DEF o, t, T
<1>8. Append(o, c) = o \o <<c>>
  BY <1>1, <1>5, AppendOne
<1> HIDE DEF p
<1>10. Append(o, c) = o \o q
  BY <1>8
<1> HIDE DEF q
<1>9. Cons(a, p) \o q = Cons(a, p \o q)
  BY <1>3, <1>4, <1>5, ConsCat
<1>11. t = Cons(a, p \o q)
  BY <1>2, <1>6, <1>9, <1>10
<1> QED
  BY <1>7, <1>11 DEF t

\* The same for four tokens.
LEMMA Four ==
    ASSUME NEW a, NEW b, NEW c, NEW d
    PROVE  <<a, b, c, d>> = Cons(a, <<b, c, d>>)
<1> DEFINE T == {a, b, c, d}
           o == <<a, b, c>>
           p == <<b, c>>
           q == <<d>>
           t == <<a, b, c, d>>
           r == <<b, c, d>>
<1>1. o \in Seq(T)
  OBVIOUS
<1>2. t = Append(o, d)
  OBVIOUS
<1>3. p \in Seq(T)
  OBVIOUS
<1>4. q \in Seq(T)
  OBVIOUS
<1>5. a \in T /\ d \in T
  OBVIOUS
<1>6. o = Cons(a, p)
  BY Three
<1>7. r = Append(p, d)
  OBVIOUS
<1> HIDE DEF o, t, T, r
<1>8. Append(o, d) = o \o <<d>>
  BY <1>1, <1>5, AppendOne
<1> HIDE DEF p
<1>10. Append(p, d) = p \o <<d>>
  BY <1>3, <1>5, AppendOne
<1>11. Append(o, d) = o \o q /\ Append(p, d) = p \o q
  BY <1>8, <1>10
<1> HIDE DEF q
<1>9. Cons(a, p) \o q = Cons(a, p \o q)
  BY <1>3, <1>4, <1>5, ConsCat
<1>12. t = Cons(a, r)
  BY <1>2, <1>6, <1>7, <1>9, <1>11
<1> QED
  BY <1>12 DEF t, r

\* Texts of five tokens, head by head.
LEMMA Five ==
    ASSUME NEW a, NEW b, NEW c, NEW d, NEW e
    PROVE  <<a, b, c, d, e>> = Cons(a, <<b, c, d, e>>)
<1> DEFINE T == {a, b, c, d, e}
           o == <<a, b, c, d>>
           p == <<b, c, d>>
           q == <<e>>
           t == <<a, b, c, d, e>>
           r == <<b, c, d, e>>
<1>1. o \in Seq(T)
  OBVIOUS
<1>2. t = Append(o, e)
  OBVIOUS
<1>3. p \in Seq(T)
  OBVIOUS
<1>4. q \in Seq(T)
  OBVIOUS
<1>5. a \in T /\ e \in T
  OBVIOUS
<1>6. o = Cons(a, p)
  BY Four
<1>7. r = Append(p, e)
  OBVIOUS
<1> HIDE DEF o, t, T, r
<1>8. Append(o, e) = o \o <<e>>
  BY <1>1, <1>5, AppendOne
<1> HIDE DEF p
<1>10. Append(p, e) = p \o <<e>>
  BY <1>3, <1>5, AppendOne
<1>11. Append(o, e) = o \o q /\ Append(p, e) = p \o q
  BY <1>8, <1>10
<1> HIDE DEF q
<1>9. Cons(a, p) \o q = Cons(a, p \o q)
  BY <1>3, <1>4, <1>5, ConsCat
<1>12. t = Cons(a, r)
  BY <1>2, <1>6, <1>7, <1>9, <1>11
<1> QED
  BY <1>12 DEF t, r

\* Trim leaves a text alone that neither starts nor ends with a blank.
LEMMA TrimInk ==
    ASSUME NEW T, NEW text \in Seq(T), text # <<>>,
           text[1] \notin Blank, text[Len(text)] \notin Blank
    PROVE  Trim(text) = text
<1> DEFINE ink == {i \in DOMAIN text : text[i] \notin Blank}
<1>1. Len(text) \in Nat \ {0} /\ DOMAIN text = 1..Len(text)
  BY EmptySeq
<1>2. 1 \in ink /\ Len(text) \in ink /\ ink \in SUBSET Int /\ \A i \in ink : 1 <= i
            /\ i <= Len(text)
  BY <1>1
<1>3. Trim(text) = IF ink = {} THEN <<>> ELSE SubSeq(text, Min(ink), Max(ink))
  BY DEF Trim
<1> HIDE DEF ink
<1>4. Min(ink) = 1 /\ Max(ink) = Len(text)
  BY <1>2, MinIs, MaxIs
<1>5. SubSeq(text, 1, Len(text)) = text
  OBVIOUS
<1> QED
  BY <1>2, <1>3, <1>4, <1>5

\* The blank after the colon of a header.

-----------------------------------------------------------------------------
(* Split *)

SplitF(T, token) ==
    [parts \in Seq(Seq(T)) \ {<<>>} |-> [t \in T |->
        IF t = token THEN Append(parts, <<>>) ELSE [parts EXCEPT ![Len(parts)] = Append(@, t)]]]

\* The steps of Split keep sequences of at least one part.
LEMMA SplitOps ==
    ASSUME NEW T, NEW token
    PROVE  SplitF(T, token) \in Ops(Seq(Seq(T)) \ {<<>>}, T) /\ << <<>> >> \in Seq(Seq(T)) \ {<<>>}
<1>1. << <<>> >> \in Seq(Seq(T)) \ {<<>>}
  OBVIOUS
<1>2. ASSUME NEW parts \in Seq(Seq(T)) \ {<<>>}, NEW t \in T
      PROVE  (IF t = token THEN Append(parts, <<>>)
            ELSE [parts EXCEPT ![Len(parts)] = Append(@, t)])
                \in Seq(Seq(T)) \ {<<>>}
  <2>1. Append(parts, <<>>) \in Seq(Seq(T)) \ {<<>>}
    OBVIOUS
  <2>2. Len(parts) \in 1..Len(parts)
    BY EmptySeq
  <2>3. Append(parts[Len(parts)], t) \in Seq(T)
    BY <2>2
  <2>4. [parts EXCEPT ![Len(parts)] = Append(parts[Len(parts)], t)] \in Seq(Seq(T))
    BY <2>2, <2>3, ExceptSeq
  <2>5. Len([parts EXCEPT ![Len(parts)] = Append(parts[Len(parts)], t)]) # 0
    BY <2>2, <2>4
  <2> QED
    BY <2>1, <2>4, <2>5
<1> QED
  BY <1>1, <1>2 DEF SplitF, Ops

\* Split is the fold of these steps.
LEMMA SplitFold ==
    ASSUME NEW T, NEW token, NEW seq \in Seq(T)
    PROVE  Split(seq, token) = Fold(SplitF(T, token), << <<>> >>, seq)
<1> DEFINE S == Seq(Seq(T)) \ {<<>>}
           F == SplitF(T, token)
           base == << <<>> >>
           op(s, x) == IF x = token THEN Append(s, <<>>) ELSE [s EXCEPT ![Len(s)] = Append(@, x)]
           eq(g) == g = [i \in 0..Len(seq) |-> IF i = 0 THEN base ELSE op(g[i - 1], seq[i])]
           h == CHOOSE g : eq(g)
<1>1. Split(seq, token) = h[Len(seq)]
  BY DEF Split, Scan
<1>2. F \in Ops(S, T) /\ base \in S
  BY SplitOps
<1>3. \A s \in S, x \in T : F[s][x] = op(s, x)
  BY DEF SplitF
<1>4. \A i \in 1..Len(seq) : seq[i] \in T
  BY ElementOfSeq
<1> HIDE DEF S, F, base, op, h
<1>5. eq(h)
  <2>1. PICK g : /\ g = [i \in 0..Len(seq) |-> IF i = 0 THEN base ELSE F[g[i - 1]][seq[i]]]
                 /\ \A i \in 1..Len(seq) : g[i - 1] \in S /\ seq[i] \in T
    <3> HIDE DEF eq
    <3> QED
      BY <1>2, RunIs
  <2>2. \A i \in 1..Len(seq) : F[g[i - 1]][seq[i]] = op(g[i - 1], seq[i])
    BY <1>3, <2>1
  <2>3. eq(g)
    BY <2>1, <2>2, SMTT(30)
  <2> HIDE DEF eq
  <2> QED
    BY <2>3 DEF h
<1>6. Follows(h, S, F, base, seq)
  BY <1>3, <1>4, <1>5 DEF Follows
<1>7. h[Len(seq)] = Fold(F, base, seq)
  BY <1>2, <1>6, FollowsFold
<1> QED
  BY <1>1, <1>7 DEF F, base

\* A text without the token is its only part.
LEMMA SplitAppend ==
    ASSUME NEW T, NEW token, NEW text \in Seq(T), NEW t \in T, NEW p, p = Split(text, token)
    PROVE  /\ p \in Seq(Seq(T)) \ {<<>>}
           /\ Split(Append(text, t), token) =
                IF t = token THEN Append(p, <<>>) ELSE [p EXCEPT ![Len(p)] = Append(@, t)]
<1> DEFINE S == Seq(Seq(T)) \ {<<>>}
<1>0. p = Fold(SplitF(T, token), << <<>> >>, text)
  BY SplitFold
<1>1. SplitF(T, token) \in Ops(S, T) /\ << <<>> >> \in S
  BY SplitOps
<1> HIDE DEF S
<1>2. p \in S
  BY <1>0, <1>1, FoldType
<1>3. Fold(SplitF(T, token), << <<>> >>, Append(text, t)) = SplitF(T, token)[p][t]
  BY <1>0, <1>1, FoldAppend
<1>4. Append(text, t) \in Seq(T)
  OBVIOUS
<1>5. SplitF(T, token)[p][t] = IF t = token THEN Append(p, <<>>)
            ELSE [p EXCEPT ![Len(p)] = Append(@, t)]
  BY <1>2 DEF SplitF, S
<1>6. Split(Append(text, t), token) = SplitF(T, token)[p][t]
  BY <1>3, <1>4, SplitFold
<1> QED
  BY <1>2, <1>5, <1>6 DEF S

\* Nothing splits into one part, which is empty.
LEMMA SplitEmpty ==
    ASSUME NEW token
    PROVE  Split(<<>>, token) = << <<>> >>
<1>1. <<>> \in Seq({})
  OBVIOUS
<1>2. Split(<<>>, token) = Fold(SplitF({}, token), << <<>> >>, <<>>)
  BY <1>1, SplitFold
<1> QED
  BY <1>2, FoldEmpty

\* A text without the separator is one part.
LEMMA SplitFree ==
    ASSUME NEW T, NEW token, NEW text \in Seq(T \ {token})
    PROVE  Split(text, token) = <<text>>
<1> DEFINE U == T \ {token}
           K == {s \in Seq(U) : Split(s, token) = <<s>>}
<1>1. <<>> \in K
  BY SplitEmpty
<1>2. ASSUME NEW s \in Seq(U), NEW t \in U, s \in K
      PROVE  Append(s, t) \in K
  <2>1. Split(s, token) = <<s>>
    BY <1>2
  <2> HIDE DEF K
  <2>2. Split(Append(s, t), token) = [<<s>> EXCEPT ![Len(<<s>>)] = Append(@, t)]
    BY <2>1, SplitAppend
  <2>3. [<<s>> EXCEPT ![Len(<<s>>)] = Append(@, t)] = <<Append(s, t)>>
    OBVIOUS
  <2>4. Append(s, t) \in Seq(U)
    OBVIOUS
  <2> QED
    BY <2>2, <2>3, <2>4 DEF K
<1>3. Seq(U) \subseteq K
  <2> HIDE DEF K
  <2> QED
    BY <1>1, <1>2, SeqInduction
<1> QED
  BY <1>3

\* A text splits at its first separator.
LEMMA SplitCat ==
    ASSUME NEW T, NEW token \in T, NEW u \in Seq(T \ {token}), NEW v \in Seq(T)
    PROVE  Split(u \o (<<token>> \o v), token) = <<u>> \o Split(v, token)
<1> DEFINE text(s) == u \o (<<token>> \o s)
           K == {s \in Seq(T) : Split(text(s), token) = <<u>> \o Split(s, token)}
<1>0. u \in Seq(T)
  BY SeqMonotonic
<1>1. <<>> \in K
  <2>1. text(<<>>) = Append(u, token)
    BY <1>0
  <2> DEFINE p == <<u>>
  <2>2. p = Split(u, token)
    BY SplitFree
  <2> HIDE DEF p, K
  <2>3. Split(Append(u, token), token) = Append(p, <<>>)
    BY <1>0, <2>2, SplitAppend
  <2>4. Append(<<u>>, <<>>) = <<u>> \o << <<>> >>
    OBVIOUS
  <2> QED
    <3>1. Split(text(<<>>), token) = <<u>> \o Split(<<>>, token)
      BY <2>1, <2>3, <2>4, SplitEmpty DEF p
    <3>2. <<>> \in Seq(T)
      OBVIOUS
    <3> HIDE DEF text
    <3> QED
      BY <3>1, <3>2 DEF K
<1>2. ASSUME NEW s \in Seq(T), NEW t \in T, s \in K
      PROVE  Append(s, t) \in K
  <2> DEFINE p == Split(s, token)
             r == text(s)
  <2>1. text(Append(s, t)) = Append(r, t) /\ r \in Seq(T)
    BY <1>0
  <2>2. Split(r, token) = <<u>> \o p
    BY <1>2
  <2> HIDE DEF r, K
  <2>3. p \in Seq(Seq(T)) \ {<<>>}
    BY SplitAppend
  <2>4. Split(Append(s, t), token) = IF t = token THEN Append(p, <<>>)
                                     ELSE [p EXCEPT ![Len(p)] = Append(@, t)]
    BY SplitAppend
  <2> HIDE DEF p
  <2>5. Split(Append(r, t), token) =
            IF t = token THEN Append(<<u>> \o p, <<>>)
            ELSE [(<<u>> \o p) EXCEPT ![Len(<<u>> \o p)] = Append(@, t)]
    <3> DEFINE w == <<u>> \o p
    <3>1. w = Split(r, token)
      BY <2>2
    <3> HIDE DEF w
    <3>2. Split(Append(r, t), token) = IF t = token THEN Append(w, <<>>)
                                       ELSE [w EXCEPT ![Len(w)] = Append(@, t)]
      BY <2>1, <3>1, SplitAppend
    <3> QED
      BY <3>2 DEF w
  <2>6. Append(<<u>> \o p, <<>>) = <<u>> \o Append(p, <<>>)
    BY <1>0, <2>3
  <2>7. [(<<u>> \o p) EXCEPT ![Len(<<u>> \o p)] = Append(@, t)] =
            <<u>> \o [p EXCEPT ![Len(p)] = Append(@, t)]
    <3> DEFINE q == [p EXCEPT ![Len(p)] = Append(@, t)]
               w == <<u>> \o p
    <3>1. Len(p) \in Nat \ {0} /\ p \in Seq(Seq(T))
      BY <2>3, EmptySeq
    <3>2. q \in Seq(Seq(T)) /\ Len(q) = Len(p) /\ \A i \in 1..Len(p) : q[i]
                = IF i = Len(p) THEN Append(p[Len(p)], t) ELSE p[i]
      BY <3>1, ExceptSeq
    <3>3. w \in Seq(Seq(T)) /\ Len(w) = 1 + Len(p) /\ w[1] = u
                /\ \A i \in 1..Len(p) : w[1 + i] = p[i]
      BY <1>0, <3>1
    <3> DEFINE x == [w EXCEPT ![Len(w)] = Append(@, t)]
               y == <<u>> \o q
    <3> HIDE DEF w, q
    <3>4. x \in Seq(Seq(T)) /\ Len(x) = Len(w) /\ \A i \in 1..Len(w) : x[i]
                = IF i = Len(w) THEN Append(w[Len(w)], t) ELSE w[i]
      <4>1. Len(w) \in 1..Len(w) /\ w[Len(w)] = p[Len(p)]
        <5>1. Len(p) \in 1..Len(p) /\ Len(w) = 1 + Len(p)
          BY <3>1, <3>3
        <5>2. w[1 + Len(p)] = p[Len(p)]
          BY <3>3, <5>1
        <5> QED
          BY <5>1, <5>2
      <4>2. Append(w[Len(w)], t) \in Seq(T)
        BY <3>1, <4>1
      <4> QED
        BY <3>3, <4>1, <4>2, ExceptSeq
    <3>5. y \in Seq(Seq(T)) /\ Len(y) = 1 + Len(q) /\ y[1] = u
                /\ \A i \in 1..Len(q) : y[1 + i] = q[i]
      BY <1>0, <3>2
    <3> HIDE DEF x, y
    <3>6. ASSUME NEW i \in 1..Len(x) PROVE x[i] = y[i]
      <4>1. CASE i = 1
        BY <3>1, <3>3, <3>4, <3>5, <4>1
      <4>2. CASE i # 1
        <5>0. Len(p) \in 1..Len(p) /\ Len(w) = 1 + Len(p) /\ w[Len(w)] = p[Len(p)]
          <6>1. Len(p) \in 1..Len(p) /\ Len(w) = 1 + Len(p)
            BY <3>1, <3>3
          <6>2. w[1 + Len(p)] = p[Len(p)]
            BY <3>3, <6>1
          <6> QED
            BY <6>1, <6>2
        <5> DEFINE k == i - 1
        <5>1. k \in 1..Len(p) /\ 1 + k = i /\ i \in 1..Len(w) /\ (i = Len(w) <=> k = Len(p))
          BY <3>1, <3>4, <4>2, <5>0
        <5>2. w[Len(w)] = p[Len(p)]
          BY <5>0
        <5> HIDE DEF k
        <5>3. y[1 + k] = q[k] /\ q[k] = IF k = Len(p) THEN Append(p[Len(p)], t) ELSE p[k]
          BY <3>2, <3>5, <5>1
        <5>4. w[1 + k] = p[k] /\ x[i] = IF i = Len(w) THEN Append(w[Len(w)], t) ELSE w[i]
          BY <3>3, <3>4, <5>1
        <5> QED
          BY <5>1, <5>2, <5>3, <5>4
      <4> QED
        BY <4>1, <4>2
    <3>7. Len(x) = Len(y)
      BY <3>2, <3>3, <3>4, <3>5
    <3>8. x = y
      BY <3>4, <3>5, <3>6, <3>7, SameSeq
    <3> QED
      BY <3>8 DEF x, y, w, q
  <2>8. Append(s, t) \in Seq(T)
    OBVIOUS
  <2> QED
    BY <2>1, <2>4, <2>5, <2>6, <2>7, <2>8 DEF K
<1>3. Seq(T) \subseteq K
  <2> HIDE DEF K
  <2> QED
    BY <1>1, <1>2, SeqInduction
<1> QED
  BY <1>3
\* Three words between two separators split into the three words.
LEMMA ThreeWords ==
    ASSUME NEW x, NEW y, NEW z, NEW sp, x # sp, y # sp, z # sp
    PROVE  Split(<<x, sp, y, sp, z>>, sp) = <<<<x>>, <<y>>, <<z>>>>
<1> DEFINE T == {x, y, z, sp}
           a == <<x>>
           b == <<y>>
           c == <<z>>
           v == <<y, sp, z>>
           t == <<x, sp, y, sp, z>>
<1>1. sp \in T
  OBVIOUS
<1>2. a \in Seq(T \ {sp})
  OBVIOUS
<1>3. b \in Seq(T \ {sp})
  OBVIOUS
<1>4. c \in Seq(T \ {sp})
  OBVIOUS
<1>5. c \in Seq(T)
  OBVIOUS
<1>6. v \in Seq(T)
  OBVIOUS
<1>7. v = b \o (<<sp>> \o c)
  BY Two, Three DEF Cons
<1>8. t = a \o Cons(sp, v)
  <2> DEFINE u == <<sp, y, sp, z>>
  <2>1. u = Cons(sp, v)
    BY Four
  <2>2. t = a \o u
    BY Five DEF Cons
  <2> HIDE DEF a, t, u, v
  <2> QED
    BY <2>1, <2>2
<1>11. <<a, b, c>> = <<<<x>>, <<y>>, <<z>>>>
  OBVIOUS
<1>12. Split(c, sp) = <<c>>
  BY <1>4, SplitFree
<1> HIDE DEF a, b, c, v, T, t
<1>9. <<b>> \o <<c>> = <<b, c>>
  BY Two DEF Cons
<1>10. <<a>> \o <<b, c>> = <<a, b, c>>
  BY Three DEF Cons
<1>13. Split(b \o (<<sp>> \o c), sp) = <<b>> \o Split(c, sp)
  BY <1>1, <1>3, <1>5, SplitCat
<1>14. Split(a \o Cons(sp, v), sp) = <<a>> \o Split(v, sp)
  BY <1>1, <1>2, <1>6, SplitCat DEF Cons
<1>15. Split(v, sp) = <<b, c>>
  BY <1>7, <1>9, <1>12, <1>13
<1>16. Split(t, sp) = <<a, b, c>>
  BY <1>8, <1>10, <1>14, <1>15
<1> QED
  BY <1>11, <1>16 DEF t

-----------------------------------------------------------------------------
(* Keep, Flat and Each *)

KeepF(T, wanted) ==
    [kept \in Seq(T) |-> [x \in T |-> IF x \in wanted THEN Append(kept, x) ELSE kept]]

\* The steps of Keep keep sequences.
LEMMA KeepOps ==
    ASSUME NEW T, NEW wanted
    PROVE  KeepF(T, wanted) \in Ops(Seq(T), T) /\ <<>> \in Seq(T)
<1>1. \A kept \in Seq(T), x \in T : (IF x \in wanted THEN Append(kept, x) ELSE kept) \in Seq(T)
  OBVIOUS
<1>2. <<>> \in Seq(T)
  OBVIOUS
<1> QED
  BY <1>1, <1>2 DEF KeepF, Ops

\* Keep is the fold of these steps.
LEMMA KeepFold ==
    ASSUME NEW T, NEW wanted, NEW seq \in Seq(T)
    PROVE  Keep(seq, wanted) = Fold(KeepF(T, wanted), <<>>, seq)
<1> DEFINE S == Seq(T)
           F == KeepF(T, wanted)
           base == <<>>
           op(s, x) == IF x \in wanted THEN Append(s, x) ELSE s
           eq(g) == g = [i \in 0..Len(seq) |-> IF i = 0 THEN base ELSE op(g[i - 1], seq[i])]
           h == CHOOSE g : eq(g)
<1>1. Keep(seq, wanted) = h[Len(seq)]
  BY DEF Keep, Scan
<1>2. F \in Ops(S, T) /\ base \in S
  BY KeepOps
<1>3. \A s \in S, x \in T : F[s][x] = op(s, x)
  BY DEF KeepF
<1>4. \A i \in 1..Len(seq) : seq[i] \in T
  BY ElementOfSeq
<1> HIDE DEF S, F, base, op, h
<1>5. eq(h)
  <2>1. PICK g : /\ g = [i \in 0..Len(seq) |-> IF i = 0 THEN base ELSE F[g[i - 1]][seq[i]]]
                 /\ \A i \in 1..Len(seq) : g[i - 1] \in S /\ seq[i] \in T
    <3> HIDE DEF eq
    <3> QED
      BY <1>2, RunIs
  <2>2. \A i \in 1..Len(seq) : F[g[i - 1]][seq[i]] = op(g[i - 1], seq[i])
    BY <1>3, <2>1
  <2>3. eq(g)
    BY <2>1, <2>2, SMTT(30)
  <2> HIDE DEF eq
  <2> QED
    BY <2>3 DEF h
<1>6. Follows(h, S, F, base, seq)
  BY <1>3, <1>4, <1>5 DEF Follows
<1>7. h[Len(seq)] = Fold(F, base, seq)
  BY <1>2, <1>6, FollowsFold
<1> QED
  BY <1>1, <1>7 DEF F, base

\* Keep of nothing.
LEMMA KeepEmpty ==
    ASSUME NEW wanted
    PROVE  Keep(<<>>, wanted) = <<>>
<1>1. <<>> \in Seq({})
  OBVIOUS
<1>2. Keep(<<>>, wanted) = Fold(KeepF({}, wanted), <<>>, <<>>)
  BY <1>1, KeepFold
<1> QED
  BY <1>2, FoldEmpty

\* Keep takes its last element last, if it is wanted.
LEMMA KeepAppend ==
    ASSUME NEW T, NEW wanted, NEW seq \in Seq(T), NEW t \in T, NEW k, k = Keep(seq, wanted)
    PROVE  k \in Seq(T) /\ Keep(Append(seq, t), wanted) = IF t \in wanted THEN Append(k, t) ELSE k
<1> DEFINE S == Seq(T)
<1>0. k = Fold(KeepF(T, wanted), <<>>, seq)
  BY KeepFold
<1>1. KeepF(T, wanted) \in Ops(S, T) /\ <<>> \in S
  BY KeepOps
<1>4. Append(seq, t) \in Seq(T)
  OBVIOUS
<1> HIDE DEF S
<1>2. k \in S
  BY <1>0, <1>1, FoldType
<1>3. Fold(KeepF(T, wanted), <<>>, Append(seq, t)) = KeepF(T, wanted)[k][t]
  BY <1>0, <1>1, FoldAppend
<1>5. KeepF(T, wanted)[k][t] = IF t \in wanted THEN Append(k, t) ELSE k
  BY <1>2 DEF KeepF, S
<1>6. Keep(Append(seq, t), wanted) = KeepF(T, wanted)[k][t]
  BY <1>3, <1>4, KeepFold
<1> QED
  BY <1>2, <1>5, <1>6 DEF S

\* Keep gives a sequence of the same elements.
LEMMA KeepType ==
    ASSUME NEW T, NEW wanted, NEW seq \in Seq(T)
    PROVE  Keep(seq, wanted) \in Seq(T)
<1> DEFINE S == Seq(T)
<1>1. KeepF(T, wanted) \in Ops(S, T) /\ <<>> \in S
  BY KeepOps
<1> HIDE DEF S
<1>2. Fold(KeepF(T, wanted), <<>>, seq) \in S
  BY <1>1, FoldType
<1> QED
  BY <1>2, KeepFold DEF S

\* Keep drops what is not wanted.
LEMMA KeepNone ==
    ASSUME NEW T, NEW wanted, NEW seq \in Seq(T), T \cap wanted = {}
    PROVE  Keep(seq, wanted) = <<>>
<1> DEFINE K == {s \in Seq(T) : Keep(s, wanted) = <<>>}
<1>1. <<>> \in K
  BY KeepEmpty
<1>2. ASSUME NEW s \in Seq(T), NEW t \in T, s \in K
      PROVE  Append(s, t) \in K
  <2>1. Keep(s, wanted) = <<>>
    BY <1>2
  <2> HIDE DEF K
  <2>2. Keep(Append(s, t), wanted) = <<>>
    BY <2>1, KeepAppend
  <2>3. Append(s, t) \in Seq(T)
    OBVIOUS
  <2> QED
    BY <2>2, <2>3 DEF K
<1>3. Seq(T) \subseteq K
  <2> HIDE DEF K
  <2> QED
    BY <1>1, <1>2, SeqInduction
<1> QED
  BY <1>3

\* Keep leaves alone what is wanted.
LEMMA KeepAll ==
    ASSUME NEW T, NEW wanted, NEW seq \in Seq(T), T \subseteq wanted
    PROVE  Keep(seq, wanted) = seq
<1> DEFINE K == {s \in Seq(T) : Keep(s, wanted) = s}
<1>1. <<>> \in K
  BY KeepEmpty
<1>2. ASSUME NEW s \in Seq(T), NEW t \in T, s \in K
      PROVE  Append(s, t) \in K
  <2>1. Keep(s, wanted) = s
    BY <1>2
  <2> HIDE DEF K
  <2>2. Keep(Append(s, t), wanted) = Append(s, t)
    BY <2>1, KeepAppend
  <2>3. Append(s, t) \in Seq(T)
    OBVIOUS
  <2> QED
    BY <2>2, <2>3 DEF K
<1>3. Seq(T) \subseteq K
  <2> HIDE DEF K
  <2> QED
    BY <1>1, <1>2, SeqInduction
<1> QED
  BY <1>3

\* Keep of a concatenation.
LEMMA KeepCat ==
    ASSUME NEW T, NEW wanted, NEW u \in Seq(T), NEW v \in Seq(T)
    PROVE  Keep(u \o v, wanted) = Keep(u, wanted) \o Keep(v, wanted)
<1> DEFINE K == {s \in Seq(T) : Keep(u \o s, wanted) = Keep(u, wanted) \o Keep(s, wanted)}
<1>0. Keep(u, wanted) \in Seq(T)
  BY KeepType
<1>1. <<>> \in K
  <2>1. Keep(u, wanted) \o <<>> = Keep(u, wanted) /\ u \o <<>> = u /\ <<>> \in Seq(T)
    BY <1>0
  <2> QED
    BY <2>1, KeepEmpty
<1>2. ASSUME NEW s \in Seq(T), NEW t \in T, s \in K
      PROVE  Append(s, t) \in K
  <2> DEFINE w == u \o s
             a == Keep(u, wanted)
             k == Keep(s, wanted)
             l == Keep(w, wanted)
  <2>1. u \o Append(s, t) = Append(w, t) /\ w \in Seq(T) /\ Append(s, t) \in Seq(T)
    OBVIOUS
  <2>2. l = a \o k
    BY <1>2
  <2> HIDE DEF w, K
  <2>3. k \in Seq(T) /\ Keep(Append(s, t), wanted) = IF t \in wanted THEN Append(k, t) ELSE k
    BY KeepAppend
  <2>4. Keep(Append(w, t), wanted) = IF t \in wanted THEN Append(l, t) ELSE l
    BY <2>1, KeepAppend
  <2> HIDE DEF l, k, a
  <2>5. a \in Seq(T)
    BY <1>0 DEF a
  <2>6. Append(l, t) = a \o Append(k, t)
    <3>1. k \in Seq(T)
      BY <2>3
    <3> DEFINE x == Append(a \o k, t)
               y == a \o Append(k, t)
    <3>2. x \in Seq(T)
      BY <2>5, <3>1
    <3>3. y \in Seq(T)
      BY <2>5, <3>1
    <3>4. Len(x) = Len(y)
      BY <2>5, <3>1
    <3>5. ASSUME NEW i \in 1..Len(x)
          PROVE  x[i] = y[i]
      <4>1. Len(x) = Len(a) + Len(k) + 1
        BY <2>5, <3>1
      <4>2. CASE i \in 1..Len(a)
        BY <2>5, <3>1, <4>2
      <4>3. CASE i = Len(a) + Len(k) + 1
        BY <2>5, <3>1, <4>3
      <4>4. CASE i \in (Len(a) + 1)..(Len(a) + Len(k))
        BY <2>5, <3>1, <4>4
      <4>5. i \in 1..Len(a) \/ i = Len(a) + Len(k) + 1 \/ i \in (Len(a) + 1)..(Len(a) + Len(k))
        <5> DEFINE m == Len(a)
                   n == Len(k)
                   o == Len(x)
        <5>1. m \in Nat /\ n \in Nat
          BY <2>5, <3>1
        <5>2. o = m + n + 1 /\ i \in 1..o
          BY <3>5, <4>1
        <5> HIDE DEF m, n, o
        <5>3. i \in 1..m \/ i = m + n + 1 \/ i \in (m + 1)..(m + n)
          BY <5>1, <5>2
        <5> QED
          BY <5>3 DEF m, n
      <4> QED
        BY <4>2, <4>3, <4>4, <4>5
    <3> HIDE DEF x, y
    <3>6. x = y
      BY <3>2, <3>3, <3>4, <3>5, SameSeq
    <3> QED
      BY <2>2, <3>6 DEF x, y
  <2>7. Keep(u \o Append(s, t), wanted) = a \o Keep(Append(s, t), wanted)
    BY <2>1, <2>2, <2>3, <2>4, <2>6
  <2> QED
    BY <2>1, <2>7 DEF K, a
<1>3. Seq(T) \subseteq K
  <2> HIDE DEF K
  <2> QED
    BY <1>1, <1>2, SeqInduction
<1> QED
  BY <1>3

\* The steps of Flat keep sequences.
LEMMA FlatOps ==
    ASSUME NEW T
    PROVE  FlatF(T) \in Ops(Seq(T), Seq(T)) /\ <<>> \in Seq(T)
<1>1. \A s \in Seq(T), t \in Seq(T) : s \o t \in Seq(T)
  OBVIOUS
<1>2. <<>> \in Seq(T)
  OBVIOUS
<1> QED
  BY <1>1, <1>2 DEF FlatF, Ops

\* Flat gives a sequence of the elements of its parts.
LEMMA FlatType ==
    ASSUME NEW T, NEW seqs \in Seq(Seq(T))
    PROVE  Flat(seqs) \in Seq(T)
<1> DEFINE S == Seq(T)
<1>1. FlatF(T) \in Ops(S, S) /\ <<>> \in S
  BY FlatOps
<1>2. Flat(seqs) = Fold(FlatF(T), <<>>, seqs)
  BY FlatFold
<1>3. seqs \in Seq(S)
  OBVIOUS
<1> HIDE DEF S
<1>4. Fold(FlatF(T), <<>>, seqs) \in S
  BY <1>1, <1>3, FoldType
<1> QED
  BY <1>2, <1>4 DEF S

\* Flat of nothing.
LEMMA FlatEmpty == Flat(<<>>) = <<>>
<1>1. <<>> \in Seq(Seq({}))
  OBVIOUS
<1>2. Flat(<<>>) = Fold(FlatF({}), <<>>, <<>>)
  BY <1>1, FlatFold
<1> QED
  BY <1>2, FoldEmpty

\* Flat takes its last part last.
LEMMA FlatAppend ==
    ASSUME NEW T, NEW seqs \in Seq(Seq(T)), NEW t \in Seq(T)
    PROVE  Flat(Append(seqs, t)) = Flat(seqs) \o t
<1> DEFINE S == Seq(T)
           f == Flat(seqs)
<1>1. FlatF(T) \in Ops(S, S) /\ <<>> \in S
  BY FlatOps
<1>2. f = Fold(FlatF(T), <<>>, seqs)
  BY FlatFold
<1>3. seqs \in Seq(S) /\ t \in S /\ Append(seqs, t) \in Seq(Seq(T))
  OBVIOUS
<1>4. Flat(Append(seqs, t)) = Fold(FlatF(T), <<>>, Append(seqs, t))
  BY <1>3, FlatFold
<1>5. f \in Seq(T)
  BY FlatType
<1> HIDE DEF S, f
<1>6. Fold(FlatF(T), <<>>, Append(seqs, t)) = FlatF(T)[f][t]
  BY <1>1, <1>2, <1>3, FoldAppend
<1>7. FlatF(T)[f][t] = f \o t
  BY <1>5 DEF FlatF
<1> QED
  BY <1>4, <1>6, <1>7 DEF f

\* Flat of a concatenation.
LEMMA FlatCat ==
    ASSUME NEW T, NEW u \in Seq(Seq(T)), NEW v \in Seq(Seq(T))
    PROVE  Flat(u \o v) = Flat(u) \o Flat(v)
<1> DEFINE S == Seq(T)
           K == {s \in Seq(S) : Flat(u \o s) = Flat(u) \o Flat(s)}
<1>0. Flat(u) \in Seq(T)
  BY FlatType
<1>1. <<>> \in K
  <2>1. Flat(u) \o <<>> = Flat(u) /\ u \o <<>> = u /\ <<>> \in Seq(S)
    BY <1>0
  <2> QED
    BY <2>1, FlatEmpty
<1>2. ASSUME NEW s \in Seq(S), NEW t \in S, s \in K
      PROVE  Append(s, t) \in K
  <2> DEFINE w == u \o s
             a == Flat(u)
             b == Flat(s)
  <2>1. u \o Append(s, t) = Append(w, t) /\ w \in Seq(Seq(T)) /\ Append(s, t) \in Seq(S)
    OBVIOUS
  <2>2. Flat(w) = a \o b
    BY <1>2
  <2>3. b \in Seq(T)
    BY FlatType
  <2> HIDE DEF w, K
  <2>4. Flat(Append(s, t)) = b \o t
    BY FlatAppend
  <2>5. Flat(Append(w, t)) = Flat(w) \o t
    BY <2>1, FlatAppend
  <2> HIDE DEF a, b
  <2>6. a \in Seq(T) /\ t \in Seq(T)
    BY <1>0 DEF a
  <2>7. (a \o b) \o t = a \o (b \o t)
    BY <2>3, <2>6, CatAssoc
  <2>8. Flat(u \o Append(s, t)) = a \o Flat(Append(s, t))
    BY <2>1, <2>2, <2>4, <2>5, <2>7
  <2> QED
    BY <2>1, <2>8 DEF K, a
<1>3. Seq(S) \subseteq K
  <2> HIDE DEF K
  <2> QED
    BY <1>1, <1>2, SeqInduction
<1> QED
  BY <1>3

\* Flat of one part.
LEMMA FlatOne ==
    ASSUME NEW T, NEW t \in Seq(T)
    PROVE  Flat(<<t>>) = t
<1>1. <<>> \in Seq(Seq(T)) /\ Append(<<>>, t) = <<t>>
  OBVIOUS
<1>2. Flat(Append(<<>>, t)) = Flat(<<>>) \o t
  BY <1>1, FlatAppend
<1>3. <<>> \o t = t
  OBVIOUS
<1> QED
  BY <1>1, <1>2, <1>3, FlatEmpty
================================================================================
