-------------------------- MODULE HTTPHandler_proof --------------------------
(***************************************************************************)
(* Proofs about HTTPHandler, for any calls of the table, any requests and   *)
(* any bounds.  What buildMatchInfo() computes is shown by induction on the *)
(* rest of the path, which is here: a set of numbers that is not empty has  *)
(* a least one.                                                             *)
(***************************************************************************)
EXTENDS HTTPHandler, WellFoundedInduction, SequenceTheorems, TLAPS

-----------------------------------------------------------------------------
(* Induction, for a set of numbers.                                        *)

LEMMA LeastNumber ==
    ASSUME NEW T \in SUBSET Nat, T # {}
    PROVE  \E n \in T : \A m \in T : n <= m
<1> DEFINE Before == OpToRel(<, Nat)
<1>1. IsWellFoundedOn(Before, Nat)
  BY NatLessThanWellFounded
<1>2. \A a, b \in Nat : a < b => <<a, b>> \in Before
  BY DEF OpToRel
<1> HIDE DEF Before
<1>3. PICK n \in T : \A m \in T : ~(<<m, n>> \in Before)
  BY <1>1, WFMin
<1>4. \A m \in T : n <= m
  <2> TAKE m \in T
  <2>1. m \in Nat /\ n \in Nat
    OBVIOUS
  <2>2. ~(m < n)
    BY <1>2, <1>3, <2>1
  <2> QED BY <2>1, <2>2
<1> QED BY <1>4

LEMMA Induction ==
    ASSUME NEW P, 0 \in P, \A n \in Nat : n \in P => n + 1 \in P
    PROVE  Nat \subseteq P
<1>1. SUFFICES ASSUME Nat \ P # {} PROVE FALSE
  OBVIOUS
<1>2. PICK n \in Nat \ P : \A m \in Nat \ P : n <= m
  BY <1>1, LeastNumber
<1>3. n # 0 /\ n - 1 \in Nat
  BY <1>2
<1>4. n - 1 \in P
  BY <1>2, <1>3
<1>5. (n - 1) + 1 = n
  BY <1>2
<1> QED BY <1>2, <1>3, <1>4, <1>5

(* Min0() of places: it is one of them, and none is smaller.               *)
LEMMA Min0Least ==
    ASSUME NEW places \in SUBSET Nat, NEW otherwise
    PROVE  /\ places = {} => Min0(places, otherwise) = otherwise
           /\ places # {} => /\ Min0(places, otherwise) \in places
                             /\ \A q \in places : Min0(places, otherwise) <= q
<1>1. CASE places = {}
  BY <1>1 DEF Min0
<1>2. CASE places # {}
  <2>1. \E p \in places : \A q \in places : p <= q
    BY <1>2, LeastNumber
  <2> QED BY <1>2, <2>1 DEF Min0
<1> QED BY <1>1, <1>2

LEMMA FindCharFinds ==
    ASSUME NEW S, NEW s \in Seq(S), NEW c, NEW from \in 0 .. Len(s),
           NEW p, p = FindChar(s, c, from)
    PROVE  /\ p \in from .. Len(s)
           /\ p < Len(s) => s[p + 1] = c
           /\ p = Len(s) => \A q \in from .. Len(s) - 1 : s[q + 1] # c
<1> DEFINE there == {q \in from .. Len(s) - 1 : s[q + 1] = c}
<1>1. Len(s) \in Nat
  BY LenProperties
<1>2. there \in SUBSET Nat
  BY <1>1
<1>3. p = Min0(there, Len(s))
  BY DEF FindChar
<1>4. CASE there = {}
  <2>1. p = Len(s)
    <3> HIDE DEF there
    <3> QED BY <1>2, <1>3, <1>4, Min0Least
  <2>2. \A q \in from .. Len(s) - 1 : s[q + 1] # c
    BY <1>4
  <2>3. p \in from .. Len(s)
    BY <1>1, <2>1
  <2> QED BY <1>1, <2>1, <2>2, <2>3
<1>5. CASE there # {}
  <2>1. p \in there
    <3> HIDE DEF there
    <3> QED BY <1>2, <1>3, <1>5, Min0Least
  <2> QED BY <1>1, <2>1
<1> QED BY <1>4, <1>5

-----------------------------------------------------------------------------
(* buildMatchInfo() of a path.                                             *)

NameBeg(path, prefix) == FindChar(path, "{", prefix)
NameEnd(path, prefix) == FindChar(path, "}", NameBeg(path, prefix))

\* the loop of buildMatchInfo() from a position on, when what is behind the
\* next name gives "rest"
Turn(path, prefix, rest) ==
    LET section == SubSeq(path, prefix + 1, NameBeg(path, prefix))
        name == SubSeq(path, NameBeg(path, prefix) + 2, NameEnd(path, prefix)) IN
    IF prefix = Len(path)
    THEN [sections |-> IF Len(path) = 0 THEN <<>> ELSE << <<>> >>,
          names |-> <<>>, valid |-> TRUE]
    ELSE IF prefix # 0 /\ prefix = NameBeg(path, prefix) THEN Invalid
    ELSE IF NameBeg(path, prefix) = Len(path)
    THEN [sections |-> <<section>>, names |-> <<>>, valid |-> TRUE]
    ELSE IF NameEnd(path, prefix) = Len(path)
            \/ NameEnd(path, prefix) = NameBeg(path, prefix) + 1
            \/ ~rest.valid
    THEN Invalid
    ELSE [sections |-> <<section>> \o rest.sections,
          names |-> <<name>> \o rest.names, valid |-> TRUE]

IsParse(path, from, f) ==
    f = [prefix \in from .. Len(path) |->
            Turn(path, prefix, f[NameEnd(path, prefix) + 1])]

LEMMA NameBehind ==
    ASSUME NEW S, NEW path \in Seq(S), NEW prefix \in 0 .. Len(path),
           NEW b, NEW e, b = NameBeg(path, prefix), e = NameEnd(path, prefix)
    PROVE  /\ Len(path) \in Nat /\ prefix <= b /\ b <= e /\ e <= Len(path)
           /\ b \in Nat /\ e \in Nat
           /\ b < Len(path) => path[b + 1] = "{"
           /\ e < Len(path) => path[e + 1] = "}" /\ b < e
<1>1. Len(path) \in Nat
  BY LenProperties
<1>2. /\ b \in prefix .. Len(path)
      /\ b < Len(path) => path[b + 1] = "{"
  BY FindCharFinds DEF NameBeg
<1>3. b \in 0 .. Len(path) /\ b \in Nat /\ prefix <= b
  <2>1. prefix \in Nat
    BY <1>1
  <2>2. b \in prefix .. Len(path)
    BY <1>2
  <2> QED BY <1>1, <2>1, <2>2
<1>4. /\ e \in b .. Len(path)
      /\ e < Len(path) => path[e + 1] = "}"
  BY <1>3, FindCharFinds DEF NameEnd
<1>5. e < Len(path) => b # e
  <2>1. SUFFICES ASSUME e < Len(path), b = e PROVE FALSE
    OBVIOUS
  <2>2. path[b + 1] = "{" /\ path[e + 1] = "}"
    BY <1>2, <1>4, <2>1
  <2> QED BY <2>1, <2>2
<1>6. e \in Nat /\ b <= e /\ e <= Len(path)
  <2>1. e \in b .. Len(path)
    BY <1>4
  <2> QED BY <1>1, <1>3, <2>1
<1>7. b < Len(path) => path[b + 1] = "{"
  BY <1>2
<1>8. e < Len(path) => path[e + 1] = "}" /\ b < e
  <2>1. e < Len(path) => b < e
    BY <1>3, <1>5, <1>6
  <2> QED BY <1>4, <2>1
<1> QED BY <1>1, <1>3, <1>6, <1>7, <1>8

(* Only what is behind the next name is looked at, and only if there is one. *)
LEMMA TurnNeeds ==
    ASSUME NEW S, NEW path \in Seq(S), NEW prefix \in 0 .. Len(path), NEW f, NEW g,
           NameEnd(path, prefix) < Len(path) =>
                f[NameEnd(path, prefix) + 1] = g[NameEnd(path, prefix) + 1]
    PROVE  Turn(path, prefix, f[NameEnd(path, prefix) + 1])
            = Turn(path, prefix, g[NameEnd(path, prefix) + 1])
<1>1. CASE NameEnd(path, prefix) < Len(path)
  BY <1>1
<1>2. CASE NameEnd(path, prefix) = Len(path)
  BY <1>2 DEF Turn
<1>3. NameEnd(path, prefix) <= Len(path) /\ NameEnd(path, prefix) \in Nat /\ Len(path) \in Nat
  BY NameBehind
<1> QED BY <1>1, <1>2, <1>3

LEMMA ParseExists ==
    ASSUME NEW S, NEW path \in Seq(S)
    PROVE  \E f : IsParse(path, 0, f)
<1>1. Len(path) \in Nat
  BY LenProperties
<1> DEFINE P == {n \in Nat : n <= Len(path) => \E f : IsParse(path, Len(path) - n, f)}
<1>2. 0 \in P
  <2> DEFINE g == [prefix \in Len(path) - 0 .. Len(path) |-> Turn(path, prefix, path)]
  <2>1. IsParse(path, Len(path) - 0, g)
    <3>1. \A prefix \in Len(path) - 0 .. Len(path) :
            Turn(path, prefix, path) = Turn(path, prefix, g[NameEnd(path, prefix) + 1])
      BY <1>1 DEF Turn
    <3> QED BY <3>1 DEF IsParse
  <2> QED BY <2>1
<1>3. ASSUME NEW n \in Nat, n \in P PROVE n + 1 \in P
  <2>1. SUFFICES ASSUME n + 1 <= Len(path)
                 PROVE  \E f : IsParse(path, Len(path) - (n + 1), f)
    OBVIOUS
  <2>2. PICK k : k = Len(path) - n
    OBVIOUS
  <2>3. k \in Nat /\ k - 1 \in Nat /\ k - 1 = Len(path) - (n + 1) /\ k <= Len(path)
    BY <1>1, <2>1, <2>2
  <2>4. PICK f : IsParse(path, k, f)
    BY <1>1, <1>3, <2>1, <2>2
  <2>5. PICK g : g = [prefix \in k - 1 .. Len(path) |->
                        IF prefix = k - 1
                        THEN Turn(path, prefix, f[NameEnd(path, prefix) + 1])
                        ELSE f[prefix]]
    OBVIOUS
  <2>6. DOMAIN f = k .. Len(path) /\ DOMAIN g = k - 1 .. Len(path)
    BY <2>4, <2>5 DEF IsParse
  <2>7. \A p \in k .. Len(path) : g[p] = f[p]
    BY <2>3, <2>5
  <2>8. ASSUME NEW p \in k - 1 .. Len(path)
        PROVE  g[p] = Turn(path, p, g[NameEnd(path, p) + 1])
    <3>1. p \in 0 .. Len(path) /\ p \in Nat
      BY <1>1, <2>3
    <3>2. /\ NameEnd(path, p) \in Nat /\ p <= NameBeg(path, p)
          /\ NameEnd(path, p) < Len(path) => NameBeg(path, p) < NameEnd(path, p)
          /\ NameBeg(path, p) \in Nat
      BY <3>1, NameBehind
    <3>3. NameEnd(path, p) < Len(path) => NameEnd(path, p) + 1 \in k .. Len(path)
      BY <1>1, <2>3, <3>1, <3>2
    <3>4. Turn(path, p, f[NameEnd(path, p) + 1]) = Turn(path, p, g[NameEnd(path, p) + 1])
      BY <2>7, <3>1, <3>3, TurnNeeds
    <3>5. CASE p = k - 1
      BY <2>5, <3>4, <3>5
    <3>6. CASE p # k - 1
      <4>1. p \in k .. Len(path)
        BY <2>3, <3>1, <3>6
      <4>2. f[p] = Turn(path, p, f[NameEnd(path, p) + 1])
        BY <2>4, <4>1 DEF IsParse
      <4> QED BY <2>7, <3>4, <4>1, <4>2
    <3> QED BY <3>5, <3>6
  <2>9. IsParse(path, k - 1, g)
    <3>1. g = [p \in k - 1 .. Len(path) |-> g[p]]
      BY <2>5
    <3> QED BY <2>8, <3>1 DEF IsParse
  <2> QED BY <2>3, <2>9
<1>4. Len(path) \in P
  <2> HIDE DEF P
  <2>1. Nat \subseteq P
    BY <1>2, <1>3, Induction
  <2> QED BY <1>1, <2>1
<1> QED BY <1>1, <1>4

LEMMA BuildIsParse ==
    ASSUME NEW S, NEW path \in Seq(S)
    PROVE  \E f : IsParse(path, 0, f) /\ buildMatchInfo(path) = f[0]
<1>1. \E f : IsParse(path, 0, f)
  BY ParseExists
<1>2. buildMatchInfo(path) = (CHOOSE f : IsParse(path, 0, f))[0]
  BY DEF buildMatchInfo, IsParse, Turn, NameBeg, NameEnd
<1> QED BY <1>1, <1>2

(* What a parse has at a position: the end, text to the end, or text and a *)
(* name, with what is behind them.                                         *)
AtEnd(path, f, p) ==
    /\ p = Len(path)
    /\ f[p].names = <<>>
    /\ f[p].sections = IF Len(path) = 0 THEN <<>> ELSE << <<>> >>

AtText(path, f, p) ==
    /\ p # Len(path) /\ NameBeg(path, p) = Len(path)
    /\ f[p].names = <<>>
    /\ f[p].sections = <<SubSeq(path, p + 1, Len(path))>>

AtName(path, f, p, b, e) ==
    /\ p # Len(path) /\ b = NameBeg(path, p) /\ e = NameEnd(path, p)
    /\ b < e /\ e < Len(path) /\ f[e + 1].valid
    /\ f[p].sections = <<SubSeq(path, p + 1, b)>> \o f[e + 1].sections
    /\ f[p].names = <<SubSeq(path, b + 2, e)>> \o f[e + 1].names

LEMMA ParseCases ==
    ASSUME NEW S, NEW path \in Seq(S), NEW f, IsParse(path, 0, f),
           NEW p \in 0 .. Len(path), f[p].valid,
           NEW b, NEW e, b = NameBeg(path, p), e = NameEnd(path, p)
    PROVE  AtEnd(path, f, p) \/ AtText(path, f, p) \/ AtName(path, f, p, b, e)
<1>1. f[p] = Turn(path, p, f[e + 1])
  BY DEF IsParse
<1>2. ~Invalid.valid
  BY DEF Invalid
<1>3. /\ Len(path) \in Nat /\ b \in Nat /\ e \in Nat /\ b <= e /\ e <= Len(path)
      /\ e < Len(path) => b < e
  BY NameBehind
<1>4. CASE p = Len(path)
  BY <1>1, <1>4 DEF Turn, AtEnd
<1>5. CASE p # Len(path) /\ b = Len(path)
  <2>1. ~(p # 0 /\ p = b)
    BY <1>5
  <2>2. f[p] = [sections |-> <<SubSeq(path, p + 1, b)>>, names |-> <<>>, valid |-> TRUE]
    BY <1>1, <1>5, <2>1 DEF Turn
  <2> QED BY <1>5, <2>2 DEF AtText
<1>6. CASE p # Len(path) /\ b # Len(path)
  <2>1. ~(p # 0 /\ p = b) /\ ~(e = Len(path) \/ e = b + 1 \/ ~f[e + 1].valid)
    BY <1>1, <1>2, <1>6 DEF Turn
  <2>2. f[p] = [sections |-> <<SubSeq(path, p + 1, b)>> \o f[e + 1].sections,
                names |-> <<SubSeq(path, b + 2, e)>> \o f[e + 1].names, valid |-> TRUE]
    BY <1>1, <1>6, <2>1 DEF Turn
  <2>3. e < Len(path) /\ b < e
    BY <1>3, <2>1
  <2> QED BY <1>6, <2>1, <2>2, <2>3 DEF AtName
<1> QED BY <1>4, <1>5, <1>6

LEMMA SingleSeq ==
    ASSUME NEW S, NEW s \in S
    PROVE  <<s>> \in Seq(S) /\ Len(<<s>>) = 1 /\ <<s>>[1] = s
OBVIOUS

(* Text and names are sequences, one more of the former.                   *)
LEMMA ParseShape ==
    ASSUME NEW S, NEW path \in Seq(S), NEW f, IsParse(path, 0, f)
    PROVE  \A p \in 0 .. Len(path) : f[p].valid =>
                /\ f[p].sections \in Seq(Seq(S)) /\ f[p].names \in Seq(Seq(S))
                /\ Len(path) # 0 => Len(f[p].sections) = Len(f[p].names) + 1
<1> DEFINE Shape(p) ==
        /\ f[p].sections \in Seq(Seq(S)) /\ f[p].names \in Seq(Seq(S))
        /\ Len(path) # 0 => Len(f[p].sections) = Len(f[p].names) + 1
    P == {n \in Nat : \A p \in 0 .. Len(path) :
                        Len(path) - p <= n /\ f[p].valid => Shape(p)}
<1>1. Len(path) \in Nat
  BY LenProperties
<1>2. ASSUME NEW p \in 0 .. Len(path), f[p].valid,
             \A q \in 0 .. Len(path) : p < q /\ f[q].valid => Shape(q)
      PROVE  Shape(p)
  <2>1. PICK b, e : b = NameBeg(path, p) /\ e = NameEnd(path, p)
    OBVIOUS
  <2>2. /\ b \in Nat /\ e \in Nat /\ p <= b /\ b <= e /\ e <= Len(path) /\ p \in Nat
    <3>1. p \in Nat
      BY <1>1
    <3>2. /\ p <= b /\ b <= e /\ e <= Len(path)
          /\ b \in Nat /\ e \in Nat
      BY <2>1, NameBehind
    <3> QED BY <3>1, <3>2
  <2>3. SubSeq(path, p + 1, b) \in Seq(S) /\ SubSeq(path, b + 2, e) \in Seq(S)
    <3>1. \A i \in p + 1 .. b : path[i] \in S
      BY <1>1, <2>2, ElementOfSeq
    <3>2. \A i \in b + 2 .. e : path[i] \in S
      BY <1>1, <2>2, ElementOfSeq
    <3>3. p + 1 \in Int /\ b + 2 \in Int /\ b \in Int /\ e \in Int
      BY <2>2
    <3> QED BY <3>1, <3>2, <3>3, SubSeqProperties
  <2>4. CASE AtEnd(path, f, p)
    BY <2>4 DEF AtEnd
  <2>5. CASE AtText(path, f, p)
    <3>1. f[p].names = <<>> /\ f[p].sections = <<SubSeq(path, p + 1, b)>>
      BY <2>1, <2>5 DEF AtText
    <3> QED BY <2>3, <3>1
  <2>6. CASE AtName(path, f, p, b, e)
    <3>0. e < Len(path) /\ f[e + 1].valid
      BY <2>6 DEF AtName
    <3>1. e + 1 \in 0 .. Len(path) /\ p < e + 1
      BY <1>1, <2>2, <3>0
    <3>2. Shape(e + 1)
      BY <1>2, <3>0, <3>1
    <3>3. PICK u, v : u = SubSeq(path, p + 1, b) /\ v = SubSeq(path, b + 2, e)
      OBVIOUS
    <3>4. /\ <<u>> \in Seq(Seq(S)) /\ Len(<<u>>) = 1
          /\ <<v>> \in Seq(Seq(S)) /\ Len(<<v>>) = 1
      BY <2>3, <3>3, SingleSeq
    <3>5. PICK us, vs : us = f[e + 1].sections /\ vs = f[e + 1].names
      OBVIOUS
    <3>6. us \in Seq(Seq(S)) /\ vs \in Seq(Seq(S)) /\ (Len(path) # 0 => Len(us) = Len(vs) + 1)
      BY <3>2, <3>5
    <3>7. /\ <<u>> \o us \in Seq(Seq(S)) /\ Len(<<u>> \o us) = 1 + Len(us)
      BY <3>4, <3>6, ConcatProperties
    <3>8. /\ <<v>> \o vs \in Seq(Seq(S)) /\ Len(<<v>> \o vs) = 1 + Len(vs)
      BY <3>4, <3>6, ConcatProperties
    <3>9. f[p].sections = <<u>> \o us /\ f[p].names = <<v>> \o vs
      BY <2>6, <3>3, <3>5 DEF AtName
    <3>10. Len(us) \in Nat /\ Len(vs) \in Nat
      BY <3>6, LenProperties
    <3>11. Len(path) # 0 => Len(<<u>> \o us) = Len(<<v>> \o vs) + 1
      BY <3>6, <3>7, <3>8, <3>10
    <3> QED BY <3>7, <3>8, <3>9, <3>11
  <2>7. AtEnd(path, f, p) \/ AtText(path, f, p) \/ AtName(path, f, p, b, e)
    BY <1>2, <2>1, ParseCases
  <2> HIDE DEF Shape
  <2> QED BY <2>4, <2>5, <2>6, <2>7
<1>3. 0 \in P
  <2>1. ASSUME NEW p \in 0 .. Len(path), Len(path) - p <= 0, f[p].valid
        PROVE  Shape(p)
    <3>1. \A q \in 0 .. Len(path) : ~(p < q)
      BY <1>1, <2>1
    <3> HIDE DEF Shape
    <3> QED BY <1>2, <2>1, <3>1
  <2> HIDE DEF Shape
  <2> QED BY <2>1
<1>4. ASSUME NEW n \in Nat, n \in P PROVE n + 1 \in P
  <2>1. ASSUME NEW p \in 0 .. Len(path), Len(path) - p <= n + 1, f[p].valid
        PROVE  Shape(p)
    <3>1. ASSUME NEW q \in 0 .. Len(path), p < q, f[q].valid PROVE Shape(q)
      <4>1. Len(path) - q <= n
        BY <1>1, <2>1, <3>1
      <4> HIDE DEF Shape
      <4> QED BY <1>4, <3>1, <4>1
    <3> HIDE DEF Shape
    <3> QED BY <1>2, <2>1, <3>1
  <2> HIDE DEF Shape
  <2> QED BY <2>1
<1>5. Len(path) \in P
  <2> HIDE DEF P
  <2>1. Nat \subseteq P
    BY <1>3, <1>4, Induction
  <2> QED BY <1>1, <2>1
<1>6. ASSUME NEW p \in 0 .. Len(path), f[p].valid PROVE Shape(p)
  <2>1. Len(path) - p <= Len(path)
    BY <1>1
  <2> HIDE DEF Shape
  <2> QED BY <1>5, <1>6, <2>1
<1> QED BY <1>6

Cons(first, others) == <<first>> \o others

LEMMA ConsTold ==
    ASSUME NEW T, NEW u \in T, NEW v \in T, NEW us \in Seq(T), NEW vs \in Seq(T),
           Cons(u, us) = Cons(v, vs)
    PROVE  u = v /\ us = vs
<1>0. <<u>> \o us = <<v>> \o vs
  BY DEF Cons
<1>1. <<u>> \in Seq(T) /\ Len(<<u>>) = 1 /\ <<u>>[1] = u
  BY SingleSeq
<1>2. <<v>> \in Seq(T) /\ Len(<<v>>) = 1 /\ <<v>>[1] = v
  BY SingleSeq
<1>3. Len(us) \in Nat /\ Len(vs) \in Nat
  BY LenProperties
<1>4. (<<u>> \o us)[1] = u
  BY <1>1, <1>3, ConcatProperties
<1>5. (<<v>> \o vs)[1] = v
  BY <1>2, <1>3, ConcatProperties
<1>6. u = v
  BY <1>0, <1>4, <1>5
<1>7. us = vs
  <2>1. <<u>> \o us = <<u>> \o vs
    BY <1>0, <1>6
  <2>2. Tail(<<u>> \o us) = us /\ Tail(<<u>> \o vs) = vs
    OBVIOUS
  <2> QED BY <2>1, <2>2
<1> QED BY <1>6, <1>7

Rest(path, p) == SubSeq(path, p + 1, Len(path))

SpelledOut(path, p, b, e) ==
    Rest(path, p) = SubSeq(path, p + 1, b)
        \o (<<"{">> \o (SubSeq(path, b + 2, e) \o (<<"}">> \o Rest(path, e + 1))))

LEMMA RestSplits ==
    ASSUME NEW S, NEW path \in Seq(S), NEW f, NEW p \in 0 .. Len(path),
           NEW b, NEW e, AtName(path, f, p, b, e)
    PROVE  SpelledOut(path, p, b, e)
<1>1. /\ Len(path) \in Nat /\ p <= b /\ b \in Nat /\ e \in Nat /\ b < e
      /\ b < Len(path) => path[b + 1] = "{"
      /\ e < Len(path) => path[e + 1] = "}"
  BY NameBehind DEF AtName
<1>2. p \in Nat /\ p <= b /\ b \in Nat /\ e \in Nat /\ b < e /\ e < Len(path) /\ Len(path) \in Nat
  <2>1. e < Len(path)
    BY DEF AtName
  <2>2. Len(path) \in Nat
    BY LenProperties
  <2>3. p \in Nat
    BY <2>2
  <2> QED BY <1>1, <2>1, <2>2, <2>3
<1>3. path[b + 1] = "{" /\ path[e + 1] = "}"
  <2>1. b < Len(path)
    BY <1>2
  <2> QED BY <1>1, <1>2, <2>1
<1>4. SubSeq(path, p + 1, b) \o SubSeq(path, b + 1, Len(path)) = Rest(path, p)
  <2>1. p + 1 \in 1 .. Len(path) + 1 /\ b \in (p + 1) - 1 .. Len(path) /\ Len(path) \in b .. Len(path)
    BY <1>2
  <2> QED BY <2>1, ConcatAdjacentSubSeq DEF Rest
<1>5. SubSeq(path, b + 1, Len(path)) = <<"{">> \o SubSeq(path, b + 2, Len(path))
  <2>1. b + 1 \in 1 .. Len(path) /\ Len(path) \in b + 1 .. Len(path) /\ (b + 1) + 1 = b + 2
    BY <1>2
  <2> QED BY <1>3, <2>1, SubSeqRecursiveFirst
<1>6. SubSeq(path, b + 2, e) \o SubSeq(path, e + 1, Len(path)) = SubSeq(path, b + 2, Len(path))
  <2>1. b + 2 \in 1 .. Len(path) + 1 /\ e \in (b + 2) - 1 .. Len(path) /\ Len(path) \in e .. Len(path)
    BY <1>2
  <2> QED BY <2>1, ConcatAdjacentSubSeq
<1>7. SubSeq(path, e + 1, Len(path)) = <<"}">> \o Rest(path, e + 1)
  <2>1. e + 1 \in 1 .. Len(path) /\ Len(path) \in e + 1 .. Len(path)
    BY <1>2
  <2> QED BY <1>3, <2>1, SubSeqRecursiveFirst DEF Rest
<1> QED BY <1>4, <1>5, <1>6, <1>7 DEF SpelledOut

(* Without a name, the only section is all that is left.                   *)
LEMMA OnlyText ==
    ASSUME NEW S, NEW path \in Seq(S), Len(path) # 0, NEW f,
           NEW p \in 0 .. Len(path), AtEnd(path, f, p) \/ AtText(path, f, p)
    PROVE  f[p].sections = <<Rest(path, p)>>
<1>1. CASE AtEnd(path, f, p)
  <2>1. Len(path) \in Int /\ p + 1 \in Int /\ Len(path) < p + 1
    BY <1>1, LenProperties DEF AtEnd
  <2>2. Rest(path, p) = <<>>
    BY <2>1, SubSeqEmpty DEF Rest
  <2> QED BY <1>1, <2>2 DEF AtEnd
<1>2. CASE AtText(path, f, p)
  BY <1>2 DEF AtText, Rest
<1> QED BY <1>1, <1>2

Pieces(S, r, h, i, u, v) ==
    /\ v + 1 \in 0 .. Len(r) /\ h[v + 1].valid
    /\ SubSeq(r, i + 1, u) \in Seq(S) /\ SubSeq(r, u + 2, v) \in Seq(S)
    /\ h[v + 1].sections \in Seq(Seq(S)) /\ h[v + 1].names \in Seq(Seq(S))
    /\ h[i].names # <<>> /\ Len(h[i].names) = Len(h[v + 1].names) + 1

LEMMA NameShape ==
    ASSUME NEW S, NEW r \in Seq(S), NEW h, IsParse(r, 0, h), NEW i \in 0 .. Len(r),
           NEW u, NEW v, AtName(r, h, i, u, v)
    PROVE  Pieces(S, r, h, i, u, v)
<1>1. /\ Len(r) \in Nat /\ u \in Nat /\ v \in Nat /\ v < Len(r) /\ i \in Nat
      /\ h[v + 1].valid
  <2>1. Len(r) \in Nat /\ u \in Nat /\ v \in Nat
    BY NameBehind DEF AtName
  <2> QED BY <2>1 DEF AtName
<1>2. v + 1 \in 0 .. Len(r)
  BY <1>1
<1>3. h[v + 1].sections \in Seq(Seq(S)) /\ h[v + 1].names \in Seq(Seq(S))
  BY <1>1, <1>2, ParseShape
<1>4. SubSeq(r, i + 1, u) \in Seq(S)
  <2>1. u <= Len(r)
    BY <1>1 DEF AtName
  <2>2. \A j \in i + 1 .. u : r[j] \in S
    BY <1>1, <2>1, ElementOfSeq
  <2>3. i + 1 \in Int /\ u \in Int
    BY <1>1
  <2> QED BY <2>2, <2>3, SubSeqProperties
<1>5. SubSeq(r, u + 2, v) \in Seq(S)
  <2>1. \A j \in u + 2 .. v : r[j] \in S
    BY <1>1, ElementOfSeq
  <2>2. u + 2 \in Int /\ v \in Int
    BY <1>1
  <2> QED BY <2>1, <2>2, SubSeqProperties
<1>6. PICK x, xs : x = SubSeq(r, u + 2, v) /\ xs = h[v + 1].names
  OBVIOUS
<1>7. <<x>> \in Seq(Seq(S)) /\ Len(<<x>>) = 1
  BY <1>5, <1>6, SingleSeq
<1>8. Len(<<x>> \o xs) = 1 + Len(xs) /\ Len(xs) \in Nat
  BY <1>3, <1>6, <1>7, ConcatProperties, LenProperties
<1>9. h[i].names = <<x>> \o xs
  BY <1>6 DEF AtName
<1>10. h[i].names # <<>> /\ Len(h[i].names) = Len(h[v + 1].names) + 1
  BY <1>6, <1>8, <1>9
<1> QED BY <1>1, <1>2, <1>3, <1>4, <1>5, <1>10 DEF Pieces

(* Two paths with the same sections and names are the same.                *)
LEMMA RestTold ==
    ASSUME NEW S, NEW s \in Seq(S), NEW t \in Seq(S), Len(s) # 0, Len(t) # 0,
           NEW f, NEW g, IsParse(s, 0, f), IsParse(t, 0, g)
    PROVE  \A p \in 0 .. Len(s), q \in 0 .. Len(t) :
                /\ f[p].valid /\ g[q].valid
                /\ f[p].sections = g[q].sections /\ f[p].names = g[q].names
                => Rest(s, p) = Rest(t, q)
<1> DEFINE Agree(p, q) == /\ f[p].valid /\ g[q].valid
                          /\ f[p].sections = g[q].sections /\ f[p].names = g[q].names
    P == {n \in Nat : \A p \in 0 .. Len(s), q \in 0 .. Len(t) :
                        Agree(p, q) /\ Len(f[p].names) = n => Rest(s, p) = Rest(t, q)}
<1>0. Len(s) \in Nat /\ Len(t) \in Nat
  BY LenProperties
<1>1. ASSUME NEW p \in 0 .. Len(s), NEW q \in 0 .. Len(t), Agree(p, q),
             \A i \in 0 .. Len(s), j \in 0 .. Len(t) :
                Agree(i, j) /\ Len(f[p].names) = Len(f[i].names) + 1
                    => Rest(s, i) = Rest(t, j)
      PROVE  Rest(s, p) = Rest(t, q)
  <2>1. PICK b, e : b = NameBeg(s, p) /\ e = NameEnd(s, p)
    OBVIOUS
  <2>2. PICK c, d : c = NameBeg(t, q) /\ d = NameEnd(t, q)
    OBVIOUS
  <2>3. AtEnd(s, f, p) \/ AtText(s, f, p) \/ AtName(s, f, p, b, e)
    BY <1>1, <2>1, ParseCases
  <2>4. AtEnd(t, g, q) \/ AtText(t, g, q) \/ AtName(t, g, q, c, d)
    BY <1>1, <2>2, ParseCases
  <2>6. CASE f[p].names = <<>>
    <3>1. ~AtName(s, f, p, b, e)
      BY <2>6, NameShape DEF Pieces
    <3>2. ~AtName(t, g, q, c, d)
      <4>1. g[q].names = <<>>
        BY <1>1, <2>6
      <4> QED BY <4>1, NameShape DEF Pieces
    <3>3. f[p].sections = <<Rest(s, p)>> /\ g[q].sections = <<Rest(t, q)>>
      BY <2>3, <2>4, <3>1, <3>2, OnlyText
    <3>4. f[p].sections = g[q].sections
      BY <1>1
    <3>5. <<Rest(s, p)>> = <<Rest(t, q)>>
      BY <3>3, <3>4
    <3> QED BY <3>5
  <2>7. CASE f[p].names # <<>>
    <3>1. AtName(s, f, p, b, e)
      BY <2>3, <2>7 DEF AtEnd, AtText
    <3>2. AtName(t, g, q, c, d)
      BY <1>1, <2>4, <2>7 DEF AtEnd, AtText
    <3>3. /\ e + 1 \in 0 .. Len(s) /\ f[e + 1].valid
          /\ SubSeq(s, p + 1, b) \in Seq(S) /\ SubSeq(s, b + 2, e) \in Seq(S)
          /\ f[e + 1].sections \in Seq(Seq(S)) /\ f[e + 1].names \in Seq(Seq(S))
          /\ Len(f[p].names) = Len(f[e + 1].names) + 1
      <4>1. Pieces(S, s, f, p, b, e)
        BY <3>1, NameShape
      <4> QED BY <4>1 DEF Pieces
    <3>4. /\ d + 1 \in 0 .. Len(t) /\ g[d + 1].valid
          /\ SubSeq(t, q + 1, c) \in Seq(S) /\ SubSeq(t, c + 2, d) \in Seq(S)
          /\ g[d + 1].sections \in Seq(Seq(S)) /\ g[d + 1].names \in Seq(Seq(S))
      <4>1. Pieces(S, t, g, q, c, d)
        BY <3>2, NameShape
      <4> QED BY <4>1 DEF Pieces
    <3>5. /\ SubSeq(s, p + 1, b) = SubSeq(t, q + 1, c)
          /\ f[e + 1].sections = g[d + 1].sections
      <4>1. <<SubSeq(s, p + 1, b)>> \o f[e + 1].sections
                = <<SubSeq(t, q + 1, c)>> \o g[d + 1].sections
        BY <1>1, <3>1, <3>2 DEF AtName
      <4>2. PICK u, v, us, vs : /\ u = SubSeq(s, p + 1, b) /\ v = SubSeq(t, q + 1, c)
                                /\ us = f[e + 1].sections /\ vs = g[d + 1].sections
        OBVIOUS
      <4>3. /\ u \in Seq(S) /\ v \in Seq(S) /\ us \in Seq(Seq(S)) /\ vs \in Seq(Seq(S))
            /\ Cons(u, us) = Cons(v, vs)
        BY <3>3, <3>4, <4>1, <4>2 DEF Cons
      <4>4. u = v /\ us = vs
        BY <4>3, ConsTold
      <4> QED BY <4>2, <4>4
    <3>6. /\ SubSeq(s, b + 2, e) = SubSeq(t, c + 2, d)
          /\ f[e + 1].names = g[d + 1].names
      <4>1. <<SubSeq(s, b + 2, e)>> \o f[e + 1].names
                = <<SubSeq(t, c + 2, d)>> \o g[d + 1].names
        BY <1>1, <3>1, <3>2 DEF AtName
      <4>2. PICK u, v, us, vs : /\ u = SubSeq(s, b + 2, e) /\ v = SubSeq(t, c + 2, d)
                                /\ us = f[e + 1].names /\ vs = g[d + 1].names
        OBVIOUS
      <4>3. /\ u \in Seq(S) /\ v \in Seq(S) /\ us \in Seq(Seq(S)) /\ vs \in Seq(Seq(S))
            /\ Cons(u, us) = Cons(v, vs)
        BY <3>3, <3>4, <4>1, <4>2 DEF Cons
      <4>4. u = v /\ us = vs
        BY <4>3, ConsTold
      <4> QED BY <4>2, <4>4
    <3>7. Rest(s, e + 1) = Rest(t, d + 1)
      BY <1>1, <3>3, <3>4, <3>5, <3>6
    <3>8. SpelledOut(s, p, b, e) /\ SpelledOut(t, q, c, d)
      BY <3>1, <3>2, RestSplits
    <3> QED BY <3>5, <3>6, <3>7, <3>8 DEF SpelledOut
  <2> QED BY <2>6, <2>7
<1>2. ASSUME NEW p \in 0 .. Len(s), f[p].valid PROVE Len(f[p].names) \in Nat
  BY <1>2, ParseShape, LenProperties
<1>3. 0 \in P
  <2>1. ASSUME NEW p \in 0 .. Len(s), NEW q \in 0 .. Len(t), Agree(p, q), Len(f[p].names) = 0
        PROVE  Rest(s, p) = Rest(t, q)
    <3>1. \A i \in 0 .. Len(s) : f[i].valid => Len(f[p].names) # Len(f[i].names) + 1
      BY <1>2, <2>1
    <3> QED BY <1>1, <2>1, <3>1
  <2> HIDE DEF Agree
  <2> QED BY <2>1
<1>4. ASSUME NEW n \in Nat, n \in P PROVE n + 1 \in P
  <2>1. ASSUME NEW p \in 0 .. Len(s), NEW q \in 0 .. Len(t), Agree(p, q),
               Len(f[p].names) = n + 1
        PROVE  Rest(s, p) = Rest(t, q)
    <3>1. \A i \in 0 .. Len(s) : f[i].valid /\ Len(f[p].names) = Len(f[i].names) + 1
                                    => Len(f[i].names) = n
      BY <1>2, <2>1
    <3>2. \A i \in 0 .. Len(s), j \in 0 .. Len(t) :
            Agree(i, j) /\ Len(f[p].names) = Len(f[i].names) + 1 => Rest(s, i) = Rest(t, j)
      BY <1>4, <3>1
    <3> QED BY <1>1, <2>1, <3>2
  <2> HIDE DEF Agree
  <2> QED BY <2>1
<1>5. Nat \subseteq P
  <2> HIDE DEF P
  <2> QED BY <1>3, <1>4, Induction
<1>6. ASSUME NEW p \in 0 .. Len(s), NEW q \in 0 .. Len(t), Agree(p, q)
      PROVE  Rest(s, p) = Rest(t, q)
  <2>1. Len(f[p].names) \in P
    <3> HIDE DEF P
    <3> QED BY <1>2, <1>5, <1>6
  <2> HIDE DEF Agree
  <2> QED BY <1>6, <2>1
<1> QED BY <1>6

LEMMA PathsTold ==
    ASSUME NEW S, NEW s \in Seq(S), NEW t \in Seq(S),
           buildMatchInfo(s).valid, buildMatchInfo(t).valid,
           buildMatchInfo(s).sections = buildMatchInfo(t).sections,
           buildMatchInfo(s).names = buildMatchInfo(t).names
    PROVE  s = t
<1>1. PICK f : IsParse(s, 0, f) /\ buildMatchInfo(s) = f[0]
  BY BuildIsParse
<1>2. PICK g : IsParse(t, 0, g) /\ buildMatchInfo(t) = g[0]
  BY BuildIsParse
<1>3. Len(s) \in Nat /\ Len(t) \in Nat /\ 0 \in 0 .. Len(s) /\ 0 \in 0 .. Len(t)
  BY LenProperties
<1>4. ASSUME NEW r \in Seq(S), NEW h, IsParse(r, 0, h), h[0].valid
      PROVE  h[0].sections = <<>> <=> Len(r) = 0
  <2>1. Len(r) \in Nat /\ 0 \in 0 .. Len(r)
    BY LenProperties
  <2>2. CASE Len(r) = 0
    <3>1. ~AtName(r, h, 0, NameBeg(r, 0), NameEnd(r, 0)) /\ ~AtText(r, h, 0)
      BY <2>2 DEF AtName, AtText
    <3>2. AtEnd(r, h, 0)
      BY <1>4, <2>1, <3>1, ParseCases
    <3> QED BY <2>2, <3>2 DEF AtEnd
  <2>3. CASE Len(r) # 0
    <3>1. /\ h[0].sections \in Seq(Seq(S)) /\ h[0].names \in Seq(Seq(S))
          /\ Len(h[0].sections) = Len(h[0].names) + 1
      BY <1>4, <2>1, <2>3, ParseShape
    <3>2. Len(h[0].names) \in Nat
      BY <3>1, LenProperties
    <3> QED BY <2>3, <3>1, <3>2
  <2> QED BY <2>2, <2>3
<1>5. CASE Len(s) = 0
  <2>1. Len(t) = 0
    BY <1>1, <1>2, <1>4, <1>5
  <2> QED BY <1>5, <2>1, EmptySeq
<1>6. CASE Len(s) # 0
  <2>1. Len(t) # 0
    BY <1>1, <1>2, <1>4, <1>6
  <2>2. Rest(s, 0) = Rest(t, 0)
    BY <1>1, <1>2, <1>3, <1>6, <2>1, RestTold
  <2>3. Rest(s, 0) = s /\ Rest(t, 0) = t
    BY SubSeqFull DEF Rest
  <2> QED BY <2>2, <2>3
<1> QED BY <1>5, <1>6

-----------------------------------------------------------------------------
(* The table: its rows are routes of calls, no two of them for the same    *)
(* method and path.                                                        *)

Rows == {Route(call.method, Rooted(call.path), live) :
            call \in {c \in Calls : buildMatchInfo(Rooted(c.path)).valid}, live \in BOOLEAN}

Table(t) ==
    /\ t \in Seq(Rows)
    /\ \A i, j \in DOMAIN t : t[i].method = t[j].method /\ t[i].path = t[j].path => i = j

Answers(t, method, path) ==
    \E i \in DOMAIN t : t[i].method = method /\ t[i].path = path /\ t[i].live

\* of the two, only what is asked for a method and a path has changed
ChangesOnly(t, u, method, path) ==
    \A m, p : m # method \/ p # path => (Answers(u, m, p) <=> Answers(t, m, p))

\* (the provers do not know that a literal is a STRING)
Text == STRING \union {"/"}

LEMMA StringsAreText ==
    ASSUME NEW path \in Seq(STRING)
    PROVE  path \in Seq(Text)
<1>1. Len(path) \in Nat /\ path \in [1 .. Len(path) -> STRING]
  BY LenProperties
<1>2. path \in [1 .. Len(path) -> Text]
  BY <1>1 DEF Text
<1> QED BY <1>1, <1>2, SeqDef

LEMMA CallsAreText ==
    \A call \in Calls : call.path \in Seq(Text)
BY StringsAreText, HandlerAssumption

LEMMA TargetsAreText ==
    \A t \in Targets : t.path \in Seq(Text)
BY StringsAreText, HandlerAssumption

LEMMA RootedIsPath ==
    ASSUME NEW path \in Seq(Text)
    PROVE  /\ Rooted(path) \in Seq(Text)
           /\ Rooted(Rooted(path)) = Rooted(path)
<1>1. CASE path # <<>> /\ path[1] = "/"
  BY <1>1 DEF Rooted
<1>2. CASE ~(path # <<>> /\ path[1] = "/")
  <2>1. PICK s : s = <<"/">> \o path
    OBVIOUS
  <2>2. Len(path) \in Nat
    BY LenProperties
  <2>3. s \in Seq(Text) /\ Len(s) = 1 + Len(path) /\ s[1] = "/"
    <3>1. PICK slash \in Text : slash = "/"
      BY DEF Text
    <3>2. <<slash>> \in Seq(Text) /\ Len(<<slash>>) = 1 /\ <<slash>>[1] = slash
      BY SingleSeq
    <3> QED BY <2>1, <2>2, <3>1, <3>2, ConcatProperties
  <2>4. Rooted(path) = s
    BY <1>2, <2>1 DEF Rooted
  <2>5. s # <<>>
    BY <2>2, <2>3
  <2> QED BY <2>3, <2>4, <2>5 DEF Rooted
<1> QED BY <1>1, <1>2

LEMMA RowShape ==
    ASSUME NEW r \in Rows
    PROVE  /\ r = Route(r.method, r.path, r.live)
           /\ r.path \in Seq(Text) /\ buildMatchInfo(r.path).valid
           /\ Rooted(r.path) = r.path /\ r.live \in BOOLEAN
           /\ \A live \in BOOLEAN : Route(r.method, r.path, live) \in Rows
           /\ \E call \in Calls : r.path = Rooted(call.path)
<1>1. PICK call \in {c \in Calls : buildMatchInfo(Rooted(c.path)).valid}, live \in BOOLEAN :
        r = Route(call.method, Rooted(call.path), live)
  BY DEF Rows
<1>2. r.method = call.method /\ r.path = Rooted(call.path) /\ r.live = live
  BY <1>1 DEF Route
<1>3. call.path \in Seq(Text) /\ buildMatchInfo(Rooted(call.path)).valid
  BY CallsAreText
<1>4. \A l \in BOOLEAN : Route(call.method, Rooted(call.path), l) \in Rows
  BY DEF Rows
<1> QED BY <1>1, <1>2, <1>3, <1>4, RootedIsPath

LEMMA SameIsSame ==
    ASSUME NEW r \in Rows, NEW m, NEW path \in Seq(Text), buildMatchInfo(path).valid
    PROVE  Same(r, m, buildMatchInfo(path)) <=> r.method = m /\ r.path = path
<1>1. /\ r.sections = buildMatchInfo(r.path).sections
      /\ r.names = buildMatchInfo(r.path).names
  BY RowShape DEF Route
<1>2. r.path \in Seq(Text) /\ buildMatchInfo(r.path).valid
  BY RowShape
<1>3. ASSUME Same(r, m, buildMatchInfo(path)) PROVE r.path = path
  BY <1>1, <1>2, <1>3, PathsTold DEF Same
<1>4. ASSUME r.path = path, r.method = m PROVE Same(r, m, buildMatchInfo(path))
  BY <1>1, <1>4 DEF Same
<1> QED BY <1>3, <1>4 DEF Same

(* Where a method and a path are in the table.                             *)
There(t, m, path) == {i \in DOMAIN t : Same(t[i], m, buildMatchInfo(path))}

LEMMA ThereIs ==
    ASSUME NEW t, Table(t), NEW m, NEW path \in Seq(Text), buildMatchInfo(path).valid,
           NEW there, there = There(t, m, path)
    PROVE  /\ \A i \in DOMAIN t : i \in there <=> t[i].method = m /\ t[i].path = path
           /\ there \subseteq DOMAIN t
           /\ there # {} => Min0(there, 0) \in there
<1>1. t \in Seq(Rows) /\ DOMAIN t = 1 .. Len(t) /\ Len(t) \in Nat
  BY LenProperties DEF Table
<1>2. \A i \in DOMAIN t : t[i] \in Rows
  BY <1>1, ElementOfSeq
<1>3. there = {i \in DOMAIN t : t[i].method = m /\ t[i].path = path}
  BY <1>2, SameIsSame DEF There
<1>4. there \in SUBSET Nat
  BY <1>1, <1>3
<1>5. there # {} => Min0(there, 0) \in there
  BY <1>4, Min0Least
<1> QED BY <1>3, <1>5

LEMMA RowChanges ==
    ASSUME NEW t, Table(t), NEW i \in DOMAIN t, NEW r \in Rows,
           r.method = t[i].method, r.path = t[i].path,
           NEW u, u = [t EXCEPT ![i] = r]
    PROVE  /\ Table(u)
           /\ ChangesOnly(t, u, r.method, r.path)
           /\ Answers(u, r.method, r.path) <=> r.live
<1>1. t \in Seq(Rows) /\ DOMAIN t = 1 .. Len(t) /\ Len(t) \in Nat
  BY LenProperties DEF Table
<1>2. u \in Seq(Rows) /\ DOMAIN u = DOMAIN t
  BY <1>1, ExceptSeq
<1>3. \A j \in DOMAIN t : u[j].method = t[j].method /\ u[j].path = t[j].path
  OBVIOUS
<1>4. Table(u)
  BY <1>2, <1>3 DEF Table
<1>5. \A j \in DOMAIN t : j # i => u[j] = t[j]
  OBVIOUS
<1>6. u[i] = r
  OBVIOUS
<1>7. ChangesOnly(t, u, r.method, r.path)
  <2>1. ASSUME NEW m, NEW p, m # r.method \/ p # r.path
        PROVE  Answers(u, m, p) <=> Answers(t, m, p)
    <3>1. \A j \in DOMAIN t : t[j].method = m /\ t[j].path = p => j # i
      BY <2>1
    <3>2. \A j \in DOMAIN t : u[j].method = m /\ u[j].path = p => j # i
      BY <2>1, <1>3
    <3> QED BY <1>2, <1>5, <3>1, <3>2 DEF Answers
  <2> QED BY <2>1 DEF ChangesOnly
<1>8. Answers(u, r.method, r.path) <=> r.live
  <2>1. \A j \in DOMAIN u : u[j].method = r.method /\ u[j].path = r.path => j = i
    BY <1>2, <1>3 DEF Table
  <2>2. r.live \in BOOLEAN
    BY RowShape
  <2> QED BY <1>2, <1>6, <2>1, <2>2 DEF Answers
<1> QED BY <1>4, <1>7, <1>8

(* addPath(): the route answers, and no other one changes.                 *)
LEMMA AddPathTable ==
    ASSUME NEW t, Table(t), NEW call \in Calls, NEW path, path = Rooted(call.path),
           NEW u, u = addPath(t, call.method, path)
    PROVE  /\ ~buildMatchInfo(path).valid => u = t
           /\ Table(u)
           /\ ChangesOnly(t, u, call.method, path)
           /\ buildMatchInfo(path).valid => Answers(u, call.method, path)
<1>1. CASE ~buildMatchInfo(path).valid
  BY <1>1 DEF addPath, ChangesOnly
<1>2. CASE buildMatchInfo(path).valid
  <2>1. PICK there : there = There(t, call.method, path)
    OBVIOUS
  <2>2. PICK r : r = Route(call.method, path, TRUE)
    OBVIOUS
  <2>3. r \in Rows /\ r.method = call.method /\ r.path = path /\ r.live
    <3>1. r \in Rows
      <4>1. call \in {c \in Calls : buildMatchInfo(Rooted(c.path)).valid}
        BY <1>2
      <4>2. \A live \in BOOLEAN : Route(call.method, Rooted(call.path), live) \in Rows
        BY <4>1 DEF Rows
      <4> QED BY <2>2, <4>2
    <3> QED BY <2>2, <3>1 DEF Route
  <2>4. path \in Seq(Text)
    BY RootedIsPath, CallsAreText
  <2>5. CASE there # {}
    <3>1. PICK i : i = Min0(there, 0)
      OBVIOUS
    <3>2. i \in DOMAIN t /\ t[i].method = call.method /\ t[i].path = path
      BY <1>2, <2>1, <2>4, <2>5, <3>1, ThereIs
    <3>3. u = [t EXCEPT ![i] = Route(call.method, t[i].path, TRUE)]
      BY <1>2, <2>1, <2>5, <3>1 DEF addPath, There
    <3>4. u = [t EXCEPT ![i] = r]
      BY <2>2, <3>2, <3>3
    <3>5. /\ Table(u) /\ ChangesOnly(t, u, r.method, r.path)
          /\ Answers(u, r.method, r.path) <=> r.live
      BY <2>3, <3>2, <3>4, RowChanges
    <3> QED BY <1>2, <2>3, <3>5
  <2>6. CASE there = {}
    <3>1. u = Append(t, r)
      BY <1>2, <2>1, <2>2, <2>6 DEF addPath, There
    <3>2. t \in Seq(Rows) /\ DOMAIN t = 1 .. Len(t) /\ Len(t) \in Nat
      BY LenProperties DEF Table
    <3>3. /\ u \in Seq(Rows) /\ Len(u) = Len(t) + 1
          /\ \A i \in 1 .. Len(t) : u[i] = t[i]
          /\ u[Len(t) + 1] = r
      BY <2>3, <3>1, <3>2, AppendProperties
    <3>4. DOMAIN u = 1 .. Len(t) + 1 /\ Len(t) + 1 \in DOMAIN u
      BY <3>2, <3>3, LenProperties
    <3>5. \A i \in DOMAIN t : ~(t[i].method = call.method /\ t[i].path = path)
      <4>1. \A i \in DOMAIN t : i \in there <=> t[i].method = call.method /\ t[i].path = path
        BY <1>2, <2>1, <2>4, ThereIs
      <4> QED BY <2>6, <4>1
    <3>6. \A i \in DOMAIN u : (i \in DOMAIN t /\ u[i] = t[i]) \/ (i = Len(t) + 1 /\ u[i] = r)
      BY <3>2, <3>3, <3>4
    <3>7. \A i \in DOMAIN t : i \in DOMAIN u /\ u[i] = t[i]
      BY <3>2, <3>3, <3>4
    <3>8. Table(u)
      <4>1. ASSUME NEW i \in DOMAIN u, NEW j \in DOMAIN u,
                   u[i].method = u[j].method, u[i].path = u[j].path
            PROVE  i = j
        <5>1. CASE i \in DOMAIN t /\ u[i] = t[i] /\ j \in DOMAIN t /\ u[j] = t[j]
          BY <4>1, <5>1 DEF Table
        <5>2. CASE i = Len(t) + 1 /\ u[i] = r /\ j \in DOMAIN t /\ u[j] = t[j]
          BY <2>3, <3>5, <4>1, <5>2
        <5>3. CASE j = Len(t) + 1 /\ u[j] = r /\ i \in DOMAIN t /\ u[i] = t[i]
          BY <2>3, <3>5, <4>1, <5>3
        <5> QED BY <3>6, <5>1, <5>2, <5>3
      <4> QED BY <3>3, <4>1 DEF Table
    <3>9. Answers(u, call.method, path)
      BY <2>3, <3>3, <3>4 DEF Answers
    <3>10. ChangesOnly(t, u, call.method, path)
      <4>1. ASSUME NEW m, NEW p, m # call.method \/ p # path
            PROVE  Answers(u, m, p) <=> Answers(t, m, p)
        <5>1. ~(r.method = m /\ r.path = p)
          BY <2>3, <4>1
        <5> QED BY <3>6, <3>7, <5>1 DEF Answers
      <4> QED BY <4>1 DEF ChangesOnly
    <3> QED BY <1>2, <3>8, <3>9, <3>10
  <2> QED BY <2>5, <2>6
<1> QED BY <1>1, <1>2

LEMMA RemovedRoute ==
    ASSUME NEW m, NEW p, NEW l, NEW v, v = Route(m, p, l), NEW w, w = Route(m, p, FALSE)
    PROVE  [v EXCEPT !.live = FALSE] = w
<1>1. DOMAIN v = {"method", "path", "live", "sections", "names"}
  BY DEF Route
<1>2. DOMAIN w = {"method", "path", "live", "sections", "names"}
  BY DEF Route
<1>3. \A x \in DOMAIN w : w[x] = IF x = "live" THEN FALSE ELSE v[x]
  <2>1. w["live"] = FALSE
    BY DEF Route
  <2>2. w["method"] = v["method"]
    BY DEF Route
  <2>3. w["path"] = v["path"]
    BY DEF Route
  <2>4. w["sections"] = v["sections"]
    BY DEF Route
  <2>5. w["names"] = v["names"]
    BY DEF Route
  <2> QED BY <1>2, <2>1, <2>2, <2>3, <2>4, <2>5, Zenon
<1>4. w = [x \in DOMAIN w |-> w[x]]
  BY DEF Route
<1>5. [v EXCEPT !.live = FALSE] = [x \in DOMAIN v |-> IF x = "live" THEN FALSE ELSE v[x]]
  BY DEF Route
<1> QED BY <1>1, <1>2, <1>3, <1>4, <1>5

(* remPath(): the route does not answer, and no other one changes; a path  *)
(* without its "/" is in no table.                                         *)
LEMMA RemPathTable ==
    ASSUME NEW t, Table(t), NEW call \in Calls, NEW path, path = call.path,
           NEW u, u = remPath(t, call.method, path)
    PROVE  /\ path # Rooted(path) => u = t
           /\ Table(u)
           /\ ChangesOnly(t, u, call.method, path)
           /\ buildMatchInfo(path).valid => ~Answers(u, call.method, path)
<1>1. CASE ~buildMatchInfo(path).valid
  BY <1>1 DEF remPath, ChangesOnly
<1>2. CASE buildMatchInfo(path).valid
  <2>1. PICK there : there = There(t, call.method, path)
    OBVIOUS
  <2>2. path \in Seq(Text)
    BY CallsAreText
  <2>3. t \in Seq(Rows) /\ \A i \in DOMAIN t : t[i] \in Rows
    BY ElementOfSeq, LenProperties DEF Table
  <2>4. CASE there # {}
    <3>1. PICK i : i = Min0(there, 0)
      OBVIOUS
    <3>2. i \in DOMAIN t /\ t[i].method = call.method /\ t[i].path = path
      BY <1>2, <2>1, <2>2, <2>4, <3>1, ThereIs
    <3>3. u = [t EXCEPT ![i].live = FALSE]
      BY <1>2, <2>1, <2>4, <3>1 DEF remPath, There
    <3>4. PICK r : r = Route(t[i].method, t[i].path, FALSE)
      OBVIOUS
    <3>5. r \in Rows /\ r.method = t[i].method /\ r.path = t[i].path /\ ~r.live
      <4>1. r \in Rows
        BY <2>3, <3>2, <3>4, RowShape
      <4> QED BY <3>4, <4>1 DEF Route
    <3>6. r = [t[i] EXCEPT !.live = FALSE]
      <4>1. t[i] = Route(t[i].method, t[i].path, t[i].live)
        BY <2>3, <3>2, RowShape
      <4> QED BY <3>4, <4>1, RemovedRoute
    <3>7. u = [t EXCEPT ![i] = r]
      BY <3>3, <3>6
    <3>8. path = Rooted(path)
      BY <2>3, <3>2, RowShape
    <3>9. /\ Table(u) /\ ChangesOnly(t, u, r.method, r.path)
          /\ Answers(u, r.method, r.path) <=> r.live
      BY <3>2, <3>5, <3>7, RowChanges
    <3> QED BY <3>2, <3>5, <3>8, <3>9
  <2>5. CASE there = {}
    <3>1. u = t
      BY <1>2, <2>1, <2>5 DEF remPath, There
    <3>2. \A i \in DOMAIN t : ~(t[i].method = call.method /\ t[i].path = path)
      <4>1. \A i \in DOMAIN t : i \in there <=> t[i].method = call.method /\ t[i].path = path
        BY <1>2, <2>1, <2>2, ThereIs
      <4> QED BY <2>5, <4>1
    <3> QED BY <3>1, <3>2 DEF Answers, ChangesOnly
  <2> QED BY <2>4, <2>5
<1> QED BY <1>1, <1>2

-----------------------------------------------------------------------------
(* What has been asked, and the table.                                     *)

Registered(call) == buildMatchInfo(Rooted(call.path)).valid

LastDecides(call) ==
    \E last \in Latest(call) :
        /\ \A j \in Latest(call) : j <= last
        /\ asked[last].op = "add" <=> Answers(routes, call.method, Rooted(call.path))

TableTrue ==
    /\ Table(routes)
    /\ asked \in Seq(Calls)
    /\ \A call \in Calls : Registered(call) /\ Latest(call) # {} => LastDecides(call)

LEMMA TableStarts == Init => TableTrue
<1> SUFFICES ASSUME Init PROVE TableTrue
  OBVIOUS
<1>1. routes = <<>> /\ asked = <<>>
  BY DEF Init
<1>2. Table(routes)
  BY <1>1 DEF Table
<1>3. \A call \in Calls : Latest(call) = {}
  BY <1>1 DEF Latest
<1> QED BY <1>1, <1>2, <1>3 DEF TableTrue

LEMMA AskedOnce ==
    ASSUME TableTrue, NEW call \in Calls, Asks(call)
    PROVE  /\ asked' \in Seq(Calls) /\ Len(asked) \in Nat
           /\ DOMAIN asked = 1 .. Len(asked) /\ DOMAIN asked' = 1 .. Len(asked) + 1
           /\ \A i \in DOMAIN asked : asked'[i] = asked[i]
           /\ asked'[Len(asked) + 1] = call
<1>1. asked \in Seq(Calls) /\ asked' = Append(asked, call)
  BY DEF TableTrue, Asks
<1>2. Len(asked) \in Nat /\ DOMAIN asked = 1 .. Len(asked)
  BY <1>1, LenProperties
<1>3. asked' \in Seq(Calls) /\ Len(asked') = Len(asked) + 1
  BY <1>1, AppendProperties
<1>4. /\ \A i \in 1 .. Len(asked) : asked'[i] = asked[i]
      /\ asked'[Len(asked) + 1] = call
  BY <1>1, AppendProperties
<1> QED BY <1>2, <1>3, <1>4, LenProperties

(* A call that does not count for another one, or not at all.              *)
LEMMA LastKept ==
    ASSUME TableTrue, NEW call \in Calls, Asks(call), NEW c \in Calls, Registered(c),
           Latest(c)' # {},
           Answers(routes, c.method, Rooted(c.path))'
                <=> Answers(routes, c.method, Rooted(c.path)),
           \/ call.method # c.method \/ Rooted(call.path) # Rooted(c.path)
           \/ call.op # "add" /\ call.path # Rooted(call.path)
    PROVE  LastDecides(c)'
<1>1. /\ Len(asked) \in Nat
      /\ DOMAIN asked = 1 .. Len(asked) /\ DOMAIN asked' = 1 .. Len(asked) + 1
      /\ \A i \in DOMAIN asked : asked'[i] = asked[i]
      /\ asked'[Len(asked) + 1] = call
  BY AskedOnce
<1>2. Len(asked) + 1 \notin Latest(c)'
  BY <1>1 DEF Latest
<1>3. Latest(c)' = Latest(c)
  <2>1. \A i \in DOMAIN asked : i \in Latest(c)' <=> i \in Latest(c)
    BY <1>1 DEF Latest
  <2>2. Latest(c) \subseteq DOMAIN asked /\ Latest(c)' \subseteq DOMAIN asked'
    BY DEF Latest
  <2>3. \A i \in DOMAIN asked' : i \in DOMAIN asked \/ i = Len(asked) + 1
    BY <1>1
  <2>4. DOMAIN asked \subseteq DOMAIN asked'
    BY <1>1
  <2> QED BY <1>2, <2>1, <2>2, <2>3, <2>4
<1>4. LastDecides(c)
  BY <1>3 DEF TableTrue
<1>5. PICK last \in Latest(c) :
        /\ \A j \in Latest(c) : j <= last
        /\ asked[last].op = "add" <=> Answers(routes, c.method, Rooted(c.path))
  BY <1>4 DEF LastDecides
<1>6. asked'[last] = asked[last]
  <2>1. last \in DOMAIN asked
    BY DEF Latest
  <2> QED BY <1>1, <2>1
<1>7. /\ last \in Latest(c)' /\ \A j \in Latest(c)' : j <= last
      /\ asked'[last].op = "add" <=> Answers(routes, c.method, Rooted(c.path))'
  BY <1>3, <1>5, <1>6
<1> QED BY <1>7 DEF LastDecides

(* A call that counts is the last one.                                     *)
LEMMA LastIsNew ==
    ASSUME TableTrue, NEW call \in Calls, Asks(call), NEW c \in Calls,
           call.method = c.method, Rooted(call.path) = Rooted(c.path),
           call.op = "add" \/ call.path = Rooted(call.path),
           call.op = "add" <=> Answers(routes, c.method, Rooted(c.path))'
    PROVE  LastDecides(c)'
<1>1. /\ Len(asked) \in Nat
      /\ DOMAIN asked = 1 .. Len(asked) /\ DOMAIN asked' = 1 .. Len(asked) + 1
      /\ \A i \in DOMAIN asked : asked'[i] = asked[i]
      /\ asked'[Len(asked) + 1] = call
  BY AskedOnce
<1>2. PICK last : last = Len(asked) + 1
  OBVIOUS
<1>3. last \in DOMAIN asked'
  BY <1>1, <1>2
<1>4. last \in Latest(c)'
  BY <1>1, <1>2, <1>3 DEF Latest
<1>5. \A j \in Latest(c)' : j <= last
  <2>1. Latest(c)' \subseteq 1 .. Len(asked) + 1
    BY <1>1 DEF Latest
  <2> QED BY <1>1, <1>2, <2>1
<1>6. asked'[last].op = "add" <=> Answers(routes, c.method, Rooted(c.path))'
  BY <1>1, <1>2
<1> QED BY <1>4, <1>5, <1>6 DEF LastDecides

LEMMA AddKeepsTable ==
    ASSUME TableTrue, NEW call \in Calls, AddPath(call)
    PROVE  TableTrue'
<1>1. /\ Asks(call) /\ call.op = "add"
      /\ routes' = addPath(routes, call.method, Rooted(call.path))
  BY DEF AddPath
<1>2. PICK path : path = Rooted(call.path)
  OBVIOUS
<1>3. Table(routes)
  BY DEF TableTrue
<1>4. /\ Table(routes') /\ ChangesOnly(routes, routes', call.method, path)
      /\ buildMatchInfo(path).valid => Answers(routes', call.method, path)
  BY <1>1, <1>2, <1>3, AddPathTable
<1>5. ASSUME NEW c \in Calls, Registered(c), Latest(c)' # {}
      PROVE  LastDecides(c)'
  <2>1. CASE call.method = c.method /\ path = Rooted(c.path)
    <3>1. Answers(routes', c.method, Rooted(c.path))
      BY <1>4, <1>5, <2>1 DEF Registered
    <3>2. Answers(routes, c.method, Rooted(c.path))'
      BY <3>1 DEF Answers
    <3> QED BY <1>1, <1>2, <2>1, <3>2, LastIsNew
  <2>2. CASE call.method # c.method \/ path # Rooted(c.path)
    <3>1. Answers(routes', c.method, Rooted(c.path)) <=> Answers(routes, c.method, Rooted(c.path))
      BY <1>4, <2>2 DEF ChangesOnly
    <3>2. Answers(routes, c.method, Rooted(c.path))' <=> Answers(routes, c.method, Rooted(c.path))
      BY <3>1 DEF Answers
    <3> QED BY <1>1, <1>2, <1>5, <2>2, <3>2, LastKept
  <2> QED BY <2>1, <2>2
<1>6. asked' \in Seq(Calls)
  BY <1>1, AskedOnce
<1>7. Table(routes)'
  BY <1>4 DEF Table
<1> QED BY <1>5, <1>6, <1>7 DEF TableTrue, Registered

LEMMA RemKeepsTable ==
    ASSUME TableTrue, NEW call \in Calls, RemPath(call)
    PROVE  TableTrue'
<1>1. /\ Asks(call) /\ call.op = "remove" /\ call.op # "add"
      /\ routes' = remPath(routes, call.method, call.path)
  BY DEF RemPath
<1>2. PICK path : path = call.path
  OBVIOUS
<1>3. Table(routes)
  BY DEF TableTrue
<1>4. /\ path # Rooted(path) => routes' = routes
      /\ Table(routes') /\ ChangesOnly(routes, routes', call.method, path)
      /\ buildMatchInfo(path).valid => ~Answers(routes', call.method, path)
  BY <1>1, <1>2, <1>3, RemPathTable
<1>5. ASSUME NEW c \in Calls, Registered(c), Latest(c)' # {}
      PROVE  LastDecides(c)'
  <2>1. CASE call.method = c.method /\ path = Rooted(c.path)
    <3>1. path = Rooted(path) /\ Rooted(call.path) = Rooted(c.path)
      BY <1>2, <2>1, RootedIsPath, CallsAreText
    <3>2. ~Answers(routes', c.method, Rooted(c.path))
      BY <1>4, <1>5, <2>1 DEF Registered
    <3>3. ~Answers(routes, c.method, Rooted(c.path))'
      BY <3>2 DEF Answers
    <3> QED BY <1>1, <1>2, <2>1, <3>1, <3>3, LastIsNew
  <2>2. CASE path # Rooted(path)
    <3>1. Answers(routes, c.method, Rooted(c.path))' <=> Answers(routes, c.method, Rooted(c.path))
      BY <1>4, <2>2 DEF Answers
    <3> QED BY <1>1, <1>2, <1>5, <2>2, <3>1, LastKept
  <2>3. CASE path = Rooted(path) /\ (call.method # c.method \/ path # Rooted(c.path))
    <3>1. Answers(routes', c.method, Rooted(c.path)) <=> Answers(routes, c.method, Rooted(c.path))
      BY <1>4, <2>3 DEF ChangesOnly
    <3>2. Answers(routes, c.method, Rooted(c.path))' <=> Answers(routes, c.method, Rooted(c.path))
      BY <3>1 DEF Answers
    <3>3. call.method # c.method \/ Rooted(call.path) # Rooted(c.path)
      BY <1>2, <2>3
    <3> QED BY <1>1, <1>5, <3>2, <3>3, LastKept
  <2> QED BY <2>1, <2>2, <2>3
<1>6. asked' \in Seq(Calls)
  BY <1>1, AskedOnce
<1>7. Table(routes)'
  BY <1>4 DEF Table
<1> QED BY <1>5, <1>6, <1>7 DEF TableTrue, Registered

LEMMA TableKept ==
    ASSUME TableTrue, UNCHANGED <<routes, asked>>
    PROVE  TableTrue'
BY DEF TableTrue, Table, LastDecides, Latest, Answers, Registered

LEMMA TableStays ==
    ASSUME TableTrue, [Next]_vars
    PROVE  TableTrue'
<1>1. ASSUME NEW call \in Calls, AddPath(call) PROVE TableTrue'
  BY <1>1, AddKeepsTable
<1>2. ASSUME NEW call \in Calls, RemPath(call) PROVE TableTrue'
  BY <1>2, RemKeepsTable
<1>3. ASSUME \/ Arrives \/ Begins \/ NextRoute \/ callUserAction
             \/ Acts \/ ActionThrows \/ ActionHandles \/ ActionDeclines \/ NotFound
             \/ Finishes \/ ClientReads \/ UNCHANGED vars
      PROVE  UNCHANGED <<routes, asked>>
  BY <1>3 DEF Arrives, Begins, NextRoute, callUserAction, Acts, ActionThrows,
              ActionHandles, ActionDeclines, NotFound, Finishes, ClientReads,
              vars, handlerVars
<1> QED BY <1>1, <1>2, <1>3, TableKept DEF Next

LEMMA TableIsAsAsked == TableTrue => TableAsAsked
<1> SUFFICES ASSUME TableTrue, NEW call \in Calls, Registered(call), Latest(call) # {},
                    NEW last, last = CHOOSE i \in Latest(call) : \A j \in Latest(call) : j <= i
             PROVE  asked[last].op = "add" <=> Answers(routes, call.method, Rooted(call.path))
  BY DEF TableAsAsked, Answers, Registered
<1>1. PICK i \in Latest(call) :
        /\ \A j \in Latest(call) : j <= i
        /\ asked[i].op = "add" <=> Answers(routes, call.method, Rooted(call.path))
  BY DEF TableTrue, LastDecides
<1>2. last \in Latest(call) /\ \A j \in Latest(call) : j <= last
  BY <1>1
<1>3. Latest(call) \subseteq Nat
  <2>1. asked \in Seq(Calls)
    BY DEF TableTrue
  <2>2. DOMAIN asked \subseteq Nat
    BY <2>1, LenProperties
  <2> QED BY <2>2 DEF Latest
<1>4. last = i
  <2>1. last <= i /\ i <= last /\ last \in Nat /\ i \in Nat
    BY <1>1, <1>2, <1>3
  <2> QED BY <2>1
<1> QED BY <1>1, <1>4

(* What was registered answers until it is removed, and what was removed   *)
(* does not answer before it is registered again (addPath(), remPath(), for *)
(* any calls in any order).                                                *)
THEOREM TableIsRight == Spec => []TableAsAsked
<1>1. Init => TableTrue
  BY TableStarts
<1>2. TableTrue /\ [Next]_vars => TableTrue'
  BY TableStays
<1>3. TableTrue => TableAsAsked
  BY TableIsAsAsked
<1> QED BY <1>1, <1>2, <1>3, PTL DEF Spec

-----------------------------------------------------------------------------
(* The variables of a request.                                             *)

LEMMA NamesStay ==
    ASSUME NamesOfRoute, [Next]_vars
    PROVE  NamesOfRoute'
<1>1. CASE UNCHANGED <<phase, routes, at, variables>>
  BY <1>1 DEF NamesOfRoute
<1>2. CASE phase' # "action"
  BY <1>2 DEF NamesOfRoute
<1>3. CASE callUserAction /\ phase' = "action"
  <2>1. variables' = WithForm /\ UNCHANGED <<routes, at>>
    BY <1>3 DEF callUserAction
  <2>2. ASSUME NEW name \in Range0(routes[at].names)
        PROVE  WithForm[name] \in
                {[from |-> place, route |-> at] : place \in {"path", "form"}}
    <3>1. PICK path, query, header, form :
            /\ path = From(Range0(routes[at].names), "path")
            /\ query = Given("query") /\ header = Given("header") /\ form = Given("form")
      OBVIOUS
    <3>2. name \in DOMAIN path /\ path[name] = [from |-> "path", route |-> at]
      BY <2>2, <3>1 DEF From
    <3>3. \A x \in DOMAIN form : form[x] = [from |-> "form", route |-> at]
      BY <3>1 DEF Given, From
    <3>4. PICK others : WithVariables = Over(path, others)
      BY <3>1 DEF WithVariables
    <3>5. name \in DOMAIN WithVariables /\ WithVariables[name] = path[name]
      <4>1. name \in DOMAIN Over(path, others)
        BY <3>2 DEF Over
      <4>2. Over(path, others)[name] = path[name]
        BY <3>2 DEF Over
      <4> QED BY <3>4, <4>1, <4>2
    <3>6. \/ WithForm[name] = path[name]
          \/ name \in DOMAIN form /\ WithForm[name] = form[name]
      <4>1. CASE ~formUnread
        BY <3>5, <4>1 DEF WithForm
      <4>2. CASE formUnread
        <5>1. WithForm = Over(form, WithVariables)
          BY <3>1, <4>2 DEF WithForm
        <5>2. name \in DOMAIN form => WithForm[name] = form[name]
          BY <5>1 DEF Over
        <5>3. name \notin DOMAIN form => WithForm[name] = WithVariables[name]
          <6>1. PICK o : o = WithVariables
            OBVIOUS
          <6>2. name \notin DOMAIN form => Over(form, o)[name] = o[name]
            BY <3>5, <6>1 DEF Over
          <6> QED BY <5>1, <6>1, <6>2
        <5> QED BY <3>5, <5>2, <5>3
      <4> QED BY <4>1, <4>2
    <3> QED BY <3>2, <3>3, <3>6
  <2>3. ASSUME NEW name \in Range0(routes'[at'].names)
        PROVE  variables'[name] \in
                {[from |-> place, route |-> at'] : place \in {"path", "form"}}
    BY <2>1, <2>2
  <2> QED BY <2>3 DEF NamesOfRoute, Range0
<1>4. ASSUME NEW call \in Calls, AddPath(call) \/ RemPath(call)
      PROVE  phase' # "action"
  BY <1>4 DEF AddPath, RemPath, Asks
<1>5. ASSUME Arrives \/ Begins \/ NextRoute \/ ActionThrows \/ ActionHandles
                \/ ActionDeclines \/ NotFound \/ Finishes \/ ClientReads
      PROVE  phase' # "action"
  BY <1>5 DEF Arrives, Begins, NextRoute, ActionThrows, ActionHandles,
              ActionDeclines, NotFound, Finishes, ClientReads, handlerVars
<1>6. ASSUME Acts \/ UNCHANGED vars
      PROVE  UNCHANGED <<phase, routes, at, variables>>
  BY <1>6 DEF Acts, vars, handlerVars
<1> QED BY <1>1, <1>2, <1>3, <1>4, <1>5, <1>6 DEF Next

(* An action reads under the names of its own route what is in the path of *)
(* the request or in its form, whatever the routes that declined before it, *)
(* the query and the headers have left there (addQueryParam(),             *)
(* addHeaders(), addPathMatch(), addFormVariables()).                      *)
THEOREM NamesAreOfTheRoute == Spec => []NamesOfRoute
<1>1. Init => NamesOfRoute
  BY DEF Init, NamesOfRoute
<1>2. NamesOfRoute /\ [Next]_vars => NamesOfRoute'
  BY NamesStay
<1> QED BY <1>1, <1>2, PTL DEF Spec

-----------------------------------------------------------------------------
(* The search for a route.                                                 *)

FitsAt(i) == checkPathMatch(routes[i], target.method, target.path)

\* what has been passed was removed, does not fit, or has declined
PassedRightly ==
    \A i \in 1 .. at - 1 : routes[i].live /\ i \notin declined => ~FitsAt(i)

OffersInOrder ==
    /\ phase = "action" => at <= Len(routes) /\ routes[at].live /\ FitsAt(at)
    /\ phase \in {"searching", "action"} => at <= Len(routes) + 1 /\ PassedRightly

SearchTrue ==
    /\ at \in Nat /\ at >= 1
    /\ requests # <<>> \/ phase # "idle" => target \in Targets
    /\ OffersInOrder
    /\ Table(routes)

LEMMA SearchStarts == Init => SearchTrue
BY DEF Init, InitServer, SearchTrue, OffersInOrder, Table

\* steps of the response leave the requests alone
LEMMA ResponseKeepsRequests ==
    ASSUME \/ \E code : setStatus(code) \/ setStatusLate(code)
           \/ \E name : addHeader(name)
           \/ \E encoding : body(encoding)
           \/ \E meant : Throws(meant)
           \/ addHeaderLate \/ Returns
    PROVE  requests' = requests
BY DEF setStatus, setStatusLate, addHeader, body, Throws, addHeaderLate, Returns, Handling

LEMMA SearchStays ==
    ASSUME SearchTrue, TableTrue, [Next]_vars
    PROVE  SearchTrue'
<1>1. /\ at \in Nat /\ at >= 1
      /\ requests # <<>> \/ phase # "idle" => target \in Targets
      /\ OffersInOrder
      /\ Len(routes) \in Nat
  BY LenProperties DEF SearchTrue, Table
<1>2. Table(routes)'
  BY TableStays DEF TableTrue
<1>3. CASE UNCHANGED <<at, phase, target, routes, declined>> /\ requests' = requests
  BY <1>1, <1>2, <1>3 DEF SearchTrue, OffersInOrder, PassedRightly, FitsAt
<1>4. ASSUME NEW call \in Calls, AddPath(call) \/ RemPath(call) PROVE SearchTrue'
  <2>1. phase' = "idle" /\ requests' = <<>> /\ at' = at
    BY <1>4 DEF AddPath, RemPath, Asks, serverVars
  <2> QED BY <1>1, <1>2, <2>1 DEF SearchTrue, OffersInOrder
<1>5. CASE Arrives
  BY <1>1, <1>2, <1>5 DEF Arrives, SearchTrue, OffersInOrder
<1>6. CASE Begins
  <2>1. /\ phase' = "searching" /\ at' = 1 /\ UNCHANGED <<routes, target>>
        /\ requests # <<>>
    BY <1>6 DEF Begins, handleRequest, Reads
  <2>2. target' \in Targets
    BY <1>1, <2>1
  <2>3. OffersInOrder'
    <3>1. PassedRightly'
      BY <2>1 DEF PassedRightly
    <3> QED BY <1>1, <2>1, <3>1 DEF OffersInOrder
  <2> QED BY <1>2, <2>1, <2>2, <2>3 DEF SearchTrue
<1>7. CASE phase = "searching" /\ (NextRoute \/ callUserAction \/ NotFound)
  <2>1. target \in Targets /\ at <= Len(routes) + 1 /\ PassedRightly
    BY <1>1, <1>7 DEF OffersInOrder
  <2>2. CASE NextRoute
    <3>1. /\ phase' = phase /\ at' = at + 1 /\ at <= Len(routes)
          /\ ~FitsAt(at) \/ ~routes[at].live
          /\ UNCHANGED <<routes, target, declined>>
      BY <2>2 DEF NextRoute, Fits, FitsAt
    <3>2. PassedRightly'
      <4>1. \A i \in 1 .. at' - 1 : i \in 1 .. at - 1 \/ i = at
        BY <1>1, <3>1
      <4> QED BY <2>1, <3>1, <4>1 DEF PassedRightly, FitsAt
    <3> QED BY <1>1, <1>2, <1>7, <2>1, <3>1, <3>2 DEF SearchTrue, OffersInOrder
  <2>3. CASE callUserAction
    <3>1. /\ at <= Len(routes) /\ FitsAt(at) /\ routes[at].live
          /\ phase' \in {"done", "action"}
          /\ UNCHANGED <<routes, target, at, declined>>
      BY <2>3 DEF callUserAction, Fits, FitsAt
    <3>2. PassedRightly' /\ FitsAt(at)'
      BY <2>1, <3>1 DEF PassedRightly, FitsAt
    <3>3. OffersInOrder'
      BY <1>1, <2>1, <3>1, <3>2 DEF OffersInOrder, FitsAt
    <3> QED BY <1>1, <1>2, <2>1, <3>1, <3>3 DEF SearchTrue
  <2>4. CASE NotFound
    BY <1>1, <1>2, <2>1, <2>4 DEF NotFound, SearchTrue, OffersInOrder
  <2> QED BY <1>7, <2>2, <2>3, <2>4
<1>8. CASE Acts
  BY <1>3, <1>8, ResponseKeepsRequests DEF Acts, handlerVars
<1>9. CASE ActionThrows \/ ActionHandles
  BY <1>1, <1>2, <1>9 DEF ActionThrows, ActionHandles, SearchTrue, OffersInOrder
<1>10. CASE ActionDeclines
  <2>1. /\ phase = "action" /\ phase' = "searching" /\ at' = at + 1
        /\ declined' = declined \union {at} /\ UNCHANGED <<routes, target>>
    BY <1>10 DEF ActionDeclines
  <2>2. target \in Targets /\ at <= Len(routes) /\ PassedRightly
    BY <1>1, <2>1 DEF OffersInOrder
  <2>3. PassedRightly'
    <3>1. \A i \in 1 .. at' - 1 : i \in 1 .. at - 1 \/ i = at
      BY <1>1, <2>1
    <3> QED BY <2>1, <2>2, <3>1 DEF PassedRightly, FitsAt
  <2> QED BY <1>1, <1>2, <2>1, <2>2, <2>3 DEF SearchTrue, OffersInOrder
<1>11. CASE Finishes
  <2>1. phase = "done" /\ phase' = "idle" /\ UNCHANGED <<at, target>>
    BY <1>11 DEF Finishes
  <2> QED BY <1>1, <1>2, <2>1 DEF SearchTrue, OffersInOrder
<1>12. CASE ClientReads \/ UNCHANGED vars
  BY <1>3, <1>12 DEF ClientReads, vars, handlerVars, serverVars
<1>13. NextRoute \/ callUserAction \/ NotFound => phase = "searching"
  BY DEF NextRoute, callUserAction, NotFound
<1> QED BY <1>4, <1>5, <1>6, <1>7, <1>8, <1>9, <1>10, <1>11, <1>12, <1>13 DEF Next

(* A request is offered to the routes in their order: the action that runs *)
(* is that of a route that is in the table, has not been removed and fits; *)
(* of those before it, and of all when the table's end is passed, each was *)
(* removed, does not fit or has declined (findMatch(), checkPathMatch()).  *)
THEOREM SearchIsInOrder == Spec => []OffersInOrder
<1>1. Init => SearchTrue /\ TableTrue
  BY SearchStarts, TableStarts
<1>2. SearchTrue /\ TableTrue /\ [Next]_vars => (SearchTrue /\ TableTrue)'
  BY SearchStays, TableStays
<1>3. SearchTrue => OffersInOrder
  BY DEF SearchTrue
<1> QED BY <1>1, <1>2, <1>3, PTL DEF Spec

-----------------------------------------------------------------------------
(* Sequences in parts.                                                     *)

LEMMA Downward ==
    ASSUME NEW N \in Nat, NEW Q,
           \A i \in 0 .. N : (\A j \in 0 .. N : i < j => j \in Q) => i \in Q
    PROVE  0 .. N \subseteq Q
<1> DEFINE P == {n \in Nat : \A i \in 0 .. N : N - i <= n => i \in Q}
<1>1. 0 \in P
  <2>1. ASSUME NEW i \in 0 .. N, N - i <= 0 PROVE i \in Q
    <3>1. \A j \in 0 .. N : ~(i < j)
      BY <2>1
    <3> QED BY <3>1
  <2> QED BY <2>1
<1>2. ASSUME NEW n \in Nat, n \in P PROVE n + 1 \in P
  <2>1. ASSUME NEW i \in 0 .. N, N - i <= n + 1 PROVE i \in Q
    <3>1. ASSUME NEW j \in 0 .. N, i < j PROVE j \in Q
      <4>1. N - j <= n
        BY <2>1, <3>1
      <4> QED BY <1>2, <4>1
    <3> QED BY <3>1
  <2> QED BY <2>1
<1>3. Nat \subseteq P
  <2> HIDE DEF P
  <2> QED BY <1>1, <1>2, Induction
<1>4. N \in P
  BY <1>3
<1>5. ASSUME NEW i \in 0 .. N PROVE i \in Q
  <2>1. N - i <= N
    OBVIOUS
  <2> QED BY <1>4, <2>1
<1> QED BY <1>5

LEMMA SplitUnique ==
    ASSUME NEW S, NEW a \in Seq(S), NEW b \in Seq(S), NEW c \in Seq(S), NEW d \in Seq(S),
           Len(a) = Len(c), a \o b = c \o d
    PROVE  a = c /\ b = d
<1>1. Len(a) \in Nat /\ Len(b) \in Nat /\ Len(d) \in Nat
  BY LenProperties
<1>2. PICK ab, cd : ab = a \o b /\ cd = c \o d
  OBVIOUS
<1>3. /\ Len(ab) = Len(a) + Len(b)
      /\ \A i \in 1 .. Len(a) + Len(b) : ab[i] = IF i <= Len(a) THEN a[i] ELSE b[i - Len(a)]
  BY <1>2, ConcatProperties
<1>4. /\ Len(cd) = Len(c) + Len(d)
      /\ \A i \in 1 .. Len(c) + Len(d) : cd[i] = IF i <= Len(c) THEN c[i] ELSE d[i - Len(c)]
  BY <1>2, ConcatProperties
<1>5. ab = cd /\ Len(b) = Len(d)
  BY <1>1, <1>2, <1>3, <1>4
<1>6. a = c
  <2>1. ASSUME NEW i \in 1 .. Len(a) PROVE a[i] = c[i]
    <3>1. i \in 1 .. Len(a) + Len(b) /\ i \in 1 .. Len(c) + Len(d) /\ i <= Len(a) /\ i <= Len(c)
      BY <1>1
    <3> QED BY <1>3, <1>4, <1>5, <3>1
  <2> QED BY <2>1, SeqEqual
<1>7. b = d
  <2>1. ASSUME NEW i \in 1 .. Len(b) PROVE b[i] = d[i]
    <3>1. PICK j : j = i + Len(a)
      OBVIOUS
    <3>2. /\ j \in 1 .. Len(a) + Len(b) /\ j \in 1 .. Len(c) + Len(d)
          /\ ~(j <= Len(a)) /\ ~(j <= Len(c)) /\ j - Len(a) = i /\ j - Len(c) = i
      BY <1>1, <1>5, <3>1
    <3>3. ab[j] = b[i]
      BY <1>3, <3>2
    <3>4. cd[j] = d[i]
      BY <1>4, <3>2
    <3> QED BY <1>5, <3>3, <3>4
  <2> QED BY <1>5, <2>1, SeqEqual
<1> QED BY <1>6, <1>7

LEMMA RestSeq ==
    ASSUME NEW S, NEW s \in Seq(S), NEW q \in 0 .. Len(s)
    PROVE  Rest(s, q) \in Seq(S) /\ Len(Rest(s, q)) = Len(s) - q
<1>1. Len(s) \in Nat
  BY LenProperties
<1>2. \A i \in q + 1 .. Len(s) : s[i] \in S
  BY <1>1, ElementOfSeq
<1>3. q + 1 \in Int /\ Len(s) \in Int
  BY <1>1
<1>4. /\ SubSeq(s, q + 1, Len(s)) \in Seq(S)
      /\ Len(SubSeq(s, q + 1, Len(s))) =
            IF q + 1 <= Len(s) THEN Len(s) - (q + 1) + 1 ELSE 0
  BY <1>2, <1>3, SubSeqProperties
<1>5. (IF q + 1 <= Len(s) THEN Len(s) - (q + 1) + 1 ELSE 0) = Len(s) - q
  BY <1>1
<1> QED BY <1>4, <1>5 DEF Rest

Splits(s, q, a, x) == Rest(s, q) = a \o Rest(s, q + x)

LEMMA SplitRest ==
    ASSUME NEW S, NEW s \in Seq(S), NEW q \in 0 .. Len(s), NEW x \in 0 .. Len(s) - q,
           NEW a, a = SubSeq(s, q + 1, q + x)
    PROVE  /\ a \in Seq(S) /\ Len(a) = x /\ a \in Parts(s)
           /\ q + x \in 0 .. Len(s)
           /\ Splits(s, q, a, x)
<1>1. Len(s) \in Nat /\ q \in Nat /\ x \in Nat /\ q + x <= Len(s)
  <2>1. Len(s) \in Nat
    BY LenProperties
  <2> QED BY <2>1
<1>2. \A i \in q + 1 .. q + x : s[i] \in S
  BY <1>1, ElementOfSeq
<1>3. q + 1 \in Int /\ q + x \in Int
  BY <1>1
<1>4. a \in Seq(S) /\ Len(a) = IF q + 1 <= q + x THEN (q + x) - (q + 1) + 1 ELSE 0
  BY <1>2, <1>3, SubSeqProperties
<1>5. Len(a) = x
  BY <1>1, <1>4
<1>6. a \in Parts(s)
  <2>1. q + 1 \in 1 .. Len(s) + 1 /\ q + x \in 0 .. Len(s)
    BY <1>1
  <2>2. \A i \in 1 .. Len(s) + 1, j \in 0 .. Len(s) : SubSeq(s, i, j) \in Parts(s)
    BY DEF Parts
  <2> QED BY <2>1, <2>2
<1>7. a \o SubSeq(s, (q + x) + 1, Len(s)) = SubSeq(s, q + 1, Len(s))
  <2>1. /\ q + 1 \in 1 .. Len(s) + 1 /\ q + x \in (q + 1) - 1 .. Len(s)
        /\ Len(s) \in q + x .. Len(s)
    BY <1>1
  <2> QED BY <2>1, ConcatAdjacentSubSeq
<1>8. q + x \in 0 .. Len(s)
  BY <1>1
<1>9. Splits(s, q, a, x)
  BY <1>7 DEF Splits, Rest
<1> QED BY <1>4, <1>5, <1>6, <1>8, <1>9

Skips(s, q, a, b) ==
    /\ q + Len(a) \in 0 .. Len(s) /\ Rest(s, q + Len(a)) = b
    /\ a = SubSeq(s, q + 1, q + Len(a))

LEMMA SkipRest ==
    ASSUME NEW S, NEW s \in Seq(S), NEW q \in 0 .. Len(s),
           NEW a \in Seq(S), NEW b \in Seq(S), Rest(s, q) = a \o b
    PROVE  Skips(s, q, a, b)
<1>1. Len(s) \in Nat /\ Len(a) \in Nat /\ Len(b) \in Nat
  BY LenProperties
<1>2. Len(s) - q = Len(a) + Len(b)
  <2>1. Len(Rest(s, q)) = Len(s) - q
    BY RestSeq
  <2>2. Len(a \o b) = Len(a) + Len(b)
    BY ConcatProperties
  <2> QED BY <2>1, <2>2
<1>3. Len(a) \in 0 .. Len(s) - q
  BY <1>1, <1>2
<1>4. PICK c, d : c = SubSeq(s, q + 1, q + Len(a)) /\ d = Rest(s, q + Len(a))
  OBVIOUS
<1>5. /\ c \in Seq(S) /\ Len(c) = Len(a) /\ q + Len(a) \in 0 .. Len(s)
      /\ Rest(s, q) = c \o d
  <2>1. PICK x \in 0 .. Len(s) - q : x = Len(a)
    BY <1>3
  <2>2. c = SubSeq(s, q + 1, q + x) /\ d = Rest(s, q + x)
    BY <1>4, <2>1
  <2>3. c \in Seq(S) /\ Len(c) = x /\ q + x \in 0 .. Len(s)
    BY <2>2, SplitRest
  <2>4. Splits(s, q, c, x)
    BY <2>2, SplitRest
  <2> QED BY <2>1, <2>2, <2>3, <2>4 DEF Splits
<1>6. d \in Seq(S)
  BY <1>4, <1>5, RestSeq
<1>7. c = a /\ d = b
  BY <1>5, <1>6, SplitUnique
<1> QED BY <1>4, <1>5, <1>7 DEF Skips

-----------------------------------------------------------------------------
(* The search for sections.                                                *)

At(s, rest) == IF s = <<>> THEN Len(rest) ELSE Min0(Places(s, rest), 0)
Found(s, rest) == ~(s # <<>> /\ Places(s, rest) = {})
Reached(s, text, p) == p + At(s, Rest(text, p)) + Len(s)

\* where a section is, and what is before and behind it
InPlace(S, rest, a, s, r) ==
    a \in Seq(S) /\ r \in Seq(S) /\ rest = a \o (s \o r)

LEMMA PlaceIs ==
    ASSUME NEW S, NEW s \in Seq(S), NEW rest \in Seq(S), NEW x
    PROVE  x \in Places(s, rest) <=>
                /\ x \in 0 .. Len(rest) - Len(s)
                /\ SubSeq(rest, x + 1, x + Len(s)) = s
<1>1. Len(s) \in Nat /\ Len(rest) \in Nat
  BY LenProperties
<1>2. x \in 0 .. Len(rest) - Len(s) => x + Len(s) <= Len(rest)
  BY <1>1
<1> QED BY <1>2 DEF Places, Occurs

LEMMA SearchFinds ==
    ASSUME NEW S, NEW s \in Seq(S), NEW rest \in Seq(S), Found(s, rest)
    PROVE  \E a, r : InPlace(S, rest, a, s, r) /\ Len(a) = At(s, rest)
<1>1. Len(s) \in Nat /\ Len(rest) \in Nat
  BY LenProperties
<1>2. CASE s = <<>>
  <2>1. PICK r : r = <<>>
    OBVIOUS
  <2>2. r \in Seq(S) /\ s \o r = <<>> /\ rest \o <<>> = rest
    BY <1>2, <2>1, ConcatEmptySeq, EmptySeq
  <2>3. InPlace(S, rest, rest, s, r)
    BY <2>2 DEF InPlace
  <2> QED BY <1>2, <2>3 DEF At
<1>3. CASE s # <<>>
  <2>1. PICK x : x = At(s, rest)
    OBVIOUS
  <2>2. x \in Places(s, rest)
    <3>1. Places(s, rest) # {}
      BY <1>3 DEF Found
    <3>2. Places(s, rest) \in SUBSET Nat
      BY <1>1, PlaceIs
    <3> QED BY <1>3, <2>1, <3>1, <3>2, Min0Least DEF At
  <2>3. x \in 0 .. Len(rest) - Len(s) /\ SubSeq(rest, x + 1, x + Len(s)) = s
    BY <2>2, PlaceIs
  <2>4. x \in Nat /\ x \in 0 .. Len(rest) - 0 /\ Len(s) \in 0 .. Len(rest) - x
        /\ 0 \in 0 .. Len(rest)
    BY <1>1, <2>3
  <2>5. PICK a, r : a = SubSeq(rest, 0 + 1, 0 + x) /\ r = Rest(rest, x + Len(s))
    OBVIOUS
  <2>6. a \in Seq(S) /\ Len(a) = x /\ 0 + x \in 0 .. Len(rest) /\ Splits(rest, 0, a, x)
    <3>1. PICK zero \in 0 .. Len(rest) : zero = 0
      BY <2>4
    <3>2. x \in 0 .. Len(rest) - zero /\ a = SubSeq(rest, zero + 1, zero + x)
      BY <2>4, <2>5, <3>1
    <3>3. PICK y \in 0 .. Len(rest) - zero : y = x
      BY <3>2
    <3>4. a = SubSeq(rest, zero + 1, zero + y)
      BY <3>2, <3>3
    <3>5. a \in Seq(S) /\ Len(a) = y
      BY <3>4, SplitRest
    <3>6. zero + y \in 0 .. Len(rest)
      BY <3>4, SplitRest
    <3>7. Splits(rest, zero, a, y)
      BY <3>4, SplitRest
    <3> QED BY <3>1, <3>3, <3>5, <3>6, <3>7
  <2>7. x \in 0 .. Len(rest) /\ 0 + x = x
    BY <2>4, <2>6
  <2>8. x + Len(s) \in 0 .. Len(rest) /\ Splits(rest, x, s, Len(s))
    BY <2>3, <2>4, <2>7, SplitRest
  <2>9. Rest(rest, 0) = rest
    BY SubSeqFull DEF Rest
  <2>10. r \in Seq(S)
    BY <2>5, <2>8, RestSeq
  <2>11. rest = a \o (s \o r)
    BY <2>5, <2>6, <2>7, <2>8, <2>9 DEF Splits
  <2>12. InPlace(S, rest, a, s, r)
    BY <2>6, <2>10, <2>11 DEF InPlace
  <2> QED BY <2>1, <2>6, <2>12
<1> QED BY <1>2, <1>3

LEMMA SearchFirst ==
    ASSUME NEW S, NEW s \in Seq(S), s # <<>>, NEW rest \in Seq(S), NEW a, NEW r,
           InPlace(S, rest, a, s, r), \A i \in DOMAIN a : a[i] # s[1]
    PROVE  Found(s, rest) /\ At(s, rest) = Len(a)
<1>1. a \in Seq(S) /\ r \in Seq(S) /\ rest = a \o (s \o r)
  BY DEF InPlace
<1>2. /\ Len(s) \in Nat /\ Len(rest) \in Nat /\ Len(a) \in Nat /\ Len(r) \in Nat
      /\ DOMAIN a = 1 .. Len(a) /\ 0 \in 0 .. Len(rest)
  BY <1>1, LenProperties
<1>3. Rest(rest, 0) = rest
  BY SubSeqFull DEF Rest
<1>4. PICK sr : sr = s \o r
  OBVIOUS
<1>5. sr \in Seq(S) /\ rest = a \o sr /\ Len(sr) = Len(s) + Len(r)
  BY <1>1, <1>4, ConcatProperties
<1>6. Skips(rest, 0, a, sr)
  <2>1. PICK zero \in 0 .. Len(rest) : zero = 0
    BY <1>2
  <2>2. Rest(rest, zero) = a \o sr
    BY <1>3, <1>5, <2>1
  <2>3. a \in Seq(S) /\ sr \in Seq(S)
    BY <1>1, <1>5
  <2>4. Skips(rest, zero, a, sr)
    BY <2>2, <2>3, SkipRest
  <2> QED BY <2>1, <2>4
<1>7. Len(a) \in 0 .. Len(rest) /\ Rest(rest, Len(a)) = s \o r
  <2>1. 0 + Len(a) = Len(a)
    BY <1>2
  <2> QED BY <1>4, <1>6, <2>1 DEF Skips
<1>8. /\ Len(a) + Len(s) \in 0 .. Len(rest)
      /\ s = SubSeq(rest, Len(a) + 1, Len(a) + Len(s))
  <2>1. Skips(rest, Len(a), s, r)
    BY <1>1, <1>7, SkipRest
  <2> QED BY <2>1 DEF Skips
<1>9. Len(a) \in Places(s, rest)
  <2>1. Len(a) \in 0 .. Len(rest) - Len(s)
    BY <1>2, <1>8
  <2> QED BY <1>8, <2>1, PlaceIs
<1>10. Len(s) > 0
  BY <1>2, EmptySeq
<1>11. ASSUME NEW x \in Places(s, rest) PROVE Len(a) <= x
  <2>1. x \in 0 .. Len(rest) - Len(s) /\ SubSeq(rest, x + 1, x + Len(s)) = s
    BY <1>11, PlaceIs
  <2>2. x \in Nat /\ x + Len(s) <= Len(rest)
    BY <1>2, <2>1
  <2>3. SUFFICES ASSUME x < Len(a) PROVE FALSE
    BY <1>2, <2>2
  <2>4. s[1] = rest[x + 1]
    <3>1. \A i \in x + 1 .. x + Len(s) : rest[i] \in S
      BY <1>2, <2>2, ElementOfSeq
    <3>2. x + 1 \in Int /\ x + Len(s) \in Int
      BY <1>2, <2>2
    <3>3. \A i \in 1 .. (x + Len(s)) - (x + 1) + 1 :
            SubSeq(rest, x + 1, x + Len(s))[i] = rest[(x + 1) + i - 1]
      BY <3>1, <3>2, SubSeqProperties
    <3>4. 1 \in 1 .. (x + Len(s)) - (x + 1) + 1 /\ (x + 1) + 1 - 1 = x + 1
      BY <1>2, <1>10, <2>2
    <3> QED BY <2>1, <3>3, <3>4
  <2>5. rest[x + 1] = a[x + 1] /\ x + 1 \in DOMAIN a
    <3>1. \A i \in 1 .. Len(a) + Len(sr) : rest[i] = IF i <= Len(a) THEN a[i] ELSE sr[i - Len(a)]
      BY <1>1, <1>5, ConcatProperties
    <3>2. x + 1 \in 1 .. Len(a) + Len(sr) /\ x + 1 <= Len(a) /\ x + 1 \in 1 .. Len(a)
      BY <1>2, <1>5, <2>2, <2>3
    <3> QED BY <1>2, <3>1, <3>2
  <2> QED BY <2>4, <2>5
<1>12. Places(s, rest) \in SUBSET Nat
  BY <1>2, PlaceIs
<1>13. PICK m : m = Min0(Places(s, rest), 0)
  OBVIOUS
<1>14. m \in Places(s, rest) /\ m <= Len(a)
  BY <1>9, <1>12, <1>13, Min0Least
<1>15. m = Len(a)
  BY <1>2, <1>11, <1>12, <1>14
<1> QED BY <1>9, <1>13, <1>15 DEF Found, At

-----------------------------------------------------------------------------
(* Sections(): its recursion.                                              *)

\* the loop at a section and a position, when the next one gives "others"
MatchTurn(sections, text, k, p, others) ==
    IF sections[k] # <<>> /\ Places(sections[k], Rest(text, p)) = {} THEN FALSE
    ELSE IF k = Len(sections) THEN Reached(sections[k], text, p) = Len(text)
    ELSE others[Reached(sections[k], text, p)]

IsMatch(sections, text, from, h) ==
    h = [k \in from .. Len(sections) |-> [p \in 0 .. Len(text) |->
            MatchTurn(sections, text, k, p, h[k + 1])]]

LEMMA MatchExists ==
    ASSUME NEW sections, Len(sections) \in Nat, NEW text
    PROVE  \E h : IsMatch(sections, text, 1, h)
<1> DEFINE K == Len(sections)
    P == {n \in Nat : n <= K => \E h : IsMatch(sections, text, K + 1 - n, h)}
<1>1. 0 \in P
  <2>1. PICK h : h = [k \in K + 1 .. K |-> k]
    OBVIOUS
  <2>2. \A k : k \notin K + 1 .. K
    OBVIOUS
  <2>3. h = [k \in K + 1 .. K |-> [p \in 0 .. Len(text) |->
                MatchTurn(sections, text, k, p, h[k + 1])]]
    BY <2>1, <2>2
  <2>4. IsMatch(sections, text, K + 1, h)
    BY <2>3 DEF IsMatch
  <2>5. K + 1 - 0 = K + 1
    OBVIOUS
  <2> QED BY <2>4, <2>5
<1>2. ASSUME NEW n \in Nat, n \in P PROVE n + 1 \in P
  <2>1. SUFFICES ASSUME n + 1 <= K
                 PROVE  \E h : IsMatch(sections, text, K + 1 - (n + 1), h)
    OBVIOUS
  <2>2. PICK from : from = K + 1 - n
    OBVIOUS
  <2>3. from \in Nat /\ from - 1 \in Nat /\ from - 1 = K + 1 - (n + 1) /\ from - 1 <= K
    BY <2>1, <2>2
  <2>4. PICK h : IsMatch(sections, text, from, h)
    BY <1>2, <2>1, <2>2
  <2>5. PICK g : g = [k \in from - 1 .. K |->
                        IF k = from - 1
                        THEN [p \in 0 .. Len(text) |->
                                MatchTurn(sections, text, k, p, h[k + 1])]
                        ELSE h[k]]
    OBVIOUS
  <2>6. \A k \in from .. K : g[k] = h[k]
    BY <2>3, <2>5
  <2>7. ASSUME NEW k \in from - 1 .. K
        PROVE  g[k] = [p \in 0 .. Len(text) |->
                        MatchTurn(sections, text, k, p, g[k + 1])]
    <3>1. ASSUME NEW p
          PROVE  MatchTurn(sections, text, k, p, h[k + 1])
                    = MatchTurn(sections, text, k, p, g[k + 1])
      <4>1. CASE k = Len(sections)
        BY <4>1 DEF MatchTurn
      <4>2. CASE k # Len(sections)
        <5>1. k + 1 \in from .. K
          BY <2>3, <4>2
        <5> QED BY <2>6, <5>1
      <4> QED BY <4>1, <4>2
    <3>2. g[k] = [p \in 0 .. Len(text) |->
                    MatchTurn(sections, text, k, p, h[k + 1])]
      <4>1. CASE k = from - 1
        BY <2>5, <4>1
      <4>2. CASE k # from - 1
        <5>1. k \in from .. K
          BY <2>3, <4>2
        <5> QED BY <2>4, <2>6, <5>1 DEF IsMatch
      <4> QED BY <4>1, <4>2
    <3> QED BY <3>1, <3>2
  <2>8. IsMatch(sections, text, from - 1, g)
    <3>1. g = [k \in from - 1 .. K |-> g[k]]
      BY <2>5
    <3> QED BY <2>7, <3>1 DEF IsMatch
  <2> QED BY <2>3, <2>8
<1>3. Nat \subseteq P
  <2> HIDE DEF P
  <2> QED BY <1>1, <1>2, Induction
<1>4. K \in P
  BY <1>3
<1>5. K + 1 - K = 1
  OBVIOUS
<1> QED BY <1>4, <1>5

LEMMA SectionsIsMatch ==
    ASSUME NEW sections, Len(sections) \in Nat, NEW text
    PROVE  \E h : /\ IsMatch(sections, text, 1, h)
                  /\ Sections(sections, text) <=>
                        /\ Occurs(sections[1], text, 0)
                        /\ IF Len(sections) = 1 THEN text = sections[1]
                           ELSE h[2][Len(sections[1])]
<1>1. PICK h : h = CHOOSE g : IsMatch(sections, text, 1, g)
  OBVIOUS
<1>2. IsMatch(sections, text, 1, h)
  BY <1>1, MatchExists
<1>3. Sections(sections, text) <=>
        /\ Occurs(sections[1], text, 0)
        /\ IF Len(sections) = 1 THEN text = sections[1]
           ELSE h[2][Len(sections[1])]
  BY <1>1 DEF Sections, IsMatch, MatchTurn, Reached, At, Rest
<1> QED BY <1>2, <1>3

\* at a section and a position: what is found and what comes next
Continues(sections, text, h, k, p, s, next) ==
    /\ ~Found(s, Rest(text, p)) => h[k][p] = FALSE
    /\ Found(s, Rest(text, p)) /\ k = Len(sections) => h[k][p] = (next = Len(text))
    /\ Found(s, Rest(text, p)) /\ k # Len(sections) => h[k][p] = h[k + 1][next]

LEMMA MatchStep ==
    ASSUME NEW sections, Len(sections) \in Nat, NEW text, NEW h,
           IsMatch(sections, text, 1, h),
           NEW k \in 1 .. Len(sections), NEW p \in 0 .. Len(text),
           NEW s, s = sections[k], NEW next, next = Reached(s, text, p)
    PROVE  Continues(sections, text, h, k, p, s, next)
<1>1. h[k] = [q \in 0 .. Len(text) |-> MatchTurn(sections, text, k, q, h[k + 1])]
  BY DEF IsMatch
<1>2. h[k][p] = MatchTurn(sections, text, k, p, h[k + 1])
  BY <1>1
<1> QED BY <1>2 DEF MatchTurn, Found, Continues

-----------------------------------------------------------------------------
(* What is between the sections.                                           *)

\* a section is found, behind what is skipped, and before the next position
Steps(S, text, q, s, a, next) ==
    /\ a \in Seq(S) /\ a \in Parts(text) /\ next \in 0 .. Len(text)
    /\ Rest(text, q) = a \o (s \o Rest(text, next))

LEMMA SearchReads ==
    ASSUME NEW S, NEW text \in Seq(S), NEW q \in 0 .. Len(text), NEW s \in Seq(S),
           Found(s, Rest(text, q)), NEW next, next = Reached(s, text, q)
    PROVE  \E a : Steps(S, text, q, s, a, next)
<1>1. PICK rest \in Seq(S) : rest = Rest(text, q)
  BY RestSeq
<1>2. PICK a, r : InPlace(S, rest, a, s, r) /\ Len(a) = At(s, rest)
  BY <1>1, SearchFinds
<1>3. a \in Seq(S) /\ r \in Seq(S) /\ rest = a \o (s \o r)
  BY <1>2 DEF InPlace
<1>4. PICK sr \in Seq(S) : sr = s \o r
  BY <1>3, ConcatProperties
<1>5. Skips(text, q, a, sr)
  BY <1>1, <1>3, <1>4, SkipRest
<1>6. PICK p \in 0 .. Len(text) : p = q + Len(a)
  BY <1>5 DEF Skips
<1>7. Rest(text, p) = s \o r
  BY <1>4, <1>5, <1>6 DEF Skips
<1>8. Skips(text, p, s, r)
  BY <1>3, <1>7, SkipRest
<1>9. next = p + Len(s)
  BY <1>1, <1>2, <1>6 DEF Reached
<1>10. next \in 0 .. Len(text) /\ Rest(text, next) = r
  BY <1>8, <1>9 DEF Skips
<1>11. a \in Parts(text)
  <2>1. a = SubSeq(text, q + 1, p)
    BY <1>5, <1>6 DEF Skips
  <2>2. q + 1 \in 1 .. Len(text) + 1
    BY LenProperties
  <2>3. \A i \in 1 .. Len(text) + 1, j \in 0 .. Len(text) : SubSeq(text, i, j) \in Parts(text)
    BY DEF Parts
  <2> QED BY <2>1, <2>2, <2>3
<1> QED BY <1>1, <1>3, <1>10, <1>11 DEF Steps

Passes(text, q, s, r, next) ==
    Found(s, Rest(text, q)) /\ next \in 0 .. Len(text) /\ Rest(text, next) = r

LEMMA SearchSteps ==
    ASSUME NEW S, NEW text \in Seq(S), NEW q \in 0 .. Len(text),
           NEW s \in Seq(S), s # <<>>, NEW a, NEW r,
           InPlace(S, Rest(text, q), a, s, r), \A i \in DOMAIN a : a[i] # s[1],
           NEW next, next = Reached(s, text, q)
    PROVE  Passes(text, q, s, r, next)
<1>1. PICK rest \in Seq(S) : rest = Rest(text, q)
  BY RestSeq
<1>2. InPlace(S, rest, a, s, r) /\ a \in Seq(S) /\ r \in Seq(S) /\ rest = a \o (s \o r)
  BY <1>1 DEF InPlace
<1>3. Found(s, rest) /\ At(s, rest) = Len(a)
  BY <1>2, SearchFirst
<1>4. PICK sr \in Seq(S) : sr = s \o r
  BY <1>2, ConcatProperties
<1>5. Skips(text, q, a, sr)
  BY <1>1, <1>2, <1>4, SkipRest
<1>6. PICK p \in 0 .. Len(text) : p = q + Len(a)
  BY <1>5 DEF Skips
<1>7. Rest(text, p) = s \o r
  BY <1>4, <1>5, <1>6 DEF Skips
<1>8. Skips(text, p, s, r)
  BY <1>2, <1>7, SkipRest
<1>9. next = p + Len(s)
  BY <1>1, <1>3, <1>6 DEF Reached
<1> QED BY <1>1, <1>3, <1>8, <1>9 DEF Skips, Passes

\* the words that the sections make, from one on, with something between them
Word(sections, between, from, word) ==
    \A k \in from .. Len(sections) :
        word[k] = IF k = Len(sections) THEN sections[k]
                  ELSE sections[k] \o (between[k] \o word[k + 1])

Words(S, sections, between, from, word) ==
    /\ \A k \in from .. Len(sections) : word[k] \in Seq(S)
    /\ Word(sections, between, from, word)

LEMMA WordsAgree ==
    ASSUME NEW sections, Len(sections) \in Nat \ {0}, NEW between, NEW v, NEW w,
           Word(sections, between, 1, v), Word(sections, between, 1, w)
    PROVE  v[1] = w[1]
<1> DEFINE K == Len(sections)
    Q == {k \in 0 .. K : k # 0 => v[k] = w[k]}
<1>1. ASSUME NEW k \in 0 .. K, \A j \in 0 .. K : k < j => j \in Q
      PROVE  k \in Q
  <2>1. CASE k = 0
    BY <2>1
  <2>2. CASE k = K
    BY <2>2 DEF Word
  <2>3. CASE k # 0 /\ k # K
    <3>1. k \in 1 .. K /\ k + 1 \in 0 .. K /\ k < k + 1 /\ k + 1 # 0
      BY <2>3
    <3>2. v[k + 1] = w[k + 1]
      BY <1>1, <3>1
    <3>3. /\ v[k] = sections[k] \o (between[k] \o v[k + 1])
          /\ w[k] = sections[k] \o (between[k] \o w[k + 1])
      BY <2>3, <3>1 DEF Word
    <3> QED BY <3>2, <3>3
  <2> QED BY <2>1, <2>2, <2>3
<1>2. 0 .. K \subseteq Q
  <2>1. K \in Nat
    OBVIOUS
  <2> HIDE DEF K, Q
  <2> QED BY <1>1, <2>1, Downward
<1>3. 1 \in 0 .. K
  OBVIOUS
<1> QED BY <1>2, <1>3

-----------------------------------------------------------------------------
(* What Sections() takes is made of the sections and what is between them. *)

Read(S, sections, text, k, q, between, word) ==
    /\ \A i \in k - 1 .. Len(sections) - 1 : between[i] \in Parts(text) /\ between[i] \in Seq(S)
    /\ Words(S, sections, between, k, word)
    /\ Rest(text, q) = between[k - 1] \o word[k]

LEMMA LastRead ==
    ASSUME NEW S, NEW sections \in Seq(Seq(S)), NEW text \in Seq(S),
           NEW q \in 0 .. Len(text), NEW k \in 2 .. Len(sections), k = Len(sections),
           NEW a, Steps(S, text, q, sections[k], a, Len(text))
    PROVE  \E between, word : Read(S, sections, text, k, q, between, word)
<1>1. Len(sections) \in Nat /\ Len(text) \in Nat /\ sections[k] \in Seq(S)
  <2>1. k \in 1 .. Len(sections)
    BY LenProperties
  <2> QED BY <2>1, LenProperties, ElementOfSeq
<1>2. PICK between, word : between = [i \in {k - 1} |-> a] /\ word = [i \in {k} |-> sections[k]]
  OBVIOUS
<1>3. /\ \A i \in k - 1 .. Len(sections) - 1 : i = k - 1
      /\ \A i \in k .. Len(sections) : i = k
  BY <1>1
<1>4. Words(S, sections, between, k, word)
  BY <1>1, <1>2, <1>3 DEF Words, Word
<1>5. Rest(text, Len(text)) = <<>>
  <2>1. Len(text) \in Int /\ Len(text) + 1 \in Int /\ Len(text) < Len(text) + 1
    BY <1>1
  <2> QED BY <2>1, SubSeqEmpty DEF Rest
<1>6. Rest(text, q) = a \o sections[k]
  <2>1. sections[k] \o <<>> = sections[k]
    BY <1>1, ConcatEmptySeq
  <2> QED BY <1>5, <2>1 DEF Steps
<1>7. a \in Parts(text) /\ a \in Seq(S)
  BY DEF Steps
<1>8. between[k - 1] = a /\ word[k] = sections[k]
  BY <1>2
<1> QED BY <1>3, <1>4, <1>6, <1>7, <1>8 DEF Read

LEMMA MoreRead ==
    ASSUME NEW S, NEW sections \in Seq(Seq(S)), NEW text \in Seq(S),
           NEW q \in 0 .. Len(text), NEW k \in 2 .. Len(sections), k # Len(sections),
           NEW a, NEW next, Steps(S, text, q, sections[k], a, next),
           NEW b, NEW w, Read(S, sections, text, k + 1, next, b, w)
    PROVE  \E between, word : Read(S, sections, text, k, q, between, word)
<1>1. /\ Len(sections) \in Nat /\ Len(text) \in Nat /\ sections[k] \in Seq(S)
      /\ k \in Nat /\ k + 1 \in k .. Len(sections) /\ (k + 1) - 1 = k
      /\ k \in k .. Len(sections) - 1
  <2>1. k \in 1 .. Len(sections) /\ Len(sections) \in Nat
    BY LenProperties
  <2>2. k \in Nat /\ k + 1 \in k .. Len(sections) /\ (k + 1) - 1 = k
        /\ k \in k .. Len(sections) - 1
    BY <2>1
  <2> QED BY <2>1, <2>2, LenProperties, ElementOfSeq
<1>2. /\ \A i \in k .. Len(sections) - 1 : b[i] \in Parts(text) /\ b[i] \in Seq(S)
      /\ Words(S, sections, b, k + 1, w)
      /\ Rest(text, next) = b[k] \o w[k + 1]
  BY <1>1 DEF Read
<1>3. a \in Parts(text) /\ a \in Seq(S) /\ next \in 0 .. Len(text)
      /\ Rest(text, q) = a \o (sections[k] \o Rest(text, next))
  BY DEF Steps
<1>4. PICK between, word :
        /\ between = [i \in k - 1 .. Len(sections) - 1 |-> IF i = k - 1 THEN a ELSE b[i]]
        /\ word = [i \in k .. Len(sections) |->
                    IF i = k THEN sections[k] \o Rest(text, next) ELSE w[i]]
  OBVIOUS
<1>5. /\ \A i \in k .. Len(sections) - 1 : between[i] = b[i]
      /\ between[k - 1] = a
      /\ \A i \in k + 1 .. Len(sections) : word[i] = w[i]
      /\ word[k] = sections[k] \o Rest(text, next)
  <2>1. \A i \in k .. Len(sections) - 1 : i \in k - 1 .. Len(sections) - 1 /\ i # k - 1
    BY <1>1
  <2>2. k - 1 \in k - 1 .. Len(sections) - 1 /\ k \in k .. Len(sections)
    BY <1>1
  <2>3. \A i \in k + 1 .. Len(sections) : i \in k .. Len(sections) /\ i # k
    BY <1>1
  <2> QED BY <1>4, <2>1, <2>2, <2>3
<1>6. word[k] \in Seq(S)
  <2>1. Rest(text, next) \in Seq(S)
    BY <1>3, RestSeq
  <2> QED BY <1>1, <1>5, <2>1, ConcatProperties
<1>7. \A i \in k .. Len(sections) : i = k \/ i \in k + 1 .. Len(sections)
  BY <1>1
<1>8. \A i \in k .. Len(sections) : word[i] \in Seq(S)
  BY <1>2, <1>5, <1>6, <1>7 DEF Words
<1>9. ASSUME NEW i \in k .. Len(sections)
      PROVE  word[i] = IF i = Len(sections) THEN sections[i]
                       ELSE sections[i] \o (between[i] \o word[i + 1])
  <2>1. CASE i = k
    <3>1. word[k + 1] = w[k + 1] /\ between[k] = b[k]
      <4>1. k + 1 \in k + 1 .. Len(sections)
        BY <1>1
      <4> QED BY <1>1, <1>5, <4>1
    <3> QED BY <1>2, <1>5, <2>1, <3>1
  <2>2. CASE i \in k + 1 .. Len(sections)
    <3>1. w[i] = IF i = Len(sections) THEN sections[i]
                 ELSE sections[i] \o (b[i] \o w[i + 1])
      BY <1>2, <2>2 DEF Words, Word
    <3>2. CASE i = Len(sections)
      BY <1>5, <2>2, <3>1, <3>2
    <3>3. CASE i # Len(sections)
      <4>1. i + 1 \in k + 1 .. Len(sections) /\ i \in k .. Len(sections) - 1
        BY <1>1, <2>2, <3>3
      <4> QED BY <1>5, <2>2, <3>1, <3>3, <4>1
    <3> QED BY <3>2, <3>3
  <2> QED BY <1>7, <2>1, <2>2
<1>10. \A i \in k - 1 .. Len(sections) - 1 : between[i] \in Parts(text) /\ between[i] \in Seq(S)
  <2>1. \A i \in k - 1 .. Len(sections) - 1 : i = k - 1 \/ i \in k .. Len(sections) - 1
    BY <1>1
  <2> QED BY <1>2, <1>3, <1>5, <2>1
<1>11. Words(S, sections, between, k, word)
  BY <1>8, <1>9 DEF Words, Word
<1> QED BY <1>3, <1>5, <1>10, <1>11 DEF Read

LEMMA MatchReads ==
    ASSUME NEW S, NEW sections \in Seq(Seq(S)), NEW text \in Seq(S), NEW h,
           IsMatch(sections, text, 1, h), NEW k \in 2 .. Len(sections),
           NEW q \in 0 .. Len(text), h[k][q]
    PROVE  \E between, word : Read(S, sections, text, k, q, between, word)
<1> DEFINE K == Len(sections)
    Q == {n \in 0 .. K : n >= 2 =>
            \A p \in 0 .. Len(text) : h[n][p] =>
                \E between, word : Read(S, sections, text, n, p, between, word)}
<1>0. K \in Nat
  BY LenProperties
<1>1. ASSUME NEW n \in 0 .. K, \A j \in 0 .. K : n < j => j \in Q
      PROVE  n \in Q
  <2>1. SUFFICES ASSUME n >= 2, NEW p \in 0 .. Len(text), h[n][p]
                 PROVE  \E between, word : Read(S, sections, text, n, p, between, word)
    OBVIOUS
  <2>2. n \in 1 .. Len(sections) /\ n \in 2 .. Len(sections)
    BY <1>0, <2>1
  <2>3. PICK s \in Seq(S) : s = sections[n]
    BY <2>2, ElementOfSeq
  <2>4. PICK next : next = Reached(s, text, p)
    OBVIOUS
  <2>5. Continues(sections, text, h, n, p, s, next)
    BY <1>0, <2>2, <2>3, <2>4, MatchStep
  <2>6. Found(s, Rest(text, p))
    BY <2>1, <2>5 DEF Continues
  <2>7. PICK a : Steps(S, text, p, s, a, next)
    BY <2>6, <2>4, SearchReads
  <2>8. CASE n = K
    <3>1. h[n][p] = (next = Len(text))
      BY <2>6, <2>8, <2>5 DEF Continues
    <3>2. next = Len(text)
      BY <2>1, <3>1
    <3> QED BY <2>2, <2>3, <2>7, <2>8, <3>2, LastRead
  <2>9. CASE n # K
    <3>1. h[n][p] = h[n + 1][next]
      BY <2>6, <2>9, <2>5 DEF Continues
    <3>2. n + 1 \in 0 .. K /\ n < n + 1 /\ n + 1 >= 2
      BY <1>0, <2>2, <2>9
    <3>3. n + 1 \in Q
      BY <1>1, <3>2
    <3>4. next \in 0 .. Len(text)
      BY <2>7 DEF Steps
    <3>5. h[n + 1][next]
      BY <2>1, <3>1
    <3>6. PICK b, w : Read(S, sections, text, n + 1, next, b, w)
      BY <3>2, <3>3, <3>4, <3>5
    <3> QED BY <2>2, <2>3, <2>7, <2>9, <3>6, MoreRead
  <2> QED BY <2>8, <2>9
<1>2. 0 .. K \subseteq Q
  <2> HIDE DEF K, Q
  <2> QED BY <1>0, <1>1, Downward
<1>3. k \in Q /\ k >= 2
  <2>1. k \in 0 .. K /\ k >= 2
    BY <1>0
  <2> HIDE DEF K, Q
  <2> QED BY <1>2, <2>1
<1> QED BY <1>3

Whole(S, sections, text, between, word) ==
    /\ \A i \in 1 .. Len(sections) - 1 : between[i] \in Parts(text) /\ between[i] \in Seq(S)
    /\ Words(S, sections, between, 1, word)
    /\ word[1] = text

LEMMA SectionsRead ==
    ASSUME NEW S, NEW sections \in Seq(Seq(S)), Len(sections) # 0, NEW text \in Seq(S),
           Sections(sections, text)
    PROVE  \E between, word : Whole(S, sections, text, between, word)
<1>1. /\ Len(sections) \in Nat /\ Len(sections) # 0 /\ Len(text) \in Nat
      /\ \A i \in 1 .. Len(sections) : sections[i] \in Seq(S)
  BY LenProperties, ElementOfSeq
<1>2. PICK h : /\ IsMatch(sections, text, 1, h)
               /\ Occurs(sections[1], text, 0)
               /\ IF Len(sections) = 1 THEN text = sections[1]
                  ELSE h[2][Len(sections[1])]
  BY <1>1, SectionsIsMatch
<1>3. PICK s \in Seq(S) : s = sections[1]
  BY <1>1
<1>4. CASE Len(sections) = 1
  <2>1. PICK word : word = [i \in {1} |-> text]
    OBVIOUS
  <2>2. PICK between : between = text
    OBVIOUS
  <2>3. /\ \A i \in 1 .. Len(sections) : i = 1
        /\ \A i : i \notin 1 .. Len(sections) - 1
    BY <1>4
  <2>4. Words(S, sections, between, 1, word)
    BY <1>2, <1>3, <1>4, <2>1, <2>3 DEF Words, Word
  <2> QED BY <2>1, <2>3, <2>4 DEF Whole
<1>5. CASE Len(sections) # 1
  <2>1. 2 \in 2 .. Len(sections) /\ 1 \in 1 .. Len(sections) - 1
    <3>1. PICK n \in Nat : n = Len(sections)
      BY <1>1
    <3>2. n # 0 /\ n # 1
      BY <1>1, <1>5, <3>1
    <3> QED BY <3>1, <3>2
  <2>2. PICK q \in 0 .. Len(text) : q = Len(s)
    <3>1. Len(s) \in Nat /\ 0 + Len(s) <= Len(text)
      BY <1>2, <1>3, LenProperties DEF Occurs
    <3> QED BY <1>1, <3>1
  <2>3. text = s \o Rest(text, q)
    <3>1. 1 \in 1 .. Len(text) + 1 /\ q \in 1 - 1 .. Len(text) /\ Len(text) \in q .. Len(text)
      BY <1>1
    <3>2. SubSeq(text, 1, q) \o SubSeq(text, q + 1, Len(text)) = SubSeq(text, 1, Len(text))
      BY <3>1, ConcatAdjacentSubSeq
    <3>3. SubSeq(text, 0 + 1, 0 + Len(s)) = s
      BY <1>2, <1>3 DEF Occurs
    <3>4. 0 + 1 = 1 /\ 0 + Len(s) = q
      BY <1>1, <2>2
    <3>5. SubSeq(text, 1, Len(text)) = text
      BY SubSeqFull
    <3> QED BY <3>2, <3>3, <3>4, <3>5 DEF Rest
  <2>4. h[2][q]
    BY <1>2, <1>3, <1>5, <2>2
  <2>5. PICK b, w : Read(S, sections, text, 2, q, b, w)
    BY <1>2, <2>1, <2>4, MatchReads
  <2>6. /\ \A i \in 1 .. Len(sections) - 1 : b[i] \in Parts(text) /\ b[i] \in Seq(S)
        /\ Words(S, sections, b, 2, w)
        /\ Rest(text, q) = b[1] \o w[2]
    <3>1. 2 - 1 = 1
      OBVIOUS
    <3> QED BY <2>5, <3>1 DEF Read
  <2>7. PICK word : word = [i \in 1 .. Len(sections) |-> IF i = 1 THEN text ELSE w[i]]
    OBVIOUS
  <2>8. /\ word[1] = text
        /\ \A i \in 2 .. Len(sections) : word[i] = w[i]
        /\ \A i \in 1 .. Len(sections) : i = 1 \/ i \in 2 .. Len(sections)
    BY <1>1, <2>7
  <2>9. ASSUME NEW i \in 1 .. Len(sections)
        PROVE  word[i] = IF i = Len(sections) THEN sections[i]
                         ELSE sections[i] \o (b[i] \o word[i + 1])
    <3>1. CASE i = 1
      <4>1. word[2] = w[2] /\ 1 + 1 = 2
        BY <2>1, <2>8
      <4>2. word[1] = sections[1] \o (b[1] \o word[1 + 1])
        BY <1>3, <2>3, <2>6, <2>8, <4>1
      <4> QED BY <1>5, <3>1, <4>2
    <3>2. CASE i \in 2 .. Len(sections)
      <4>1. w[i] = IF i = Len(sections) THEN sections[i]
                   ELSE sections[i] \o (b[i] \o w[i + 1])
        BY <2>6, <3>2 DEF Words, Word
      <4>2. CASE i = Len(sections)
        BY <2>8, <3>2, <4>1, <4>2
      <4>3. CASE i # Len(sections)
        <5>1. i + 1 \in 2 .. Len(sections)
          BY <1>1, <3>2, <4>3
        <5> QED BY <2>8, <3>2, <4>1, <4>3, <5>1
      <4> QED BY <4>2, <4>3
    <3> QED BY <2>8, <3>1, <3>2
  <2>10. \A i \in 1 .. Len(sections) : word[i] \in Seq(S)
    BY <2>6, <2>8 DEF Words
  <2>11. Words(S, sections, b, 1, word)
    BY <2>9, <2>10 DEF Words, Word
  <2> QED BY <2>6, <2>8, <2>11 DEF Whole
<1> QED BY <1>4, <1>5

-----------------------------------------------------------------------------
(* Sections() takes what is made of the sections, when nothing between them *)
(* looks like the next section.                                            *)

Clear(sections, between) ==
    /\ \A k \in 2 .. Len(sections) - 1 : sections[k] # <<>>
    /\ \A k \in 2 .. Len(sections) : sections[k] # <<>> =>
            \A i \in DOMAIN between[k - 1] : between[k - 1][i] # sections[k][1]

LEMMA LastTaken ==
    ASSUME NEW S, NEW text \in Seq(S), NEW q \in 0 .. Len(text),
           NEW s \in Seq(S), NEW a \in Seq(S), Rest(text, q) = a \o s,
           s # <<>> => \A i \in DOMAIN a : a[i] # s[1]
    PROVE  Found(s, Rest(text, q)) /\ Reached(s, text, q) = Len(text)
<1>1. Len(text) \in Nat
  BY LenProperties
<1>2. CASE s = <<>>
  <2>1. Len(Rest(text, q)) = Len(text) - q /\ Len(s) = 0
    BY <1>2, RestSeq
  <2>2. Reached(s, text, q) = q + (Len(text) - q) + 0
    BY <1>2, <2>1 DEF Reached, At
  <2> QED BY <1>1, <1>2, <2>2 DEF Found
<1>3. CASE s # <<>>
  <2>1. PICK r \in Seq(S) : r = <<>>
    BY EmptySeq
  <2>2. InPlace(S, Rest(text, q), a, s, r)
    BY <2>1, ConcatEmptySeq DEF InPlace
  <2>3. PICK next : next = Reached(s, text, q)
    OBVIOUS
  <2>4. Found(s, Rest(text, q)) /\ next \in 0 .. Len(text) /\ Rest(text, next) = r
    <3>1. Passes(text, q, s, r, next)
      BY <1>3, <2>2, <2>3, SearchSteps
    <3> QED BY <3>1 DEF Passes
  <2>5. Len(Rest(text, next)) = Len(text) - next
    BY <2>4, RestSeq
  <2>6. next = Len(text)
    BY <1>1, <2>1, <2>4, <2>5
  <2> QED BY <2>3, <2>4, <2>6
<1> QED BY <1>2, <1>3

LEMMA ClearMatches ==
    ASSUME NEW S, NEW sections \in Seq(Seq(S)), NEW text \in Seq(S), NEW h,
           IsMatch(sections, text, 1, h), NEW between, NEW word,
           \A i \in 1 .. Len(sections) - 1 : between[i] \in Seq(S),
           Words(S, sections, between, 1, word), Clear(sections, between),
           NEW k \in 2 .. Len(sections), NEW q \in 0 .. Len(text),
           Rest(text, q) = between[k - 1] \o word[k]
    PROVE  h[k][q]
<1> DEFINE K == Len(sections)
    Q == {n \in 0 .. K : n >= 2 =>
            \A p \in 0 .. Len(text) :
                Rest(text, p) = between[n - 1] \o word[n] => h[n][p]}
<1>0. K \in Nat
  BY LenProperties
<1>1. ASSUME NEW n \in 0 .. K, \A j \in 0 .. K : n < j => j \in Q
      PROVE  n \in Q
  <2>1. SUFFICES ASSUME n >= 2, NEW p \in 0 .. Len(text),
                        Rest(text, p) = between[n - 1] \o word[n]
                 PROVE  h[n][p]
    OBVIOUS
  <2>2. n \in 1 .. Len(sections) /\ n \in 2 .. Len(sections) /\ n - 1 \in 1 .. Len(sections) - 1
    BY <1>0, <2>1
  <2>3. PICK s \in Seq(S) : s = sections[n]
    BY <2>2, ElementOfSeq
  <2>4. PICK a \in Seq(S) : a = between[n - 1]
    BY <2>2
  <2>5. s # <<>> => \A i \in DOMAIN a : a[i] # s[1]
    BY <2>2, <2>3, <2>4 DEF Clear
  <2>6. PICK next : next = Reached(s, text, p)
    OBVIOUS
  <2>7. Continues(sections, text, h, n, p, s, next)
    BY <1>0, <2>2, <2>3, <2>6, MatchStep
  <2>8. CASE n = K
    <3>1. word[n] = s
      BY <2>2, <2>3, <2>8 DEF Words, Word
    <3>2. Found(s, Rest(text, p)) /\ next = Len(text)
      BY <2>1, <2>4, <2>5, <2>6, <3>1, LastTaken
    <3>3. h[n][p] = (next = Len(text))
      BY <2>7, <2>8, <3>2 DEF Continues
    <3> QED BY <3>2, <3>3
  <2>9. CASE n # K
    <3>1. n + 1 \in 0 .. K /\ n < n + 1 /\ n + 1 >= 2 /\ (n + 1) - 1 = n
          /\ n \in 2 .. Len(sections) - 1 /\ n \in 1 .. Len(sections) - 1
          /\ n + 1 \in 1 .. Len(sections)
      BY <1>0, <2>2, <2>9
    <3>2. word[n] = s \o (between[n] \o word[n + 1])
      BY <2>2, <2>3, <2>9 DEF Words, Word
    <3>3. PICK r \in Seq(S) : r = between[n] \o word[n + 1]
      <4>1. between[n] \in Seq(S) /\ word[n + 1] \in Seq(S)
        BY <3>1 DEF Words
      <4> QED BY <4>1, ConcatProperties
    <3>4. s # <<>>
      BY <2>3, <3>1 DEF Clear
    <3>5. InPlace(S, Rest(text, p), a, s, r)
      BY <2>1, <2>4, <3>2, <3>3 DEF InPlace
    <3>6. Found(s, Rest(text, p)) /\ next \in 0 .. Len(text) /\ Rest(text, next) = r
      <4>1. Passes(text, p, s, r, next)
        BY <2>5, <2>6, <3>4, <3>5, SearchSteps
      <4> QED BY <4>1 DEF Passes
    <3>7. n + 1 \in Q
      BY <1>1, <3>1
    <3>8. h[n + 1][next]
      BY <3>1, <3>3, <3>6, <3>7
    <3>9. h[n][p] = h[n + 1][next]
      BY <2>7, <2>9, <3>6 DEF Continues
    <3> QED BY <3>8, <3>9
  <2> QED BY <2>8, <2>9
<1>2. 0 .. K \subseteq Q
  <2> HIDE DEF K, Q
  <2> QED BY <1>0, <1>1, Downward
<1>3. k \in Q /\ k >= 2
  <2>1. k \in 0 .. K /\ k >= 2
    BY <1>0
  <2> HIDE DEF K, Q
  <2> QED BY <1>2, <2>1
<1> QED BY <1>3

LEMMA SectionsTake ==
    ASSUME NEW S, NEW sections \in Seq(Seq(S)), Len(sections) # 0, NEW text \in Seq(S),
           NEW between, NEW word, Whole(S, sections, text, between, word),
           Clear(sections, between)
    PROVE  Sections(sections, text)
<1>1. /\ Len(sections) \in Nat /\ Len(sections) # 0 /\ Len(text) \in Nat
      /\ 1 \in 1 .. Len(sections)
      /\ \A i \in 1 .. Len(sections) : sections[i] \in Seq(S)
  BY LenProperties, ElementOfSeq
<1>2. PICK h : /\ IsMatch(sections, text, 1, h)
               /\ Sections(sections, text) <=>
                    /\ Occurs(sections[1], text, 0)
                    /\ IF Len(sections) = 1 THEN text = sections[1]
                       ELSE h[2][Len(sections[1])]
  BY <1>1, SectionsIsMatch
<1>3. PICK s \in Seq(S) : s = sections[1]
  BY <1>1
<1>4. PICK r \in Seq(S) : text = s \o r /\ IF Len(sections) = 1 THEN r = <<>>
                                           ELSE r = between[1] \o word[2]
  <2>1. word[1] = text
    BY DEF Whole
  <2>2. CASE Len(sections) = 1
    <3>1. word[1] = s
      BY <1>1, <1>3, <2>2 DEF Whole, Words, Word
    <3>2. s \o <<>> = s /\ <<>> \in Seq(S)
      BY ConcatEmptySeq, EmptySeq
    <3> QED BY <2>1, <2>2, <3>1, <3>2
  <2>3. CASE Len(sections) # 1
    <3>1. 1 \in 1 .. Len(sections) - 1 /\ 2 \in 1 .. Len(sections) /\ 1 + 1 = 2
      <4>1. PICK n \in Nat : n = Len(sections)
        BY <1>1
      <4>2. n # 0 /\ n # 1
        BY <1>1, <2>3, <4>1
      <4> QED BY <4>1, <4>2
    <3>2. word[1] = s \o (between[1] \o word[2])
      BY <1>1, <1>3, <2>3, <3>1 DEF Whole, Words, Word
    <3>3. between[1] \o word[2] \in Seq(S)
      <4>1. between[1] \in Seq(S) /\ word[2] \in Seq(S)
        BY <3>1 DEF Whole, Words
      <4> QED BY <4>1, ConcatProperties
    <3> QED BY <2>1, <2>3, <3>2, <3>3
  <2> QED BY <2>2, <2>3
<1>5. Skips(text, 0, s, r)
  <2>1. PICK zero \in 0 .. Len(text) : zero = 0
    BY <1>1
  <2>2. Rest(text, zero) = s \o r
    BY <1>4, <2>1, SubSeqFull DEF Rest
  <2>3. Skips(text, zero, s, r)
    BY <2>2, SkipRest
  <2> QED BY <2>1, <2>3
<1>6. Len(s) \in 0 .. Len(text) /\ Rest(text, Len(s)) = r /\ s = SubSeq(text, 0 + 1, 0 + Len(s))
      /\ 0 + Len(s) <= Len(text)
  <2>1. Len(s) \in Nat /\ 0 + Len(s) = Len(s)
    BY LenProperties
  <2> QED BY <1>1, <1>5, <2>1 DEF Skips
<1>7. Occurs(s, text, 0)
  BY <1>6 DEF Occurs
<1>8. CASE Len(sections) = 1
  <2>1. text = s
    BY <1>4, <1>8, ConcatEmptySeq
  <2> QED BY <1>2, <1>3, <1>7, <1>8, <2>1
<1>9. CASE Len(sections) # 1
  <2>1. 2 \in 2 .. Len(sections) /\ 2 - 1 = 1
    <3>1. PICK n \in Nat : n = Len(sections)
      BY <1>1
    <3>2. n # 0 /\ n # 1
      BY <1>1, <1>9, <3>1
    <3> QED BY <3>1, <3>2
  <2>2. \A i \in 1 .. Len(sections) - 1 : between[i] \in Seq(S)
    BY DEF Whole
  <2>3. Words(S, sections, between, 1, word)
    BY DEF Whole
  <2>4. PICK q \in 0 .. Len(text) : q = Len(s)
    BY <1>6
  <2>5. Rest(text, q) = between[1] \o word[2]
    BY <1>4, <1>6, <1>9, <2>4
  <2>6. PICK k \in 2 .. Len(sections) : k = 2 /\ k - 1 = 1
    BY <2>1
  <2>7. Rest(text, q) = between[k - 1] \o word[k]
    BY <2>5, <2>6
  <2>8. h[k][q]
    BY <1>2, <2>2, <2>3, <2>7, ClearMatches
  <2> QED BY <1>2, <1>3, <1>7, <1>9, <2>4, <2>6, <2>8
<1> QED BY <1>8, <1>9

-----------------------------------------------------------------------------
(* Fill(): its recursion, when every brace of the path is closed.          *)

IsOpen(path, i) == path[i] = "{"
Opens(path, i) == i \in 1 .. Len(path) /\ IsOpen(path, i)
Closes(path, i) == FindChar(path, "}", i)
Closed(path) == \A i \in 1 .. Len(path) : Opens(path, i) => Closes(path, i) < Len(path)
NameAt(path, i) == SubSeq(path, i + 1, Closes(path, i))

FillTurn(path, values, i, g) ==
    IF i > Len(path) THEN <<>>
    ELSE IF IsOpen(path, i) THEN values[NameAt(path, i)] \o g[Closes(path, i) + 2]
    ELSE <<path[i]>> \o g[i + 1]

IsFill(path, values, from, g) ==
    g = [i \in from .. Len(path) + 1 |-> FillTurn(path, values, i, g)]

LEMMA ClosesBehind ==
    ASSUME NEW S, NEW path \in Seq(S), Closed(path), NEW i, Opens(path, i)
    PROVE  /\ i \in Nat /\ Closes(path, i) \in Nat /\ Len(path) \in Nat
           /\ i <= Closes(path, i) /\ Closes(path, i) < Len(path)
<1>1. Len(path) \in Nat /\ i \in 1 .. Len(path)
  BY LenProperties DEF Opens
<1>2. PICK p \in 0 .. Len(path) : p = i
  BY <1>1
<1>3. Closes(path, i) \in p .. Len(path)
  BY <1>2, FindCharFinds DEF Closes
<1>4. Closes(path, i) < Len(path)
  BY <1>1 DEF Closed
<1> QED BY <1>1, <1>2, <1>3, <1>4

LEMMA FillExists ==
    ASSUME NEW S, NEW path \in Seq(S), Closed(path), NEW values
    PROVE  \E g : IsFill(path, values, 1, g)
<1> DEFINE K == Len(path) + 1
    P == {n \in Nat : n < K => \E g : IsFill(path, values, K - n, g)}
<1>0. Len(path) \in Nat /\ K \in Nat /\ K > 0
  BY LenProperties
<1>1. 0 \in P
  <2>1. PICK g : g = [i \in K .. K |-> <<>>]
    OBVIOUS
  <2>2. \A i \in K .. K : FillTurn(path, values, i, g) = <<>>
    BY <1>0 DEF FillTurn
  <2>3. IsFill(path, values, K, g)
    BY <2>1, <2>2 DEF IsFill
  <2>4. K - 0 = K
    BY <1>0
  <2> QED BY <2>3, <2>4
<1>2. ASSUME NEW n \in Nat, n \in P PROVE n + 1 \in P
  <2>1. SUFFICES ASSUME n + 1 < K
                 PROVE  \E g : IsFill(path, values, K - (n + 1), g)
    OBVIOUS
  <2>2. PICK from : from = K - n
    OBVIOUS
  <2>3. from \in Nat /\ from - 1 \in Nat /\ from - 1 = K - (n + 1) /\ from <= K /\ from >= 2
    BY <1>0, <2>1, <2>2
  <2>4. PICK g : IsFill(path, values, from, g)
    BY <1>0, <1>2, <2>1, <2>2
  <2>5. PICK h : h = [i \in from - 1 .. K |->
                        IF i = from - 1 THEN FillTurn(path, values, i, g) ELSE g[i]]
    OBVIOUS
  <2>6. \A i \in from .. K : h[i] = g[i]
    BY <2>3, <2>5
  <2>7. ASSUME NEW i \in from - 1 .. K PROVE h[i] = FillTurn(path, values, i, h)
    <3>1. FillTurn(path, values, i, g) = FillTurn(path, values, i, h)
      <4>1. i \in Nat /\ i >= 1
        BY <1>0, <2>3
      <4>2. CASE i > Len(path)
        BY <4>2 DEF FillTurn
      <4>3. CASE i <= Len(path) /\ IsOpen(path, i)
        <5>1. Opens(path, i)
          BY <1>0, <4>1, <4>3 DEF Opens
        <5>2. Closes(path, i) + 2 \in from .. K
          <6>1. /\ Closes(path, i) \in Nat
                /\ i <= Closes(path, i) /\ Closes(path, i) < Len(path)
            BY <5>1, ClosesBehind
          <6> QED BY <1>0, <2>3, <6>1
        <5>3. g[Closes(path, i) + 2] = h[Closes(path, i) + 2]
          BY <2>6, <5>2
        <5> QED BY <4>3, <5>3 DEF FillTurn
      <4>4. CASE i <= Len(path) /\ ~IsOpen(path, i)
        <5>1. i + 1 \in from .. K
          BY <1>0, <2>3, <4>4
        <5>2. g[i + 1] = h[i + 1]
          BY <2>6, <5>1
        <5> QED BY <4>4, <5>2 DEF FillTurn
      <4> QED BY <1>0, <4>1, <4>2, <4>3, <4>4
    <3>2. CASE i = from - 1
      BY <2>5, <3>1, <3>2
    <3>3. CASE i # from - 1
      <4>1. i \in from .. K
        BY <1>0, <2>3, <3>3
      <4>2. g[i] = FillTurn(path, values, i, g)
        BY <2>4, <4>1 DEF IsFill
      <4> QED BY <2>6, <3>1, <4>1, <4>2
    <3> QED BY <3>2, <3>3
  <2>8. IsFill(path, values, from - 1, h)
    <3>1. h = [i \in from - 1 .. K |-> h[i]]
      BY <2>5
    <3> QED BY <2>7, <3>1 DEF IsFill
  <2> QED BY <2>3, <2>8
<1>3. Nat \subseteq P
  <2> HIDE DEF P
  <2> QED BY <1>1, <1>2, Induction
<1>4. Len(path) \in P /\ Len(path) < K /\ K - Len(path) = 1
  BY <1>0, <1>3
<1> QED BY <1>4

LEMMA FillIsFill ==
    ASSUME NEW S, NEW path \in Seq(S), Closed(path), NEW values
    PROVE  \E g : IsFill(path, values, 1, g) /\ Fill(path, values) = g[1]
<1>1. \E g : IsFill(path, values, 1, g)
  BY FillExists
<1>2. Fill(path, values) = (CHOOSE g : IsFill(path, values, 1, g))[1]
  BY DEF Fill, IsFill, FillTurn, NameAt, Closes, IsOpen
<1> QED BY <1>1, <1>2

\* values of the names are text
Filled(S, path, values) ==
    \A i \in 1 .. Len(path) : Opens(path, i) => values[NameAt(path, i)] \in Seq(S)

LEMMA FillSeq ==
    ASSUME NEW S, NEW path \in Seq(S), Closed(path), NEW values, Filled(S, path, values),
           NEW g, IsFill(path, values, 1, g), NEW i \in 1 .. Len(path) + 1
    PROVE  g[i] \in Seq(S)
<1> DEFINE K == Len(path) + 1
    Q == {n \in 0 .. K : n # 0 => g[n] \in Seq(S)}
<1>0. Len(path) \in Nat /\ K \in Nat
  BY LenProperties
<1>1. ASSUME NEW n \in 0 .. K, \A j \in 0 .. K : n < j => j \in Q
      PROVE  n \in Q
  <2>1. SUFFICES ASSUME n # 0 PROVE g[n] \in Seq(S)
    OBVIOUS
  <2>2. n \in 1 .. K /\ n \in Nat
    BY <1>0, <2>1
  <2>3. g[n] = FillTurn(path, values, n, g)
    BY <2>2 DEF IsFill
  <2>4. CASE n > Len(path)
    BY <2>3, <2>4, EmptySeq DEF FillTurn
  <2>5. CASE n <= Len(path) /\ IsOpen(path, n)
    <3>1. Opens(path, n)
      BY <1>0, <2>2, <2>5 DEF Opens
    <3>2. PICK next : next = Closes(path, n) + 2
      OBVIOUS
    <3>3. next \in 0 .. K /\ n < next /\ next # 0
      <4>1. /\ Closes(path, n) \in Nat
            /\ n <= Closes(path, n) /\ Closes(path, n) < Len(path)
        BY <3>1, ClosesBehind
      <4> QED BY <1>0, <2>2, <3>2, <4>1
    <3>4. g[next] \in Seq(S)
      BY <1>1, <3>3
    <3>5. values[NameAt(path, n)] \in Seq(S)
      BY <3>1 DEF Filled, Opens
    <3>6. g[n] = values[NameAt(path, n)] \o g[next]
      <4>1. ~(n > Len(path))
        BY <1>0, <2>2, <2>5
      <4>2. g[n] = values[NameAt(path, n)] \o g[Closes(path, n) + 2]
        BY <2>3, <2>5, <4>1, Zenon DEF FillTurn
      <4> QED BY <3>2, <4>2
    <3> QED BY <3>4, <3>5, <3>6, ConcatProperties
  <2>6. CASE n <= Len(path) /\ ~IsOpen(path, n)
    <3>1. n + 1 \in 0 .. K /\ n < n + 1 /\ n + 1 # 0 /\ n \in 1 .. Len(path)
      BY <1>0, <2>2, <2>6
    <3>2. g[n + 1] \in Seq(S)
      BY <1>1, <3>1
    <3>3. PICK c \in S : c = path[n]
      BY <3>1, ElementOfSeq
    <3>4. g[n] = <<c>> \o g[n + 1]
      BY <1>0, <2>2, <2>3, <2>6, <3>3 DEF FillTurn
    <3>5. <<c>> \in Seq(S)
      BY SingleSeq
    <3> QED BY <3>2, <3>4, <3>5, ConcatProperties
  <2> QED BY <1>0, <2>2, <2>4, <2>5, <2>6
<1>2. 0 .. K \subseteq Q
  <2> HIDE DEF K, Q
  <2> QED BY <1>0, <1>1, Downward
<1>3. i \in Q /\ i # 0
  <2>1. i \in 0 .. K /\ i # 0
    BY <1>0
  <2> HIDE DEF K, Q
  <2> QED BY <1>2, <2>1
<1> QED BY <1>3

Associates(u, v, w) == (u \o v) \o w = u \o (v \o w)

LEMMA Association ==
    ASSUME NEW S, NEW u \in Seq(S), NEW v \in Seq(S), NEW w \in Seq(S)
    PROVE  Associates(u, v, w)
BY ConcatAssociative DEF Associates

LEMMA FillText ==
    ASSUME NEW S, NEW path \in Seq(S), Closed(path), NEW values, Filled(S, path, values),
           NEW g, IsFill(path, values, 1, g), NEW b \in 0 .. Len(path), NEW p \in 0 .. b,
           \A i \in p + 1 .. b : ~IsOpen(path, i)
    PROVE  g[p + 1] = SubSeq(path, p + 1, b) \o g[b + 1]
<1> DEFINE Q == {n \in 0 .. b : n >= p =>
                    g[n + 1] = SubSeq(path, n + 1, b) \o g[b + 1]}
<1>0. Len(path) \in Nat /\ b \in Nat /\ p \in Nat /\ p <= b /\ b <= Len(path)
  <2>1. Len(path) \in Nat
    BY LenProperties
  <2> QED BY <2>1
<1>1. \A i \in 0 .. b : g[i + 1] \in Seq(S)
  <2>1. \A i \in 0 .. b : i + 1 \in 1 .. Len(path) + 1
    BY <1>0
  <2> QED BY <2>1, FillSeq
<1>2. ASSUME NEW n \in 0 .. b, \A j \in 0 .. b : n < j => j \in Q
      PROVE  n \in Q
  <2>1. SUFFICES ASSUME n >= p PROVE g[n + 1] = SubSeq(path, n + 1, b) \o g[b + 1]
    OBVIOUS
  <2>2. n \in Nat /\ n + 1 \in Nat
    BY <1>0
  <2>3. CASE n = b
    <3>1. b + 1 \in Int /\ b \in Int /\ b < b + 1
      BY <1>0
    <3>2. SubSeq(path, b + 1, b) = <<>>
      BY <3>1, SubSeqEmpty
    <3>3. b \in 0 .. b
      BY <1>0
    <3>4. g[b + 1] \in Seq(S)
      BY <1>1, <3>3
    <3>5. <<>> \o g[b + 1] = g[b + 1]
      BY <3>4, ConcatEmptySeq
    <3> QED BY <2>3, <3>2, <3>5
  <2>4. CASE n # b
    <3>1. /\ n + 1 \in 0 .. b /\ n < n + 1 /\ n + 1 >= p /\ n + 1 \in p + 1 .. b
          /\ n + 1 \in 1 .. Len(path) /\ b \in n + 1 .. Len(path) /\ ~(n + 1 > Len(path))
          /\ n + 1 \in 1 .. Len(path) + 1
      BY <1>0, <2>1, <2>2, <2>4
    <3>2. g[(n + 1) + 1] = SubSeq(path, (n + 1) + 1, b) \o g[b + 1]
      <4>1. n + 1 \in Q
        BY <1>2, <3>1
      <4> QED BY <3>1, <4>1
    <3>3. PICK m \in 1 .. Len(path) + 1 : m = n + 1
      BY <3>1
    <3>4. g[m] = FillTurn(path, values, m, g)
      BY DEF IsFill
    <3>5. ~IsOpen(path, m)
      BY <3>1, <3>3
    <3>6. g[m] = <<path[m]>> \o g[m + 1]
      BY <3>1, <3>3, <3>4, <3>5, Zenon DEF FillTurn
    <3>7. SubSeq(path, m, b) = <<path[m]>> \o SubSeq(path, m + 1, b)
      BY <3>1, <3>3, SubSeqRecursiveFirst
    <3>8. PICK u, v, w : u = <<path[m]>> /\ v = SubSeq(path, m + 1, b) /\ w = g[b + 1]
      OBVIOUS
    <3>9. u \in Seq(S) /\ v \in Seq(S) /\ w \in Seq(S)
      <4>1. u \in Seq(S)
        <5>1. PICK c \in S : c = path[m]
          BY <3>1, <3>3, ElementOfSeq
        <5> QED BY <3>8, <5>1, SingleSeq
      <4>2. v \in Seq(S)
        <5>1. \A i \in m + 1 .. b : path[i] \in S
          <6>1. \A i \in m + 1 .. b : i \in 1 .. Len(path)
            BY <1>0, <2>2, <3>3
          <6> QED BY <6>1, ElementOfSeq
        <5>2. m + 1 \in Int /\ b \in Int
          BY <1>0, <2>2, <3>3
        <5> QED BY <3>8, <5>1, <5>2, SubSeqProperties
      <4>3. b \in 0 .. b
        BY <1>0
      <4> QED BY <1>1, <3>8, <4>1, <4>2, <4>3
    <3>10. (u \o v) \o w = u \o (v \o w)
      <4>1. Associates(u, v, w)
        BY <3>9, Association
      <4> QED BY <4>1 DEF Associates
    <3>11. g[m + 1] = v \o w
      BY <3>2, <3>3, <3>8
    <3> QED BY <3>3, <3>6, <3>7, <3>8, <3>10, <3>11
  <2> QED BY <2>3, <2>4
<1>3. 0 .. b \subseteq Q
  <2> HIDE DEF Q
  <2> QED BY <1>0, <1>2, Downward
<1>4. p \in Q /\ p >= p
  <2>1. p \in 0 .. b /\ p >= p
    BY <1>0
  <2> HIDE DEF Q
  <2> QED BY <1>3, <2>1
<1> QED BY <1>4

-----------------------------------------------------------------------------
(* What the parse of a path has, and what Fill() makes of it.              *)

LEMMA NoneBefore ==
    ASSUME NEW S, NEW path \in Seq(S), NEW p \in 0 .. Len(path), NEW b, b = NameBeg(path, p),
           NEW i \in p + 1 .. b
    PROVE  ~IsOpen(path, i)
<1> DEFINE there == {q \in p .. Len(path) - 1 : path[q + 1] = "{"}
<1>0. Len(path) \in Nat /\ p \in Nat /\ b \in Nat /\ p <= b /\ b <= Len(path)
  <2>1. Len(path) \in Nat
    BY LenProperties
  <2>2. b \in Nat /\ p <= b /\ b <= Len(path)
    <3>1. PICK e : e = NameEnd(path, p)
      OBVIOUS
    <3>2. p <= b /\ b <= e /\ e <= Len(path) /\ b \in Nat /\ e \in Nat
      BY <3>1, NameBehind
    <3> QED BY <2>1, <3>2
  <2> QED BY <2>1, <2>2
<1>1. SUFFICES ASSUME IsOpen(path, i) PROVE FALSE
  OBVIOUS
<1>2. PICK q \in Nat : q = i - 1
  BY <1>0
<1>3. q \in p .. Len(path) - 1 /\ q + 1 = i /\ q < b
  BY <1>0, <1>2
<1>4. q \in there
  BY <1>1, <1>3 DEF IsOpen
<1>5. there \in SUBSET Nat
  <2>1. p .. Len(path) - 1 \subseteq Nat
    BY <1>0
  <2> QED BY <2>1
<1>6. b = Min0(there, Len(path))
  BY DEF NameBeg, FindChar
<1>7. b <= q
  <2> HIDE DEF there
  <2> QED BY <1>4, <1>5, <1>6, Min0Least
<1> QED BY <1>0, <1>2, <1>3, <1>7

IsClose(path, i) == path[i] = "}"

(* At a name, the braces are where the parse says.                         *)
LEMMA BracesOfName ==
    ASSUME NEW S, NEW path \in Seq(S), NEW f, NEW p \in 0 .. Len(path),
           NEW b, NEW e, AtName(path, f, p, b, e)
    PROVE  /\ Len(path) \in Nat /\ p \in Nat /\ b \in Nat /\ e \in Nat
           /\ p <= b /\ b < e /\ e < Len(path)
           /\ b = NameBeg(path, p) /\ e = NameEnd(path, p) /\ f[e + 1].valid
           /\ IsOpen(path, b + 1) /\ IsClose(path, e + 1)
<1>1. b = NameBeg(path, p) /\ e = NameEnd(path, p) /\ b < e /\ e < Len(path) /\ f[e + 1].valid
  BY DEF AtName
<1>2. Len(path) \in Nat /\ b \in Nat /\ e \in Nat /\ p <= b
  BY <1>1, NameBehind
<1>3. b < Len(path) /\ p \in Nat
  BY <1>1, <1>2
<1>4. path[b + 1] = "{"
  BY <1>1, <1>3, NameBehind
<1>5. path[e + 1] = "}"
  BY <1>1, NameBehind
<1> QED BY <1>1, <1>2, <1>3, <1>4, <1>5 DEF IsOpen, IsClose

LEMMA NameIsAt ==
    ASSUME NEW S, NEW path \in Seq(S), NEW f, NEW p \in 0 .. Len(path),
           NEW b, NEW e, AtName(path, f, p, b, e)
    PROVE  /\ Opens(path, b + 1) /\ Closes(path, b + 1) = e
           /\ NameAt(path, b + 1) = SubSeq(path, b + 2, e)
<1>1. /\ Len(path) \in Nat /\ b \in Nat /\ e \in Nat /\ b < e /\ e < Len(path)
      /\ b = NameBeg(path, p) /\ e = NameEnd(path, p)
  BY BracesOfName
<1>2. IsOpen(path, b + 1)
  BY BracesOfName
<1>3. Opens(path, b + 1)
  <2>1. b + 1 \in 1 .. Len(path)
    BY <1>1
  <2> QED BY <1>2, <2>1 DEF Opens
<1>4. {q \in b + 1 .. Len(path) - 1 : IsClose(path, q + 1)}
        = {q \in b .. Len(path) - 1 : IsClose(path, q + 1)}
  <2>1. \A q \in b .. Len(path) - 1 : q = b \/ q \in b + 1 .. Len(path) - 1
    BY <1>1
  <2>2. \A q \in b + 1 .. Len(path) - 1 : q \in b .. Len(path) - 1
    BY <1>1
  <2>3. ~IsClose(path, b + 1)
    BY <1>2 DEF IsOpen, IsClose
  <2> QED BY <2>1, <2>2, <2>3
<1>5. Closes(path, b + 1) = e
  BY <1>1, <1>4 DEF Closes, NameEnd, FindChar, IsClose
<1>6. (b + 1) + 1 = b + 2
  BY <1>1
<1> QED BY <1>3, <1>5, <1>6 DEF NameAt

LEMMA ParseIsClosed ==
    ASSUME NEW S, NEW path \in Seq(S), NEW f, IsParse(path, 0, f), f[0].valid
    PROVE  Closed(path)
<1> DEFINE K == Len(path)
    Q == {p \in 0 .. K : f[p].valid =>
            \A i \in p + 1 .. K : Opens(path, i) => Closes(path, i) < Len(path)}
<1>0. K \in Nat
  BY LenProperties
<1>1. ASSUME NEW p \in 0 .. K, \A j \in 0 .. K : p < j => j \in Q
      PROVE  p \in Q
  <2>1. SUFFICES ASSUME f[p].valid, NEW i \in p + 1 .. K, Opens(path, i)
                 PROVE  Closes(path, i) < Len(path)
    OBVIOUS
  <2>2. PICK b, e : b = NameBeg(path, p) /\ e = NameEnd(path, p)
    OBVIOUS
  <2>3. i \notin p + 1 .. b
    BY <2>1, <2>2, NoneBefore DEF Opens
  <2>4. AtEnd(path, f, p) \/ AtText(path, f, p) \/ AtName(path, f, p, b, e)
    BY <2>1, <2>2, ParseCases
  <2>5. ~AtEnd(path, f, p)
    BY <1>0, <2>1 DEF AtEnd
  <2>6. ~AtText(path, f, p)
    BY <2>1, <2>2, <2>3 DEF AtText
  <2>7. AtName(path, f, p, b, e)
    BY <2>4, <2>5, <2>6
  <2>8. /\ b \in Nat /\ e \in Nat /\ p <= b /\ b < e /\ e < K /\ p \in Nat
        /\ i \in Nat /\ i >= p + 1 /\ i <= K
    BY <1>0, <2>7, BracesOfName
  <2>11. f[e + 1].valid /\ IsClose(path, e + 1)
    BY <2>7, BracesOfName
  <2>9. CASE i > e + 1
    <3>1. e + 1 \in 0 .. K /\ p < e + 1 /\ i \in (e + 1) + 1 .. K
      BY <1>0, <2>8, <2>9
    <3> QED BY <1>1, <2>1, <2>11, <3>1
  <2>10. CASE i <= e + 1
    <3>1. i # e + 1
      BY <2>1, <2>11 DEF Opens, IsOpen, IsClose
    <3>2. e \in i .. Len(path) - 1 /\ i \in 0 .. Len(path)
      BY <1>0, <2>8, <2>10, <3>1
    <3>3. PICK c : c = Closes(path, i)
      OBVIOUS
    <3>4. /\ c \in i .. Len(path)
          /\ c = Len(path) => \A q \in i .. Len(path) - 1 : ~IsClose(path, q + 1)
      BY <3>2, <3>3, FindCharFinds DEF Closes, IsClose
    <3>5. c # Len(path)
      BY <2>11, <3>2, <3>4
    <3>6. c \in i .. Len(path)
      BY <3>4
    <3> QED BY <1>0, <2>8, <3>3, <3>5, <3>6
  <2> QED BY <2>8, <2>9, <2>10
<1>2. 0 .. K \subseteq Q
  <2> HIDE DEF K, Q
  <2> QED BY <1>0, <1>1, Downward
<1>3. \A i \in 1 .. K : i \in 0 + 1 .. K
  BY <1>0
<1>4. 0 \in Q
  BY <1>0, <1>2
<1> QED BY <1>3, <1>4 DEF Closed

Longer(T, c, u, us) ==
    /\ c \in Seq(T) /\ Len(us) \in Nat /\ Len(c) = Len(us) + 1 /\ c[1] = u
    /\ \A k \in 2 .. Len(us) + 1 : c[k] = us[k - 1]

LEMMA ConsIs ==
    ASSUME NEW T, NEW u \in T, NEW us \in Seq(T)
    PROVE  Longer(T, Cons(u, us), u, us)
<1>0. PICK c : c = Cons(u, us)
  OBVIOUS
<1>1. <<u>> \in Seq(T) /\ Len(<<u>>) = 1 /\ <<u>>[1] = u
  BY SingleSeq
<1>2. Len(us) \in Nat
  BY LenProperties
<1>3. /\ c \in Seq(T) /\ Len(c) = 1 + Len(us)
      /\ \A k \in 1 .. 1 + Len(us) : c[k] = IF k <= 1 THEN <<u>>[k] ELSE us[k - 1]
  BY <1>0, <1>1, ConcatProperties DEF Cons
<1>4. /\ 1 \in 1 .. 1 + Len(us)
      /\ \A k \in 2 .. Len(us) + 1 : k \in 1 .. 1 + Len(us) /\ ~(k <= 1)
  BY <1>2
<1> QED BY <1>0, <1>1, <1>2, <1>3, <1>4 DEF Longer

OfPath(path, s) == \A i \in DOMAIN s : \E j \in DOMAIN path : s[i] = path[j]

LEMMA PieceOfPath ==
    ASSUME NEW S, NEW path \in Seq(S), NEW p \in 0 .. Len(path), NEW b \in p .. Len(path)
    PROVE  OfPath(path, SubSeq(path, p + 1, b))
<1>1. Len(path) \in Nat /\ p \in Nat /\ b \in Nat /\ b <= Len(path) /\ p <= b
      /\ DOMAIN path = 1 .. Len(path)
  <2>1. Len(path) \in Nat /\ DOMAIN path = 1 .. Len(path)
    BY LenProperties
  <2> QED BY <2>1
<1>2. p + 1 \in Int /\ b \in Int /\ \A i \in p + 1 .. b : i \in 1 .. Len(path)
  BY <1>1
<1>3. \A i \in p + 1 .. b : path[i] \in S
  BY <1>2, ElementOfSeq
<1>4. PICK s : s = SubSeq(path, p + 1, b)
  OBVIOUS
<1>5. /\ s \in Seq(S) /\ Len(s) = IF p + 1 <= b THEN b - (p + 1) + 1 ELSE 0
      /\ \A i \in 1 .. b - (p + 1) + 1 : s[i] = path[(p + 1) + i - 1]
  BY <1>2, <1>3, <1>4, SubSeqProperties
<1>6. DOMAIN s = 1 .. Len(s) /\ Len(s) = b - p
  <2>1. Len(s) = b - p
    BY <1>1, <1>5
  <2> QED BY <1>5, <2>1, LenProperties
<1>7. \A i \in 1 .. b - p : i \in 1 .. b - (p + 1) + 1 /\ (p + 1) + i - 1 \in 1 .. Len(path)
  BY <1>1
<1> QED BY <1>1, <1>4, <1>5, <1>6, <1>7 DEF OfPath

\* text and a name, and what is behind them
NameParts(S, path, f, p, e, u, us, v, vs) ==
    /\ u \in Seq(S) /\ us \in Seq(Seq(S)) /\ v \in Seq(S) /\ vs \in Seq(Seq(S))
    /\ f[p].sections = Cons(u, us) /\ f[p].names = Cons(v, vs)
    /\ f[e + 1].valid /\ f[e + 1].sections = us /\ f[e + 1].names = vs
    /\ Len(us) = Len(vs) + 1
    /\ e + 1 \in 0 .. Len(path)

LEMMA NameHasParts ==
    ASSUME NEW S, NEW path \in Seq(S), Len(path) # 0, NEW f, IsParse(path, 0, f),
           NEW p \in 0 .. Len(path), NEW b, NEW e, AtName(path, f, p, b, e)
    PROVE  \E us, vs : NameParts(S, path, f, p, e, SubSeq(path, p + 1, b), us,
                                 SubSeq(path, b + 2, e), vs)
<1>1. Pieces(S, path, f, p, b, e)
  BY NameShape
<1>2. /\ e + 1 \in 0 .. Len(path) /\ f[e + 1].valid
      /\ SubSeq(path, p + 1, b) \in Seq(S) /\ SubSeq(path, b + 2, e) \in Seq(S)
      /\ f[e + 1].sections \in Seq(Seq(S)) /\ f[e + 1].names \in Seq(Seq(S))
  BY <1>1 DEF Pieces
<1>3. Len(f[e + 1].sections) = Len(f[e + 1].names) + 1
  <2>1. PICK n \in 0 .. Len(path) : n = e + 1
    BY <1>2
  <2>2. f[n].valid
    BY <1>2, <2>1
  <2>3. Len(f[n].sections) = Len(f[n].names) + 1
    BY <2>2, ParseShape
  <2> QED BY <2>1, <2>3
<1>4. /\ f[p].sections = Cons(SubSeq(path, p + 1, b), f[e + 1].sections)
      /\ f[p].names = Cons(SubSeq(path, b + 2, e), f[e + 1].names)
  BY DEF AtName, Cons
<1>5. NameParts(S, path, f, p, e, SubSeq(path, p + 1, b), f[e + 1].sections,
                SubSeq(path, b + 2, e), f[e + 1].names)
  BY <1>2, <1>3, <1>4 DEF NameParts
<1> QED BY <1>5

LEMMA NeverEmpty ==
    ASSUME NEW path, NEW f, IsParse(path, 0, f), NEW p \in 0 .. Len(path), p # 0,
           f[p].valid, p # Len(path)
    PROVE  p # NameBeg(path, p)
<1>1. f[p] = Turn(path, p, f[NameEnd(path, p) + 1])
  BY DEF IsParse
<1>2. ~Invalid.valid
  BY DEF Invalid
<1> QED BY <1>1, <1>2 DEF Turn

Means(path, f, p) ==
    /\ \A k \in 1 .. Len(f[p].names) :
            \E i : Opens(path, i) /\ f[p].names[k] = NameAt(path, i)
    /\ \A k \in 1 .. Len(f[p].sections) : OfPath(path, f[p].sections[k])
    /\ \A k \in 1 .. Len(f[p].sections) - 1 :
            p # 0 \/ k # 1 => f[p].sections[k] # <<>>

LEMMA NameMeans ==
    ASSUME NEW S, NEW path \in Seq(S), Len(path) # 0, NEW f, IsParse(path, 0, f),
           NEW p \in 0 .. Len(path), f[p].valid, NEW b, NEW e, AtName(path, f, p, b, e),
           Means(path, f, e + 1)
    PROVE  Means(path, f, p)
<1>1. /\ Len(path) \in Nat /\ p \in Nat /\ b \in Nat /\ e \in Nat
      /\ p <= b /\ b < e /\ e < Len(path)
      /\ b = NameBeg(path, p)
  BY BracesOfName
<1>2. PICK u, v : u = SubSeq(path, p + 1, b) /\ v = SubSeq(path, b + 2, e)
  OBVIOUS
<1>3. PICK us, vs : NameParts(S, path, f, p, e, u, us, v, vs)
  BY <1>2, NameHasParts
<1>4. PICK sections, names : sections = Cons(u, us) /\ names = Cons(v, vs)
  OBVIOUS
<1>5. u \in Seq(S) /\ us \in Seq(Seq(S)) /\ v \in Seq(S) /\ vs \in Seq(Seq(S))
  BY <1>3 DEF NameParts
<1>6. /\ Len(us) \in Nat /\ Len(sections) = Len(us) + 1 /\ sections[1] = u
      /\ \A k \in 2 .. Len(us) + 1 : sections[k] = us[k - 1]
  <2>1. Longer(Seq(S), Cons(u, us), u, us)
    BY <1>5, ConsIs
  <2> QED BY <1>4, <2>1 DEF Longer
<1>7. /\ Len(vs) \in Nat /\ Len(names) = Len(vs) + 1 /\ names[1] = v
      /\ \A k \in 2 .. Len(vs) + 1 : names[k] = vs[k - 1]
  <2>1. Longer(Seq(S), Cons(v, vs), v, vs)
    BY <1>5, ConsIs
  <2> QED BY <1>4, <2>1 DEF Longer
<1>8. f[p].sections = sections /\ f[p].names = names
      /\ f[e + 1].sections = us /\ f[e + 1].names = vs
  BY <1>3, <1>4 DEF NameParts
<1>9. \A k \in 1 .. Len(names) : \E i : Opens(path, i) /\ names[k] = NameAt(path, i)
  <2>1. Opens(path, b + 1) /\ v = NameAt(path, b + 1)
    BY <1>2, NameIsAt
  <2>2. \A k \in 1 .. Len(vs) : \E i : Opens(path, i) /\ vs[k] = NameAt(path, i)
    BY <1>8 DEF Means
  <2>3. \A k \in 1 .. Len(names) : k = 1 \/ (k \in 2 .. Len(vs) + 1 /\ k - 1 \in 1 .. Len(vs))
    BY <1>7
  <2> QED BY <1>7, <2>1, <2>2, <2>3
<1>10. \A k \in 1 .. Len(sections) : OfPath(path, sections[k])
  <2>1. OfPath(path, u)
    <3>1. b \in p .. Len(path)
      BY <1>1
    <3> QED BY <1>2, <3>1, PieceOfPath
  <2>2. \A k \in 1 .. Len(us) : OfPath(path, us[k])
    BY <1>8 DEF Means
  <2>3. \A k \in 1 .. Len(sections) : k = 1 \/ (k \in 2 .. Len(us) + 1 /\ k - 1 \in 1 .. Len(us))
    BY <1>6
  <2> QED BY <1>6, <2>1, <2>2, <2>3
<1>11. ASSUME NEW k \in 1 .. Len(sections) - 1, p # 0 \/ k # 1 PROVE sections[k] # <<>>
  <2>1. CASE k = 1
    <3>1. p # b
      BY <1>1, <1>11, <2>1, NeverEmpty DEF AtName
    <3>2. p + 1 \in 1 .. Len(path) /\ b \in p + 1 .. Len(path)
      BY <1>1, <3>1
    <3>3. u = <<path[p + 1]>> \o SubSeq(path, (p + 1) + 1, b)
      BY <1>2, <3>2, SubSeqRecursiveFirst
    <3>4. PICK r : r = SubSeq(path, (p + 1) + 1, b)
      OBVIOUS
    <3>5. r \in Seq(S)
      <4>1. \A i \in (p + 1) + 1 .. b : i \in 1 .. Len(path)
        BY <1>1
      <4>2. \A i \in (p + 1) + 1 .. b : path[i] \in S
        BY <4>1, ElementOfSeq
      <4>3. (p + 1) + 1 \in Int /\ b \in Int
        BY <1>1
      <4> QED BY <3>4, <4>2, <4>3, SubSeqProperties
    <3>6. PICK c \in S : c = path[p + 1]
      BY <3>2, ElementOfSeq
    <3>7. u = Cons(c, r)
      BY <3>3, <3>4, <3>6 DEF Cons
    <3>8. Len(u) = Len(r) + 1 /\ Len(r) \in Nat
      <4>1. Longer(S, Cons(c, r), c, r)
        BY <3>5, ConsIs
      <4> QED BY <3>7, <4>1 DEF Longer
    <3>9. u # <<>>
      BY <3>8
    <3> QED BY <1>6, <2>1, <3>9
  <2>2. CASE k # 1
    <3>1. k \in 2 .. Len(us) + 1 /\ k - 1 \in 1 .. Len(us) - 1
      BY <1>6, <2>2
    <3>2. e + 1 # 0
      BY <1>1
    <3>3. us[k - 1] # <<>>
      BY <1>8, <3>1, <3>2 DEF Means
    <3> QED BY <1>6, <3>1, <3>3
  <2> QED BY <2>1, <2>2
<1> QED BY <1>8, <1>9, <1>10, <1>11 DEF Means

LEMMA ParseMeans ==
    ASSUME NEW S, NEW path \in Seq(S), Len(path) # 0, NEW f, IsParse(path, 0, f), f[0].valid
    PROVE  Means(path, f, 0)
<1> DEFINE K == Len(path)
    Q == {p \in 0 .. K : f[p].valid => Means(path, f, p)}
<1>0. K \in Nat
  BY LenProperties
<1>1. ASSUME NEW p \in 0 .. K, \A j \in 0 .. K : p < j => j \in Q
      PROVE  p \in Q
  <2>1. SUFFICES ASSUME f[p].valid PROVE Means(path, f, p)
    OBVIOUS
  <2>2. PICK b, e : b = NameBeg(path, p) /\ e = NameEnd(path, p)
    OBVIOUS
  <2>3. AtEnd(path, f, p) \/ AtText(path, f, p) \/ AtName(path, f, p, b, e)
    BY <2>1, <2>2, ParseCases
  <2>4. CASE AtEnd(path, f, p) \/ AtText(path, f, p)
    <3>1. f[p].names = <<>> /\ f[p].sections = <<Rest(path, p)>>
      BY <2>4, OnlyText DEF AtEnd, AtText
    <3>2. OfPath(path, Rest(path, p))
      <4>1. K \in p .. Len(path)
        BY <1>0
      <4> QED BY <4>1, PieceOfPath DEF Rest
    <3>3. \A k \in 1 .. Len(f[p].sections) : k = 1
      BY <3>1
    <3>4. \A k : k \notin 1 .. Len(f[p].sections) - 1 /\ k \notin 1 .. Len(f[p].names)
      BY <3>1
    <3>5. f[p].sections[1] = Rest(path, p)
      BY <3>1
    <3> QED BY <3>2, <3>3, <3>4, <3>5 DEF Means
  <2>5. CASE AtName(path, f, p, b, e)
    <3>1. e + 1 \in 0 .. K /\ p < e + 1
      <4>1. Len(path) \in Nat /\ p \in Nat /\ b \in Nat /\ e \in Nat
            /\ p <= b /\ b < e /\ e < Len(path)
        BY <2>5, BracesOfName
      <4> QED BY <4>1
    <3>2. f[e + 1].valid
      BY <2>5, BracesOfName
    <3>3. Means(path, f, e + 1)
      BY <1>1, <3>1, <3>2
    <3> QED BY <2>1, <2>5, <3>3, NameMeans
  <2> QED BY <2>3, <2>4, <2>5
<1>2. 0 .. K \subseteq Q
  <2> HIDE DEF K, Q
  <2> QED BY <1>0, <1>1, Downward
<1>3. 0 \in 0 .. K
  BY <1>0
<1> QED BY <1>2, <1>3

Between(values, names) == [k \in 1 .. Len(names) |-> values[names[k]]]

Spelled(S, path, values, f, g, p, word) ==
    /\ Words(S, f[p].sections, Between(values, f[p].names), 1, word)
    /\ word[1] = g[p + 1]

LEMMA TextSpelled ==
    ASSUME NEW S, NEW path \in Seq(S), Len(path) # 0, Closed(path), NEW f,
           NEW values, Filled(S, path, values), NEW g, IsFill(path, values, 1, g),
           NEW p \in 0 .. Len(path), AtEnd(path, f, p) \/ AtText(path, f, p)
    PROVE  \E word : Spelled(S, path, values, f, g, p, word)
<1>1. Len(path) \in Nat /\ p \in Nat /\ p <= Len(path)
  <2>1. Len(path) \in Nat
    BY LenProperties
  <2> QED BY <2>1
<1>2. f[p].sections = <<Rest(path, p)>>
  BY OnlyText
<1>3. \A i \in p + 1 .. Len(path) : ~IsOpen(path, i)
  <2>1. CASE AtEnd(path, f, p)
    BY <1>1, <2>1 DEF AtEnd
  <2>2. CASE AtText(path, f, p)
    BY <2>2, NoneBefore DEF AtText
  <2> QED BY <2>1, <2>2
<1>4. PICK b \in 0 .. Len(path) : b = Len(path) /\ p \in 0 .. b
  BY <1>1
<1>5. g[p + 1] = SubSeq(path, p + 1, b) \o g[b + 1]
  <2>1. \A i \in p + 1 .. b : ~IsOpen(path, i)
    BY <1>3, <1>4
  <2>2. p \in 0 .. b
    BY <1>4
  <2> QED BY <2>1, <2>2, FillText
<1>6. g[Len(path) + 1] = <<>>
  <2>1. Len(path) + 1 \in 1 .. Len(path) + 1 /\ Len(path) + 1 > Len(path)
    BY <1>1
  <2>2. g[Len(path) + 1] = FillTurn(path, values, Len(path) + 1, g)
    BY <2>1 DEF IsFill
  <2> QED BY <2>1, <2>2 DEF FillTurn
<1>7. PICK rest \in Seq(S) : rest = Rest(path, p)
  BY RestSeq
<1>8. g[p + 1] = rest
  <2>1. g[p + 1] = rest \o <<>>
    BY <1>4, <1>5, <1>6, <1>7 DEF Rest
  <2> QED BY <2>1, ConcatEmptySeq
<1>9. PICK word, sections, between : /\ word = [i \in {1} |-> rest]
                                     /\ sections = f[p].sections
                                     /\ between = Between(values, f[p].names)
  OBVIOUS
<1>10. Len(sections) = 1 /\ sections[1] = rest
  BY <1>2, <1>7, <1>9
<1>11. Words(S, sections, between, 1, word)
  BY <1>9, <1>10 DEF Words, Word
<1> QED BY <1>8, <1>9, <1>11 DEF Spelled

LEMMA NameSpelled ==
    ASSUME NEW S, NEW path \in Seq(S), Len(path) # 0, Closed(path),
           NEW f, IsParse(path, 0, f),
           NEW values, Filled(S, path, values), NEW g, IsFill(path, values, 1, g),
           NEW p \in 0 .. Len(path), NEW b, NEW e, AtName(path, f, p, b, e),
           NEW w, Spelled(S, path, values, f, g, e + 1, w)
    PROVE  \E word : Spelled(S, path, values, f, g, p, word)
<1>1. /\ Len(path) \in Nat /\ p \in Nat /\ b \in Nat /\ e \in Nat
      /\ p <= b /\ b < e /\ e < Len(path)
      /\ b = NameBeg(path, p) /\ IsOpen(path, b + 1)
  BY BracesOfName
<1>2. PICK u, v : u = SubSeq(path, p + 1, b) /\ v = SubSeq(path, b + 2, e)
  OBVIOUS
<1>3. PICK us, vs : NameParts(S, path, f, p, e, u, us, v, vs)
  BY <1>2, NameHasParts
<1>4. PICK sections, names, between, others :
        /\ sections = Cons(u, us) /\ names = Cons(v, vs)
        /\ between = Between(values, names) /\ others = Between(values, vs)
  OBVIOUS
<1>5. /\ u \in Seq(S) /\ us \in Seq(Seq(S)) /\ v \in Seq(S) /\ vs \in Seq(Seq(S))
      /\ Len(us) = Len(vs) + 1
      /\ f[p].sections = sections /\ f[p].names = names
      /\ f[e + 1].sections = us /\ f[e + 1].names = vs
  BY <1>3, <1>4 DEF NameParts
<1>6. /\ Len(us) \in Nat /\ Len(sections) = Len(us) + 1 /\ sections[1] = u
      /\ \A k \in 2 .. Len(us) + 1 : sections[k] = us[k - 1]
  <2>1. Longer(Seq(S), Cons(u, us), u, us)
    BY <1>5, ConsIs
  <2> QED BY <1>4, <2>1 DEF Longer
<1>7. /\ Len(vs) \in Nat /\ Len(names) = Len(vs) + 1 /\ names[1] = v
      /\ \A k \in 2 .. Len(vs) + 1 : names[k] = vs[k - 1]
  <2>1. Longer(Seq(S), Cons(v, vs), v, vs)
    BY <1>5, ConsIs
  <2> QED BY <1>4, <2>1 DEF Longer
<1>8. /\ between[1] = values[v]
      /\ \A k \in 2 .. Len(vs) + 1 : between[k] = others[k - 1]
  <2>1. /\ 1 \in 1 .. Len(names)
        /\ \A k \in 2 .. Len(vs) + 1 : k \in 1 .. Len(names) /\ k - 1 \in 1 .. Len(vs)
    BY <1>7
  <2>2. \A k \in 1 .. Len(names) : between[k] = values[names[k]]
    BY <1>4 DEF Between
  <2>3. \A k \in 1 .. Len(vs) : others[k] = values[vs[k]]
    BY <1>4 DEF Between
  <2> QED BY <1>7, <2>1, <2>2, <2>3
<1>9. g[p + 1] = u \o (values[v] \o w[1])
  <2>1. \A i \in p + 1 .. b : ~IsOpen(path, i)
    BY <1>1, NoneBefore
  <2>2. b \in 0 .. Len(path) /\ p \in 0 .. b
    BY <1>1
  <2>3. g[p + 1] = u \o g[b + 1]
    BY <1>2, <2>1, <2>2, FillText
  <2>4. Closes(path, b + 1) = e /\ NameAt(path, b + 1) = v
    BY <1>2, NameIsAt
  <2>5. b + 1 \in 1 .. Len(path) + 1 /\ ~(b + 1 > Len(path)) /\ (e + 1) + 1 = e + 2
    BY <1>1
  <2>6. g[b + 1] = FillTurn(path, values, b + 1, g)
    BY <2>5 DEF IsFill
  <2>7. g[b + 1] = values[NameAt(path, b + 1)] \o g[Closes(path, b + 1) + 2]
    BY <1>1, <2>5, <2>6, Zenon DEF FillTurn
  <2>8. w[1] = g[e + 2]
    BY <2>5 DEF Spelled
  <2> QED BY <2>3, <2>4, <2>7, <2>8
<1>10. g[p + 1] \in Seq(S)
  <2>1. p + 1 \in 1 .. Len(path) + 1
    BY <1>1
  <2> QED BY <2>1, FillSeq
<1>11. Words(S, us, others, 1, w)
  BY <1>4, <1>5 DEF Spelled
<1>12. PICK word : word = [k \in 1 .. Len(us) + 1 |-> IF k = 1 THEN g[p + 1] ELSE w[k - 1]]
  OBVIOUS
<1>13. /\ word[1] = g[p + 1]
       /\ \A k \in 2 .. Len(us) + 1 : word[k] = w[k - 1] /\ k - 1 \in 1 .. Len(us)
       /\ \A k \in 1 .. Len(us) + 1 : k = 1 \/ k \in 2 .. Len(us) + 1
  <2>1. 1 \in 1 .. Len(us) + 1
    BY <1>6
  <2>2. \A k \in 2 .. Len(us) + 1 : k \in 1 .. Len(us) + 1 /\ k # 1 /\ k - 1 \in 1 .. Len(us)
    BY <1>6
  <2>3. \A k \in 1 .. Len(us) + 1 : k = 1 \/ k \in 2 .. Len(us) + 1
    BY <1>6
  <2> QED BY <1>12, <2>1, <2>2, <2>3
<1>14. \A k \in 1 .. Len(us) + 1 : word[k] \in Seq(S)
  BY <1>10, <1>11, <1>13 DEF Words
<1>15. ASSUME NEW k \in 1 .. Len(us) + 1
       PROVE  word[k] = IF k = Len(us) + 1 THEN sections[k]
                        ELSE sections[k] \o (between[k] \o word[k + 1])
  <2>1. CASE k = 1
    <3>1. Len(us) + 1 # 1 /\ 2 \in 2 .. Len(us) + 1 /\ 2 - 1 = 1 /\ 1 + 1 = 2
      BY <1>5, <1>6, <1>7
    <3>2. word[2] = w[1]
      BY <1>13, <3>1
    <3>3. word[1] = sections[1] \o (between[1] \o word[1 + 1])
      BY <1>6, <1>8, <1>9, <1>13, <3>1, <3>2
    <3> QED BY <2>1, <3>1, <3>3
  <2>2. CASE k \in 2 .. Len(us) + 1
    <3>1. PICK n \in 1 .. Len(us) : n = k - 1
      BY <1>13, <2>2
    <3>2. w[n] = IF n = Len(us) THEN us[n] ELSE us[n] \o (others[n] \o w[n + 1])
      BY <1>11, <3>1 DEF Words, Word
    <3>3. word[k] = w[n] /\ sections[k] = us[n]
      BY <1>6, <1>13, <2>2, <3>1
    <3>4. CASE k = Len(us) + 1
      <4>1. n = Len(us)
        BY <1>6, <3>1, <3>4
      <4> QED BY <3>2, <3>3, <3>4, <4>1
    <3>5. CASE k # Len(us) + 1
      <4>1. n # Len(us) /\ k + 1 \in 2 .. Len(us) + 1 /\ (k + 1) - 1 = n + 1
            /\ k \in 2 .. Len(vs) + 1
        <5>1. PICK l \in Nat : l = Len(vs)
          BY <1>7
        <5>2. Len(us) = l + 1
          BY <1>5, <5>1
        <5>3. n # l + 1 /\ k + 1 \in 2 .. (l + 1) + 1 /\ (k + 1) - 1 = n + 1
              /\ k \in 2 .. l + 1
          BY <2>2, <3>1, <3>5, <5>2
        <5> QED BY <5>1, <5>2, <5>3
      <4>2. word[k + 1] = w[n + 1]
        BY <1>13, <4>1
      <4>3. between[k] = others[n]
        BY <1>8, <3>1, <4>1
      <4> QED BY <3>2, <3>3, <3>5, <4>1, <4>2, <4>3
    <3> QED BY <3>4, <3>5
  <2> QED BY <1>13, <2>1, <2>2
<1>16. Words(S, sections, between, 1, word)
  BY <1>6, <1>14, <1>15 DEF Words, Word
<1> QED BY <1>4, <1>5, <1>13, <1>16 DEF Spelled

LEMMA FillSpells ==
    ASSUME NEW S, NEW path \in Seq(S), Len(path) # 0, NEW f, IsParse(path, 0, f),
           f[0].valid, NEW values, Filled(S, path, values)
    PROVE  \E word : /\ Words(S, f[0].sections, Between(values, f[0].names), 1, word)
                     /\ word[1] = Fill(path, values)
<1> DEFINE K == Len(path)
<1>0. K \in Nat
  BY LenProperties
<1>1. Closed(path)
  BY ParseIsClosed
<1>2. PICK g : IsFill(path, values, 1, g) /\ Fill(path, values) = g[1]
  BY <1>1, FillIsFill
<1> DEFINE Q == {p \in 0 .. K : f[p].valid =>
                    \E word : Spelled(S, path, values, f, g, p, word)}
<1>3. ASSUME NEW p \in 0 .. K, \A j \in 0 .. K : p < j => j \in Q
      PROVE  p \in Q
  <2>1. SUFFICES ASSUME f[p].valid
                 PROVE  \E word : Spelled(S, path, values, f, g, p, word)
    OBVIOUS
  <2>2. PICK b, e : b = NameBeg(path, p) /\ e = NameEnd(path, p)
    OBVIOUS
  <2>3. AtEnd(path, f, p) \/ AtText(path, f, p) \/ AtName(path, f, p, b, e)
    BY <2>1, <2>2, ParseCases
  <2>4. CASE AtEnd(path, f, p) \/ AtText(path, f, p)
    BY <1>1, <1>2, <2>4, TextSpelled
  <2>5. CASE AtName(path, f, p, b, e)
    <3>1. e + 1 \in 0 .. K /\ p < e + 1
      <4>1. Len(path) \in Nat /\ p \in Nat /\ b \in Nat /\ e \in Nat
            /\ p <= b /\ b < e /\ e < Len(path)
        BY <2>5, BracesOfName
      <4> QED BY <4>1
    <3>2. f[e + 1].valid
      BY <2>5, BracesOfName
    <3>3. PICK w : Spelled(S, path, values, f, g, e + 1, w)
      BY <1>3, <3>1, <3>2
    <3> QED BY <1>1, <1>2, <2>5, <3>3, NameSpelled
  <2> QED BY <2>3, <2>4, <2>5
<1>4. 0 .. K \subseteq Q
  <2> HIDE DEF K, Q
  <2> QED BY <1>0, <1>3, Downward
<1>5. PICK zero \in 0 .. K : zero = 0 /\ zero + 1 = 1
  BY <1>0
<1>6. PICK word : Spelled(S, path, values, f, g, zero, word)
  BY <1>4, <1>5
<1> QED BY <1>2, <1>5, <1>6 DEF Spelled

-----------------------------------------------------------------------------
(* A path takes a request that it makes, and none that it does not make.   *)

LEMMA PartsAreText ==
    ASSUME NEW S, NEW text \in Seq(S)
    PROVE  <<>> \in Parts(text) /\ Parts(text) \subseteq Seq(S)
<1>1. Len(text) \in Nat
  BY LenProperties
<1>2. <<>> \in Parts(text)
  <2>1. 1 \in 1 .. Len(text) + 1 /\ 0 \in 0 .. Len(text) /\ 0 < 1
    BY <1>1
  <2>2. SubSeq(text, 1, 0) = <<>>
    BY SubSeqEmpty
  <2>3. \A i \in 1 .. Len(text) + 1, j \in 0 .. Len(text) : SubSeq(text, i, j) \in Parts(text)
    BY DEF Parts
  <2> QED BY <2>1, <2>2, <2>3
<1>3. ASSUME NEW s \in Parts(text) PROVE s \in Seq(S)
  <2>1. PICK i \in 1 .. Len(text) + 1, j \in 0 .. Len(text) : s = SubSeq(text, i, j)
    BY <1>3 DEF Parts
  <2>2. i \in Int /\ j \in Int /\ \A n \in i .. j : n \in 1 .. Len(text)
    BY <1>1
  <2>3. \A n \in i .. j : text[n] \in S
    BY <2>2, ElementOfSeq
  <2> QED BY <2>1, <2>2, <2>3, SubSeqProperties
<1> QED BY <1>2, <1>3

LEMMA NamesAre ==
    ASSUME NEW S, NEW path \in Seq(S)
    PROVE  /\ \A i : Opens(path, i) => NameAt(path, i) \in Names(path)
           /\ \A name \in Names(path) : \E i : Opens(path, i) /\ name = NameAt(path, i)
<1>1. DOMAIN path = 1 .. Len(path)
  BY LenProperties
<1>2. Names(path) = {NameAt(path, i) : i \in {j \in 1 .. Len(path) : IsOpen(path, j)}}
  BY <1>1 DEF Names, NameAt, Closes, IsOpen
<1> QED BY <1>2 DEF Opens

\* the parse of a path that is not empty
Parsed(S, path, sections, names) ==
    /\ sections \in Seq(Seq(S)) /\ names \in Seq(Seq(S))
    /\ Len(names) \in Nat /\ Len(sections) = Len(names) + 1
    /\ \A k \in 1 .. Len(names) : names[k] \in Names(path)
    /\ \A k \in 1 .. Len(sections) : OfPath(path, sections[k])
    /\ \A k \in 1 .. Len(sections) - 1 : k # 1 => sections[k] # <<>>
    /\ \A text \in Seq(S) : \A values \in [Names(path) -> Parts(text)] :
            \E word : /\ Words(S, sections, Between(values, names), 1, word)
                      /\ word[1] = Fill(path, values)

LEMMA BuildParses ==
    ASSUME NEW S, NEW path \in Seq(S), path # <<>>, buildMatchInfo(path).valid
    PROVE  Parsed(S, path, buildMatchInfo(path).sections, buildMatchInfo(path).names)
<1>1. PICK f : IsParse(path, 0, f) /\ buildMatchInfo(path) = f[0]
  BY BuildIsParse
<1>2. Len(path) \in Nat /\ Len(path) # 0 /\ f[0].valid
  BY <1>1, EmptySeq, LenProperties
<1>3. PICK zero \in 0 .. Len(path) : zero = 0
  BY <1>2
<1>4. PICK sections, names : sections = f[0].sections /\ names = f[0].names
  OBVIOUS
<1>5. /\ sections \in Seq(Seq(S)) /\ names \in Seq(Seq(S))
      /\ Len(sections) = Len(names) + 1
  <2>1. f[zero].valid
    BY <1>2, <1>3
  <2>2. /\ f[zero].sections \in Seq(Seq(S)) /\ f[zero].names \in Seq(Seq(S))
        /\ Len(f[zero].sections) = Len(f[zero].names) + 1
    BY <1>1, <1>2, <2>1, ParseShape
  <2> QED BY <1>3, <1>4, <2>2
<1>6. Len(names) \in Nat
  BY <1>5, LenProperties
<1>7. Means(path, f, 0)
  BY <1>1, <1>2, ParseMeans
<1>8. /\ \A k \in 1 .. Len(names) : names[k] \in Names(path)
      /\ \A k \in 1 .. Len(sections) : OfPath(path, sections[k])
      /\ \A k \in 1 .. Len(sections) - 1 : k # 1 => sections[k] # <<>>
  BY <1>4, <1>7, NamesAre DEF Means
<1>9. ASSUME NEW text \in Seq(S), NEW values, values \in [Names(path) -> Parts(text)]
      PROVE  \E word : /\ Words(S, sections, Between(values, names), 1, word)
                       /\ word[1] = Fill(path, values)
  <2>1. Filled(S, path, values)
    BY <1>9, NamesAre, PartsAreText DEF Filled
  <2> QED BY <1>1, <1>2, <1>4, <2>1, FillSpells
<1> QED BY <1>1, <1>4, <1>5, <1>6, <1>8, <1>9 DEF Parsed

(* A request that a path makes, with values that have no character of the  *)
(* path's own, is taken: the search of each section from the left, without  *)
(* a second try, finds it where it is (checkPathMatch()).                  *)
THEOREM PlainIsTaken ==
    ASSUME NEW S, NEW path \in Seq(S), path # <<>>, buildMatchInfo(path).valid,
           NEW text \in Seq(S), NEW values \in Instances(path, text), Plain(path, values)
    PROVE  Sections(buildMatchInfo(path).sections, text)
<1>1. PICK sections, names : /\ sections = buildMatchInfo(path).sections
                             /\ names = buildMatchInfo(path).names
  OBVIOUS
<1>2. Parsed(S, path, sections, names)
  BY <1>1, BuildParses
<1>3. /\ sections \in Seq(Seq(S)) /\ names \in Seq(Seq(S))
      /\ Len(names) \in Nat /\ Len(sections) = Len(names) + 1
      /\ \A k \in 1 .. Len(names) : names[k] \in Names(path)
      /\ \A k \in 1 .. Len(sections) : OfPath(path, sections[k])
      /\ \A k \in 1 .. Len(sections) - 1 : k # 1 => sections[k] # <<>>
  BY <1>2 DEF Parsed
<1>4. values \in [Names(path) -> Parts(text)] /\ Fill(path, values) = text
  BY DEF Instances
<1>5. PICK between : between = Between(values, names)
  OBVIOUS
<1>6. PICK word : Words(S, sections, between, 1, word) /\ word[1] = text
  <2>1. \E word : /\ Words(S, sections, Between(values, names), 1, word)
                  /\ word[1] = Fill(path, values)
    BY <1>2, <1>4 DEF Parsed
  <2> QED BY <1>4, <1>5, <2>1
<1>7. \A k \in 1 .. Len(names) : between[k] = values[names[k]]
  BY <1>5 DEF Between
<1>8. Len(sections) # 0 /\ Len(sections) - 1 = Len(names)
  BY <1>3
<1>9. Whole(S, sections, text, between, word)
  <2>1. \A k \in 1 .. Len(names) : between[k] \in Parts(text) /\ between[k] \in Seq(S)
    BY <1>3, <1>4, <1>7, PartsAreText
  <2> QED BY <1>6, <1>8, <2>1 DEF Whole
<1>10. Clear(sections, between)
  <2>1. ASSUME NEW k \in 2 .. Len(sections), sections[k] # <<>>,
               NEW i \in DOMAIN between[k - 1]
        PROVE  between[k - 1][i] # sections[k][1]
    <3>1. k \in 1 .. Len(sections) /\ k - 1 \in 1 .. Len(names)
      BY <1>3
    <3>2. PICK s \in Seq(S) : s = sections[k]
      BY <1>3, <3>1, ElementOfSeq
    <3>3. 1 \in DOMAIN s
      <4>1. Len(s) \in Nat \ {0} /\ DOMAIN s = 1 .. Len(s)
        BY <2>1, <3>2, EmptySeq, LenProperties
      <4> QED BY <4>1
    <3>4. PICK j \in DOMAIN path : s[1] = path[j]
      BY <1>3, <3>1, <3>2, <3>3 DEF OfPath
    <3>5. PICK name \in Names(path) : between[k - 1] = values[name]
      BY <1>3, <1>7, <3>1
    <3>6. i \in DOMAIN values[name] /\ name \in DOMAIN values
      BY <1>4, <2>1, <3>5
    <3>7. values[name][i] # path[j]
      BY <3>6 DEF Plain
    <3> QED BY <3>2, <3>4, <3>5, <3>7
  <2>2. \A k \in 2 .. Len(sections) - 1 : sections[k] # <<>>
    <3>1. \A k \in 2 .. Len(sections) - 1 : k \in 1 .. Len(sections) - 1 /\ k # 1
      BY <1>3
    <3> QED BY <1>3, <3>1
  <2> QED BY <2>1, <2>2 DEF Clear
<1>11. Sections(sections, text)
  BY <1>3, <1>8, <1>9, <1>10, SectionsTake
<1> QED BY <1>1, <1>11

\* no name twice
NamesOnce(path) ==
    LET names == buildMatchInfo(path).names IN
    \A i, j \in DOMAIN names : names[i] = names[j] => i = j

(* A request that is taken is made by the path, with some values for its    *)
(* names (checkPathMatch()).  A path with a name twice is left out: its     *)
(* match does not compare the two, and the later one is the value.         *)
THEOREM TakenIsMade ==
    ASSUME NEW S, NEW path \in Seq(S), path # <<>>, buildMatchInfo(path).valid,
           NamesOnce(path), NEW text \in Seq(S),
           Sections(buildMatchInfo(path).sections, text)
    PROVE  Instances(path, text) # {}
<1>1. PICK sections, names : /\ sections = buildMatchInfo(path).sections
                             /\ names = buildMatchInfo(path).names
  OBVIOUS
<1>2. Parsed(S, path, sections, names)
  BY <1>1, BuildParses
<1>3. /\ sections \in Seq(Seq(S)) /\ names \in Seq(Seq(S))
      /\ Len(names) \in Nat /\ Len(sections) = Len(names) + 1
      /\ \A k \in 1 .. Len(names) : names[k] \in Names(path)
  BY <1>2 DEF Parsed
<1>4. Len(sections) # 0 /\ Len(sections) - 1 = Len(names) /\ Len(sections) \in Nat \ {0}
      /\ DOMAIN names = 1 .. Len(names)
  <2>1. DOMAIN names = 1 .. Len(names)
    BY <1>3, LenProperties
  <2> QED BY <1>3, <2>1
<1>5. PICK between, word : Whole(S, sections, text, between, word)
  BY <1>1, <1>3, <1>4, SectionsRead
<1>6. \A k \in 1 .. Len(names) : between[k] \in Parts(text)
  BY <1>4, <1>5 DEF Whole
<1>7. PICK values : values = [name \in Names(path) |->
            IF \E k \in 1 .. Len(names) : names[k] = name
            THEN between[CHOOSE k \in 1 .. Len(names) : names[k] = name] ELSE <<>>]
  OBVIOUS
<1>8. values \in [Names(path) -> Parts(text)]
  <2>1. ASSUME NEW name \in Names(path) PROVE values[name] \in Parts(text)
    <3>1. CASE \E k \in 1 .. Len(names) : names[k] = name
      <4>1. PICK n \in 1 .. Len(names) : n = CHOOSE k \in 1 .. Len(names) : names[k] = name
        BY <3>1
      <4> QED BY <1>6, <1>7, <3>1, <4>1
    <3>2. CASE ~\E k \in 1 .. Len(names) : names[k] = name
      <4>1. values[name] = <<>>
        BY <1>7, <3>2
      <4> QED BY <4>1, PartsAreText
    <3> QED BY <3>1, <3>2
  <2> QED BY <1>7, <2>1
<1>9. ASSUME NEW k \in 1 .. Len(names) PROVE values[names[k]] = between[k]
  <2>1. PICK n \in 1 .. Len(names) : /\ names[n] = names[k]
                                     /\ n = CHOOSE j \in 1 .. Len(names) : names[j] = names[k]
    OBVIOUS
  <2>2. n = k
    BY <1>1, <1>4, <2>1 DEF NamesOnce
  <2>3. values[names[k]] = between[n]
    BY <1>3, <1>7, <2>1
  <2> QED BY <2>2, <2>3
<1>10. PICK w : /\ Words(S, sections, Between(values, names), 1, w)
                /\ w[1] = Fill(path, values)
  BY <1>2, <1>8 DEF Parsed
<1>11. Word(sections, Between(values, names), 1, word)
  <2>1. Word(sections, between, 1, word)
    BY <1>5 DEF Whole, Words
  <2>2. \A k \in 1 .. Len(names) : Between(values, names)[k] = between[k]
    BY <1>9 DEF Between
  <2>3. \A k \in 1 .. Len(sections) : k # Len(sections) => k \in 1 .. Len(names)
    BY <1>3
  <2> QED BY <2>1, <2>2, <2>3 DEF Word
<1>12. w[1] = word[1]
  BY <1>4, <1>10, <1>11, WordsAgree DEF Words
<1>13. Fill(path, values) = text
  BY <1>5, <1>10, <1>12 DEF Whole
<1> QED BY <1>8, <1>13 DEF Instances

-----------------------------------------------------------------------------
(* A request is routed as the paths of the routes say.                     *)

LEMMA RowMatches ==
    ASSUME NEW row \in Rows, \A call \in Calls : NamesOnce(Rooted(call.path)),
           target \in Targets
    PROVE  /\ checkPathMatch(row, target.method, target.path) => Takes(row, FALSE)
           /\ Takes(row, TRUE) => checkPathMatch(row, target.method, target.path)
<1>1. /\ row.path \in Seq(Text) /\ buildMatchInfo(row.path).valid
      /\ row.sections = buildMatchInfo(row.path).sections
      /\ Rooted(row.path) = row.path
      /\ \E call \in Calls : row.path = Rooted(call.path)
  BY RowShape DEF Route
<1>2. NamesOnce(row.path)
  BY <1>1
<1>3. row.path # <<>>
  <2>1. SUFFICES ASSUME row.path = <<>> PROVE FALSE
    OBVIOUS
  <2>2. Rooted(<<>>) = <<"/">> \o <<>>
    BY DEF Rooted
  <2>3. PICK slash : slash = "/"
    OBVIOUS
  <2>4. <<slash>> \o <<>> # <<>>
    <3>1. <<slash>> \in Seq({slash}) /\ Len(<<slash>>) = 1 /\ Len(<<>>) = 0
      BY EmptySeq
    <3>2. <<slash>> \o <<>> = <<slash>>
      BY <3>1, ConcatEmptySeq
    <3> QED BY <3>1, <3>2
  <2> QED BY <1>1, <2>1, <2>2, <2>3, <2>4
<1>4. target.path \in Seq(Text)
  BY TargetsAreText
<1>5. ASSUME checkPathMatch(row, target.method, target.path)
      PROVE  Takes(row, FALSE)
  <2>1. row.method \in {"All", target.method} /\ Sections(row.sections, target.path)
    BY <1>5 DEF checkPathMatch
  <2>2. Instances(row.path, target.path) # {}
    BY <1>1, <1>2, <1>3, <1>4, <2>1, TakenIsMade
  <2> QED BY <2>1, <2>2 DEF Takes
<1>6. ASSUME Takes(row, TRUE)
      PROVE  checkPathMatch(row, target.method, target.path)
  <2>1. PICK values \in Instances(row.path, target.path) : Plain(row.path, values)
    BY <1>6 DEF Takes
  <2>2. Sections(row.sections, target.path)
    BY <1>1, <1>3, <1>4, <2>1, PlainIsTaken
  <2> QED BY <1>6, <2>2 DEF Takes, checkPathMatch
<1> QED BY <1>5, <1>6

(* When no path has a name twice, the action that runs is that of the first *)
(* route, of those that have not been removed and have not declined, whose  *)
(* path with values for its names is the path of the request; and a request *)
(* that gets past the table's end is made by none of them with values that  *)
(* have no character of the path's own (buildMatchInfo(), findMatch(),      *)
(* checkPathMatch()).                                                      *)
THEOREM RoutedByThePath ==
    ASSUME \A call \in Calls : NamesOnce(Rooted(call.path))
    PROVE  Spec => []RoutedAsDeclared
<1>1. Init => SearchTrue /\ TableTrue
  BY SearchStarts, TableStarts
<1>2. SearchTrue /\ TableTrue /\ [Next]_vars => (SearchTrue /\ TableTrue)'
  BY SearchStays, TableStays
<1>3. SearchTrue => RoutedAsDeclared
  <2> SUFFICES ASSUME SearchTrue PROVE RoutedAsDeclared
    OBVIOUS
  <2>1. at \in Nat /\ at >= 1 /\ OffersInOrder /\ Table(routes)
    BY DEF SearchTrue
  <2>2. Len(routes) \in Nat /\ \A i \in 1 .. Len(routes) : routes[i] \in Rows
    BY <2>1, LenProperties, ElementOfSeq DEF Table
  <2>3. ASSUME phase = "action" \/ phase = "searching", NEW i \in 1 .. Len(routes)
        PROVE  /\ FitsAt(i) => Takes(routes[i], FALSE)
               /\ Takes(routes[i], TRUE) => FitsAt(i)
    <3>1. target \in Targets
      BY <2>3 DEF SearchTrue
    <3> QED BY <2>2, <3>1, RowMatches DEF FitsAt
  <2>4. phase = "action" => routes[at].live /\ Takes(routes[at], FALSE)
    <3>1. SUFFICES ASSUME phase = "action" PROVE routes[at].live /\ Takes(routes[at], FALSE)
      OBVIOUS
    <3>2. at \in 1 .. Len(routes) /\ routes[at].live /\ FitsAt(at)
      BY <2>1, <2>2, <3>1 DEF OffersInOrder
    <3> QED BY <2>3, <3>1, <3>2
  <2>5. ASSUME phase = "action" \/ phase = "searching", NEW i \in 1 .. at - 1,
               routes[i].live, i \notin declined
        PROVE  ~Takes(routes[i], TRUE)
    <3>1. at <= Len(routes) + 1 /\ PassedRightly
      BY <2>1, <2>5 DEF OffersInOrder
    <3>2. i \in 1 .. Len(routes)
      BY <2>1, <2>2, <3>1
    <3>3. ~FitsAt(i)
      BY <2>5, <3>1 DEF PassedRightly
    <3> QED BY <2>3, <2>5, <3>2, <3>3
  <2> QED BY <2>4, <2>5 DEF RoutedAsDeclared
<1> QED BY <1>1, <1>2, <1>3, PTL DEF Spec
=============================================================================
