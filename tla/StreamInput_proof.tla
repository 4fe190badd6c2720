-------------------------- MODULE StreamInput_proof --------------------------
(***************************************************************************)
(* Proofs about StreamInput, for any buffer size, content lengths, chunked *)
(* bodies and bounds: the buffer, `processed`, `remaining` and the base    *)
(* stream agree on where in the body the reader is.                        *)
(*                                                                         *)
(* They need a reader that does not ask for more than a counted body has   *)
(* (see StreamInputOverRead), and EofMeansEnd that no byte looks like the  *)
(* end of the file (see StreamInputHighByte).                              *)
(***************************************************************************)
EXTENDS StreamInput, SequenceTheorems, FiniteSetTheorems, FunctionTheorems, TLAPS

-----------------------------------------------------------------------------
(* The inductive invariant.                                                 *)

BodyType == [remaining : Nat, chunked : BOOLEAN, firstChunk : BOOLEAN,
             whole : BOOLEAN, failed : BOOLEAN, input : Seq(Token)]

(* What the base stream holds of a body: the bytes that remain of the chunk *)
(* come first, then its end, or a size; ...                                 *)
InputTrue(b) ==
    /\ b.firstChunk => b.chunked /\ b.remaining = 0
    /\ \A j \in 1 .. b.remaining : j <= Len(b.input) => b.input[j].kind = "byte"
    /\ b.chunked => Chunks(b.input)
    /\ b.chunked /\ b.remaining < Len(b.input) =>
         b.input[b.remaining + 1].kind
           \in IF b.firstChunk THEN {"size", "last", "junk"} ELSE {"crlf"}

(* ... and of one that is whole: all of it, and then the next message.      *)
EndsWhole(s) ==
    /\ Len(s) >= 3
    /\ \A i \in 1 .. 3 : s[Len(s) - 3 + i] = Other(i)
    /\ \A i \in DOMAIN s : s[i].kind # "junk"

WholeInput(b) ==
    /\ EndsWhole(b.input)
    /\ b.chunked => Closed(b.input, Len(b.input) - 3) /\ b.remaining < Len(b.input) - 3
    /\ ~b.chunked => Len(b.input) = b.remaining + 3

BodyTrue(b) == b \in BodyType /\ InputTrue(b) /\ (b.whole => WholeInput(b))

(* The buffer holds the bytes behind processed, the base stream the next.   *)
InOrder ==
    /\ \A i \in 1 .. Len(area) : area[i] = processed + i
    /\ \E q \in Nat : Numbered(body.input, processed + Len(area), q)

(* A preload wants the rest of the chunk; the other calls have used up the  *)
(* buffer, and want no more than a counted body has.                        *)
CallTrue ==
    /\ call.op = "preload" => call.want = body.remaining
    /\ call.op \in {"xsgetn", "seek"} =>
         /\ area = <<>> /\ gptr = 0 /\ call.want > 0
         /\ ~body.chunked => call.want <= body.remaining
    /\ phase # "open" => gptr = 0 /\ call = None

IInv ==
    /\ TypeOK /\ BodyTrue(body)
    /\ phase = "open" => InOrder
    /\ CallTrue
    /\ BufferFits

(* Whoever was told of the end is at the end.                               *)
EofTrue == eof /\ body.whole => ~body.chunked /\ body.remaining = 0 /\ call = None

-----------------------------------------------------------------------------
(* Lemmas about sequences of tokens.                                        *)

(* What is left when the first n are taken.                                 *)
LEMMA WithoutIs ==
    ASSUME NEW S, NEW s \in Seq(S), NEW n \in Nat, n <= Len(s)
    PROVE  /\ Without(s, n) \in Seq(S) /\ Len(Without(s, n)) = Len(s) - n
           /\ \A i \in 1 .. Len(s) - n : Without(s, n)[i] = s[n + i]
<1>1. Len(s) \in Nat
  BY LenProperties
<1>2. \A i \in n + 1 .. Len(s) : s[i] \in S
  BY <1>1, ElementOfSeq
<1>3. PICK m \in Int : m = n + 1
  OBVIOUS
<1>4. /\ SubSeq(s, m, Len(s)) \in Seq(S)
      /\ Len(SubSeq(s, m, Len(s))) = IF m <= Len(s) THEN Len(s) - m + 1 ELSE 0
      /\ \A i \in 1 .. Len(s) - m + 1 : SubSeq(s, m, Len(s))[i] = s[m + i - 1]
  BY <1>1, <1>2, <1>3, SubSeqProperties
<1>5. Len(SubSeq(s, m, Len(s))) = Len(s) - n
  BY <1>1, <1>3, <1>4
<1>6. \A i \in 1 .. Len(s) - n : SubSeq(s, m, Len(s))[i] = s[n + i]
  <2>1. \A i \in 1 .. Len(s) - n : i \in 1 .. Len(s) - m + 1 /\ m + i - 1 = n + i
    BY <1>1, <1>3
  <2> QED
    BY <1>4, <2>1
<1> QED
  BY <1>3, <1>4, <1>5, <1>6 DEF Without

(* Nothing is left when more than all are taken.                            *)
LEMMA WithoutAll ==
    ASSUME NEW S, NEW s \in Seq(S), NEW n \in Nat, n >= Len(s)
    PROVE  Without(s, n) = <<>>
<1>1. Len(s) \in Nat
  BY LenProperties
<1>2. PICK m \in Int : m = n + 1
  OBVIOUS
<1>3. SubSeq(s, m, Len(s)) = <<>>
  BY <1>1, <1>2, SubSeqEmpty
<1> QED
  BY <1>2, <1>3 DEF Without

(* Taking twice is taking the sum.                                          *)
LEMMA WithoutTwice ==
    ASSUME NEW S, NEW s \in Seq(S), NEW n \in Nat, NEW m \in Nat, n + m <= Len(s)
    PROVE  Without(Without(s, n), m) = Without(s, n + m)
<1>1. Len(s) \in Nat
  BY LenProperties
<1>2. /\ Without(s, n) \in Seq(S) /\ Len(Without(s, n)) = Len(s) - n
      /\ \A i \in 1 .. Len(s) - n : Without(s, n)[i] = s[n + i]
  <2>1. n <= Len(s)
    BY <1>1
  <2> QED
    BY <2>1, WithoutIs
<1>3. PICK u \in Seq(S) : u = Without(s, n)
  BY <1>2
<1>4. /\ Without(u, m) \in Seq(S) /\ Len(Without(u, m)) = Len(u) - m
      /\ \A i \in 1 .. Len(u) - m : Without(u, m)[i] = u[m + i]
  <2>1. m <= Len(u)
    BY <1>1, <1>2, <1>3
  <2> QED
    BY <2>1, WithoutIs
<1>5. PICK k \in Nat : k = n + m
  OBVIOUS
<1>6. /\ Without(s, k) \in Seq(S) /\ Len(Without(s, k)) = Len(s) - k
      /\ \A i \in 1 .. Len(s) - k : Without(s, k)[i] = s[k + i]
  BY <1>1, <1>5, WithoutIs
<1>7. Len(Without(u, m)) = Len(Without(s, k))
  <2>1. Len(u) = Len(s) - n /\ Len(Without(u, m)) = Len(u) - m /\ Len(Without(s, k)) = Len(s) - k
    BY <1>2, <1>3, <1>4, <1>6
  <2>2. (Len(s) - n) - m = Len(s) - k
    BY <1>1, <1>5
  <2> QED
    BY <2>1, <2>2
<1>8. ASSUME NEW i \in 1 .. Len(s) - k PROVE Without(u, m)[i] = Without(s, k)[i]
  <2>1. i \in 1 .. Len(u) - m /\ m + i \in 1 .. Len(s) - n /\ n + (m + i) = k + i
    BY <1>1, <1>2, <1>3, <1>5
  <2>2. Without(u, m)[i] = u[m + i] /\ u[m + i] = s[n + (m + i)]
    BY <1>2, <1>3, <1>4, <2>1
  <2> QED
    BY <1>6, <2>1, <2>2
<1>9. \A i \in 1 .. Len(Without(u, m)) : Without(u, m)[i] = Without(s, k)[i]
  BY <1>6, <1>7, <1>8
<1>10. Without(u, m) = Without(s, k)
  BY <1>4, <1>6, <1>7, <1>9, SeqEqual
<1> QED
  BY <1>3, <1>5, <1>10

-----------------------------------------------------------------------------
(* Lemmas about the numbers of the bytes.                                   *)

(* A set whose elements are numbered from p + 1 to q has q - p elements.    *)
LEMMA CountedSet ==
    ASSUME NEW A, NEW p \in Int, NEW q \in Int, NEW f \in [A -> Int],
           \A a, b \in A : f[a] = f[b] => a = b,
           {f[a] : a \in A} = p + 1 .. q
    PROVE  IsFiniteSet(A) /\ Cardinality(A) = IF p < q THEN q - p ELSE 0
<1>1. f \in [A -> p + 1 .. q]
  OBVIOUS
<1>2. \A n \in p + 1 .. q : \E a \in A : f[a] = n
  OBVIOUS
<1>3. f \in Bijection(A, p + 1 .. q)
  BY <1>1, <1>2, Fun_IsBij
<1>4. ExistsBijection(A, p + 1 .. q)
  BY <1>3, Fun_ExistsBij
<1>5. ExistsBijection(p + 1 .. q, A)
  BY <1>4, Fun_ExistsBijSymmetric
<1>6. PICK r \in Int : r = p + 1
  OBVIOUS
<1>7. IsFiniteSet(r .. q) /\ Cardinality(r .. q) = IF r > q THEN 0 ELSE q - r + 1
  BY <1>6, FS_Interval
<1>8. IsFiniteSet(A) /\ Cardinality(A) = Cardinality(r .. q)
  BY <1>5, <1>6, <1>7, FS_Bijection
<1>9. Cardinality(A) = IF p < q THEN q - p ELSE 0
  BY <1>6, <1>7, <1>8
<1> QED
  BY <1>8, <1>9

(* The parts of Numbered, place by place.                                   *)
LEMMA NumberedIs ==
    ASSUME NEW s \in Seq(Token), NEW p \in Nat, NEW q \in Nat
    PROVE  Numbered(s, p, q) <=>
             /\ \A i \in 1 .. Len(s) : s[i].kind = "byte" => s[i].n \in p + 1 .. q
             /\ \A m \in p + 1 .. q : \E i \in 1 .. Len(s) : s[i].kind = "byte" /\ s[i].n = m
             /\ \A i, j \in 1 .. Len(s) :
                  s[i].kind = "byte" /\ s[j].kind = "byte" /\ i < j => s[i].n < s[j].n
<1>1. DOMAIN s = 1 .. Len(s)
  BY LenProperties
<1>2. {s[i].n : i \in {i \in 1 .. Len(s) : s[i].kind = "byte"}} = p + 1 .. q
        <=> /\ \A i \in 1 .. Len(s) : s[i].kind = "byte" => s[i].n \in p + 1 .. q
            /\ \A m \in p + 1 .. q : \E i \in 1 .. Len(s) : s[i].kind = "byte" /\ s[i].n = m
  OBVIOUS
<1>3. (\A i, j \in {i \in 1 .. Len(s) : s[i].kind = "byte"} : i < j => s[i].n < s[j].n)
        <=> \A i, j \in 1 .. Len(s) :
              s[i].kind = "byte" /\ s[j].kind = "byte" /\ i < j => s[i].n < s[j].n
  OBVIOUS
<1> QED
  BY <1>1, <1>2, <1>3 DEF Numbered

(* An element of a sequence of tokens is a token.                           *)
LEMMA TokenAt ==
    ASSUME NEW s \in Seq(Token), NEW i \in 1 .. Len(s)
    PROVE  /\ s[i].kind \in {"size", "byte", "crlf", "last", "trailers", "junk", "other"}
           /\ s[i].n \in Nat
<1>1. s[i] \in Token
  BY ElementOfSeq
<1> QED
  BY <1>1 DEF Token

(* Where only bytes come first they are numbered without a gap.             *)
LEMMA NumberedFirst ==
    ASSUME NEW s \in Seq(Token), NEW p \in Nat, NEW q \in Nat, Numbered(s, p, q),
           NEW i \in 1 .. Len(s), \A j \in 1 .. i : s[j].kind = "byte"
    PROVE  s[i].n = p + i
<1>1. Len(s) \in Nat
  BY LenProperties
<1>2. PICK f : f = [j \in 1 .. i |-> s[j].n]
  OBVIOUS
<1>3. \A j \in 1 .. i : j \in 1 .. Len(s)
  BY <1>1
<1>4. \A j \in 1 .. i : s[j].n \in Nat
  BY <1>3, TokenAt
<1>5. f \in [1 .. i -> Int]
  BY <1>2, <1>4
<1>6. /\ \A a \in 1 .. Len(s) : s[a].kind = "byte" => s[a].n \in p + 1 .. q
      /\ \A m \in p + 1 .. q : \E a \in 1 .. Len(s) : s[a].kind = "byte" /\ s[a].n = m
      /\ \A a, b \in 1 .. Len(s) :
           s[a].kind = "byte" /\ s[b].kind = "byte" /\ a < b => s[a].n < s[b].n
  BY NumberedIs
<1>7. ASSUME NEW a \in 1 .. i, NEW b \in 1 .. i, f[a] = f[b]
      PROVE  a = b
  <2>1. s[a].n = s[b].n
    BY <1>2, <1>7
  <2>2. ~ a < b /\ ~ b < a
    BY <1>3, <1>4, <1>6, <2>1
  <2> QED
    BY <2>2
<1>8. PICK r \in Nat : r = s[i].n
  BY <1>4
<1>9. {f[a] : a \in 1 .. i} = p + 1 .. r
  <2>1. ASSUME NEW a \in 1 .. i PROVE f[a] \in p + 1 .. r
    <3>1. s[a].n \in p + 1 .. q
      BY <1>3, <1>6
    <3>2. a < i => s[a].n < s[i].n
      BY <1>3, <1>6
    <3>3. s[a].n <= r
      <4>1. CASE a < i
        BY <1>4, <1>8, <3>2, <4>1
      <4>2. CASE a = i
        BY <1>8, <4>2
      <4> QED
        BY <4>1, <4>2
    <3> QED
      BY <1>2, <3>1, <3>3
  <2>2. ASSUME NEW m \in p + 1 .. r PROVE \E a \in 1 .. i : f[a] = m
    <3>1. r \in p + 1 .. q
      BY <1>3, <1>6, <1>8
    <3>2. m \in p + 1 .. q /\ m <= r
      BY <3>1
    <3>3. PICK a \in 1 .. Len(s) : s[a].kind = "byte" /\ s[a].n = m
      BY <1>6, <3>2
    <3>4. ~ i < a
      <4>1. i < a => s[i].n < s[a].n
        BY <1>3, <1>6, <3>3
      <4> QED
        BY <1>8, <3>2, <3>3, <4>1
    <3>5. a \in 1 .. i
      BY <3>4
    <3> QED
      BY <1>2, <3>3, <3>5
  <2> QED
    BY <2>1, <2>2
<1>10. Cardinality(1 .. i) = IF p < r THEN r - p ELSE 0
  <2>1. p \in Int /\ r \in Int /\ \A a, b \in 1 .. i : f[a] = f[b] => a = b
    BY <1>7
  <2> QED
    BY <1>5, <1>9, <2>1, CountedSet
<1>11. Cardinality(1 .. i) = i
  <2>1. i \in Int /\ 1 \in Int /\ ~ 1 > i
    OBVIOUS
  <2>2. Cardinality(1 .. i) = IF 1 > i THEN 0 ELSE i - 1 + 1
    BY <2>1, FS_Interval
  <2> QED
    BY <2>1, <2>2
<1> QED
  BY <1>8, <1>10, <1>11

(* Dropping tokens up to byte r.                                            *)
LEMMA NumberedDrop ==
    ASSUME NEW s \in Seq(Token), NEW p \in Nat, NEW q \in Nat, Numbered(s, p, q),
           NEW k \in Nat, k <= Len(s), NEW r \in Nat, p <= r,
           \A i \in 1 .. k : s[i].kind = "byte" => s[i].n <= r,
           \A i \in k + 1 .. Len(s) : s[i].kind = "byte" => s[i].n > r
    PROVE  Numbered(Without(s, k), r, q)
<1>1. Len(s) \in Nat
  BY LenProperties
<1>2. PICK t \in Seq(Token) : /\ t = Without(s, k) /\ Len(t) = Len(s) - k
                              /\ \A i \in 1 .. Len(s) - k : t[i] = s[k + i]
  BY WithoutIs
<1>3. /\ \A a \in 1 .. Len(s) : s[a].kind = "byte" => s[a].n \in p + 1 .. q
      /\ \A m \in p + 1 .. q : \E a \in 1 .. Len(s) : s[a].kind = "byte" /\ s[a].n = m
      /\ \A a, b \in 1 .. Len(s) :
           s[a].kind = "byte" /\ s[b].kind = "byte" /\ a < b => s[a].n < s[b].n
  BY NumberedIs
<1>4. ASSUME NEW i \in 1 .. Len(t) PROVE k + i \in 1 .. Len(s) /\ k + i \in k + 1 .. Len(s) /\ t[i] = s[k + i]
  BY <1>1, <1>2
<1>5. ASSUME NEW i \in 1 .. Len(t), t[i].kind = "byte" PROVE t[i].n \in r + 1 .. q
  <2>1. PICK a \in k + 1 .. Len(s) : a = k + i /\ a \in 1 .. Len(s) /\ t[i] = s[a]
    BY <1>4
  <2>2. s[a].kind = "byte"
    BY <1>5, <2>1
  <2>3. s[a].n > r /\ s[a].n \in p + 1 .. q
    BY <1>3, <2>1, <2>2
  <2> QED
    BY <2>1, <2>3
<1>6. ASSUME NEW m \in r + 1 .. q PROVE \E i \in 1 .. Len(t) : t[i].kind = "byte" /\ t[i].n = m
  <2>1. m \in p + 1 .. q /\ ~ m <= r
    OBVIOUS
  <2>2. PICK a \in 1 .. Len(s) : s[a].kind = "byte" /\ s[a].n = m
    BY <1>3, <2>1
  <2>3. ~ a \in 1 .. k
    BY <2>1, <2>2
  <2>4. a - k \in 1 .. Len(t) /\ k + (a - k) = a
    BY <1>1, <1>2, <2>3
  <2>5. t[a - k] = s[a]
    BY <1>4, <2>4
  <2> QED
    BY <2>2, <2>4, <2>5
<1>7. ASSUME NEW i \in 1 .. Len(t), NEW j \in 1 .. Len(t),
             t[i].kind = "byte", t[j].kind = "byte", i < j
      PROVE  t[i].n < t[j].n
  <2>1. PICK a \in 1 .. Len(s) : a = k + i /\ t[i] = s[a]
    BY <1>4
  <2>2. PICK b \in 1 .. Len(s) : b = k + j /\ t[j] = s[b]
    BY <1>4
  <2>3. a < b
    BY <1>1, <1>2, <1>7, <2>1, <2>2
  <2>4. s[a].kind = "byte" /\ s[b].kind = "byte"
    BY <1>7, <2>1, <2>2
  <2> QED
    BY <1>3, <2>1, <2>2, <2>3, <2>4
<1>8. Numbered(t, r, q)
  BY <1>5, <1>6, <1>7, NumberedIs
<1> QED
  BY <1>2, <1>8

(* Dropping tokens none of which is a byte.                                 *)
LEMMA NumberedSkip ==
    ASSUME NEW s \in Seq(Token), NEW p \in Nat, NEW q \in Nat, Numbered(s, p, q),
           NEW k \in Nat, k <= Len(s), \A i \in 1 .. k : s[i].kind # "byte"
    PROVE  Numbered(Without(s, k), p, q)
<1>1. Len(s) \in Nat
  BY LenProperties
<1>2. \A i \in 1 .. k : s[i].kind = "byte" => s[i].n <= p
  OBVIOUS
<1>3. \A i \in k + 1 .. Len(s) : s[i].kind = "byte" => s[i].n > p
  <2>1. \A a \in 1 .. Len(s) : s[a].kind = "byte" => s[a].n \in p + 1 .. q
    BY NumberedIs
  <2> QED
    BY <1>1, <2>1
<1>4. p <= p
  OBVIOUS
<1> QED
  BY <1>2, <1>3, <1>4, NumberedDrop

(* Taking bytes.                                                            *)
LEMMA NumberedTake ==
    ASSUME NEW s \in Seq(Token), NEW p \in Nat, NEW q \in Nat, Numbered(s, p, q),
           NEW k \in Nat, k <= Len(s), \A i \in 1 .. k : s[i].kind = "byte"
    PROVE  /\ Numbered(Without(s, k), p + k, q)
           /\ \A i \in 1 .. k : s[i].n = p + i
<1>1. Len(s) \in Nat
  BY LenProperties
<1>2. ASSUME NEW i \in 1 .. k PROVE s[i].n = p + i
  <2>1. i \in 1 .. Len(s) /\ \A j \in 1 .. i : s[j].kind = "byte"
    BY <1>1
  <2> QED
    BY <2>1, NumberedFirst
<1>3. PICK r \in Nat : r = p + k
  OBVIOUS
<1>4. \A i \in 1 .. k : s[i].kind = "byte" => s[i].n <= r
  BY <1>2, <1>3
<1>5. ASSUME NEW i \in k + 1 .. Len(s), s[i].kind = "byte" PROVE s[i].n > r
  <2>1. /\ \A a \in 1 .. Len(s) : s[a].kind = "byte" => s[a].n \in p + 1 .. q
        /\ \A a, b \in 1 .. Len(s) :
             s[a].kind = "byte" /\ s[b].kind = "byte" /\ a < b => s[a].n < s[b].n
    BY NumberedIs
  <2>2. i \in 1 .. Len(s)
    BY <1>1
  <2>3. CASE k = 0
    BY <1>3, <1>5, <2>1, <2>2, <2>3
  <2>4. CASE k > 0
    <3>1. k \in 1 .. k /\ k \in 1 .. Len(s) /\ k < i
      BY <1>1, <2>4
    <3>2. s[k].n = p + k /\ s[k].kind = "byte"
      BY <1>2, <3>1
    <3>3. s[k].n < s[i].n
      BY <1>5, <2>1, <2>2, <3>1, <3>2
    <3>4. s[i].n \in p + 1 .. q
      BY <1>5, <2>1, <2>2
    <3> QED
      BY <1>3, <3>2, <3>3, <3>4
  <2> QED
    BY <2>3, <2>4
<1>6. p <= r
  BY <1>3
<1>7. Numbered(Without(s, k), r, q)
  BY <1>4, <1>5, <1>6, NumberedDrop
<1> QED
  BY <1>2, <1>3, <1>7

(* The numbers of the bytes are those behind p, as many as there are bytes. *)
LEMMA NumberedCount ==
    ASSUME NEW s \in Seq(Token), NEW p \in Nat, NEW q \in Nat, Numbered(s, p, q)
    PROVE  {s[i].n : i \in {j \in DOMAIN s : s[j].kind = "byte"}} = p + 1 .. p + BytesIn(s)
<1>1. Len(s) \in Nat /\ DOMAIN s = 1 .. Len(s)
  BY LenProperties
<1>2. PICK A : A = {i \in DOMAIN s : s[i].kind = "byte"}
  OBVIOUS
<1>3. PICK f : f = [a \in A |-> s[a].n]
  OBVIOUS
<1>4. \A a \in A : a \in 1 .. Len(s) /\ s[a].kind = "byte"
  BY <1>1, <1>2
<1>5. \A a \in A : s[a].n \in Int
  BY <1>4, TokenAt
<1>6. f \in [A -> Int]
  BY <1>3, <1>5
<1>7. \A a, b \in 1 .. Len(s) :
        s[a].kind = "byte" /\ s[b].kind = "byte" /\ a < b => s[a].n < s[b].n
  BY NumberedIs
<1>8. ASSUME NEW a \in A, NEW b \in A, f[a] = f[b] PROVE a = b
  <2>1. s[a].n = s[b].n
    BY <1>3, <1>8
  <2>2. ~ a < b /\ ~ b < a
    BY <1>4, <1>5, <1>7, <2>1
  <2> QED
    BY <1>4, <2>2
<1>9. {s[i].n : i \in A} = p + 1 .. q
  BY <1>2 DEF Numbered
<1>10. {f[a] : a \in A} = p + 1 .. q
  BY <1>3, <1>9
<1>11. Cardinality(A) = IF p < q THEN q - p ELSE 0
  <2>1. p \in Int /\ q \in Int /\ \A a, b \in A : f[a] = f[b] => a = b
    BY <1>8
  <2> QED
    BY <1>6, <1>10, <2>1, CountedSet
<1>12. Cardinality(A) = BytesIn(s)
  BY <1>2 DEF BytesIn
<1>13. p + 1 .. p + BytesIn(s) = p + 1 .. q
  BY <1>11, <1>12
<1> QED
  BY <1>2, <1>9, <1>13

-----------------------------------------------------------------------------
(* Lemmas about bodies: what taking bytes and what the next chunk leave.    *)

(* The fields of a body.                                                    *)
LEMMA BodyFields ==
    ASSUME NEW b, b \in BodyType
    PROVE  /\ b.remaining \in Nat /\ b.chunked \in BOOLEAN /\ b.firstChunk \in BOOLEAN
           /\ b.whole \in BOOLEAN /\ b.failed \in BOOLEAN /\ b.input \in Seq(Token)
           /\ Len(b.input) \in Nat /\ DOMAIN b.input = 1 .. Len(b.input)
<1>1. b.input \in Seq(Token)
  BY DEF BodyType
<1>2. Len(b.input) \in Nat /\ DOMAIN b.input = 1 .. Len(b.input)
  BY <1>1, LenProperties
<1>3. /\ b.remaining \in Nat /\ b.chunked \in BOOLEAN /\ b.firstChunk \in BOOLEAN
      /\ b.whole \in BOOLEAN /\ b.failed \in BOOLEAN
  BY DEF BodyType
<1> QED
  BY <1>1, <1>2, <1>3

(* Taking nothing.                                                          *)
LEMMA WithoutNone ==
    ASSUME NEW S, NEW s \in Seq(S)
    PROVE  Without(s, 0) = s
<1>1. Len(s) \in Nat
  BY LenProperties
<1>2. 0 \in Nat /\ 0 <= Len(s)
  BY <1>1
<1>3. /\ Without(s, 0) \in Seq(S) /\ Len(Without(s, 0)) = Len(s) - 0
      /\ \A i \in 1 .. Len(s) - 0 : Without(s, 0)[i] = s[0 + i]
  BY <1>2, WithoutIs
<1>4. Len(Without(s, 0)) = Len(s) /\ \A i \in 1 .. Len(Without(s, 0)) : Without(s, 0)[i] = s[i]
  BY <1>1, <1>3
<1> QED
  BY <1>3, <1>4, SeqEqual

(* The chunks of a rest are those of the whole.                             *)
LEMMA ChunksWithout ==
    ASSUME NEW s \in Seq(Token), NEW k \in Nat, k <= Len(s), Chunks(s)
    PROVE  Chunks(Without(s, k))
<1>1. Len(s) \in Nat /\ DOMAIN s = 1 .. Len(s)
  BY LenProperties
<1>2. PICK t \in Seq(Token) : /\ t = Without(s, k) /\ Len(t) = Len(s) - k
                              /\ \A i \in 1 .. Len(s) - k : t[i] = s[k + i]
  BY WithoutIs
<1>3. DOMAIN t = 1 .. Len(t)
  BY LenProperties
<1>4. ASSUME NEW i \in DOMAIN t, NEW j \in DOMAIN t
      PROVE  /\ t[i].kind = "size" => t[i].n > 0
             /\ t[i].kind = "size" /\ j \in i + 1 .. i + t[i].n => t[j].kind = "byte"
             /\ t[i].kind = "size" /\ j = i + t[i].n + 1 => t[j].kind = "crlf"
             /\ t[i].kind = "crlf" /\ j = i + 1 => t[j].kind \in {"size", "last", "junk"}
             /\ t[i].kind = "last" /\ j = i + 1 => t[j].kind = "trailers"
  <2>1. PICK a \in DOMAIN s : a = k + i /\ t[i] = s[a]
    BY <1>1, <1>2, <1>3
  <2>2. PICK d \in DOMAIN s : d = k + j /\ t[j] = s[d]
    BY <1>1, <1>2, <1>3
  <2>3. /\ s[a].kind = "size" => s[a].n > 0
        /\ s[a].kind = "size" /\ d \in a + 1 .. a + s[a].n => s[d].kind = "byte"
        /\ s[a].kind = "size" /\ d = a + s[a].n + 1 => s[d].kind = "crlf"
        /\ s[a].kind = "crlf" /\ d = a + 1 => s[d].kind \in {"size", "last", "junk"}
        /\ s[a].kind = "last" /\ d = a + 1 => s[d].kind = "trailers"
    BY DEF Chunks
  <2>4. PICK n \in Nat : n = s[a].n
    BY <1>1, TokenAt
  <2>5. i \in Nat /\ j \in Nat /\ a \in Nat /\ d \in Nat /\ a = k + i /\ d = k + j
    BY <1>1, <1>3, <2>1, <2>2
  <2>6. /\ j \in i + 1 .. i + n => k + j \in (k + i) + 1 .. (k + i) + n
        /\ j = i + n + 1 => k + j = (k + i) + n + 1
        /\ j = i + 1 => k + j = (k + i) + 1
    <3>1. i \in Nat
      BY <2>5
    <3>2. j \in Nat
      BY <2>5
    <3>3. j \in i + 1 .. i + n => k + j \in (k + i) + 1 .. (k + i) + n
      BY <3>1, <3>2
    <3>4. j = i + n + 1 => k + j = (k + i) + n + 1
      BY <3>1, <3>2
    <3>5. j = i + 1 => k + j = (k + i) + 1
      BY <3>1, <3>2
    <3> QED
      BY <3>3, <3>4, <3>5
  <2>7. /\ j \in i + 1 .. i + n => d \in a + 1 .. a + n
        /\ j = i + n + 1 => d = a + n + 1
        /\ j = i + 1 => d = a + 1
    BY <2>5, <2>6, Zenon
  <2> QED
    BY <2>1, <2>2, <2>3, <2>4, <2>7
<1>5. Chunks(t)
  BY <1>4 DEF Chunks
<1> QED
  BY <1>2, <1>5

(* What is behind a body stays behind it while no more than the body is     *)
(* taken.                                                                   *)
LEMMA WholeWithout ==
    ASSUME NEW s \in Seq(Token), NEW k \in Nat, k <= Len(s) - 3, EndsWhole(s),
           NEW t \in Seq(Token), t = Without(s, k)
    PROVE  /\ EndsWhole(t)
           /\ Closed(s, Len(s) - 3) => Closed(t, Len(t) - 3)
<1>1. Len(s) \in Nat /\ DOMAIN s = 1 .. Len(s) /\ DOMAIN t = 1 .. Len(t)
  BY LenProperties
<1>2. k <= Len(s)
  BY <1>1
<1>3. Len(t) = Len(s) - k /\ \A i \in 1 .. Len(s) - k : t[i] = s[k + i]
  BY <1>2, WithoutIs
<1>4. Len(t) >= 3
  BY <1>1, <1>3
<1>5. ASSUME NEW i \in 1 .. 3 PROVE t[Len(t) - 3 + i] = Other(i)
  <2>1. Len(t) - 3 + i \in 1 .. Len(s) - k /\ k + (Len(t) - 3 + i) = Len(s) - 3 + i
    BY <1>1, <1>3, <1>4
  <2>2. t[Len(t) - 3 + i] = s[k + (Len(t) - 3 + i)]
    BY <1>3, <2>1
  <2> QED
    BY <2>1, <2>2 DEF EndsWhole
<1>6. ASSUME NEW i \in DOMAIN t PROVE \E a \in DOMAIN s : a = k + i /\ t[i] = s[a]
  BY <1>1, <1>3
<1>7. \A i \in DOMAIN t : t[i].kind # "junk"
  BY <1>6 DEF EndsWhole
<1>8. ASSUME Closed(s, Len(s) - 3) PROVE Closed(t, Len(t) - 3)
  <2>1. ASSUME NEW i \in DOMAIN t
        PROVE  /\ t[i].kind = "size" => i + t[i].n < Len(t) - 3
               /\ t[i].kind = "crlf" => i < Len(t) - 3
               /\ t[i].kind = "last" => i + 1 = Len(t) - 3
    <3>1. PICK a \in DOMAIN s : a = k + i /\ t[i] = s[a]
      BY <1>6
    <3>2. PICK n \in Nat : n = s[a].n
      BY <1>1, TokenAt
    <3>3. /\ s[a].kind = "size" => a + n < Len(s) - 3
          /\ s[a].kind = "crlf" => a < Len(s) - 3
          /\ s[a].kind = "last" => a + 1 = Len(s) - 3
      BY <1>8, <3>2 DEF Closed
    <3>4. PICK l \in Nat : l = Len(s)
      BY <1>1
    <3>5. i \in Nat /\ a \in Nat /\ a = k + i /\ Len(t) \in Nat /\ Len(t) = l - k
      BY <1>1, <1>3, <3>1, <3>4
    <3>6. /\ a + n < Len(s) - 3 => i + n < Len(t) - 3
          /\ a < Len(s) - 3 => i < Len(t) - 3
          /\ a + 1 = Len(s) - 3 => i + 1 = Len(t) - 3
      <4>1. /\ (k + i) + n < l - 3 => i + n < (l - k) - 3
            /\ k + i < l - 3 => i < (l - k) - 3
            /\ (k + i) + 1 = l - 3 => i + 1 = (l - k) - 3
        <5>1. i \in Nat
          BY <3>5
        <5>2. (k + i) + n < l - 3 => i + n < (l - k) - 3
          BY <5>1
        <5>3. k + i < l - 3 => i < (l - k) - 3
          BY <5>1
        <5>4. (k + i) + 1 = l - 3 => i + 1 = (l - k) - 3
          BY <5>1
        <5> QED
          BY <5>2, <5>3, <5>4
      <4> QED
        BY <3>4, <3>5, <4>1, Zenon
    <3> QED
      BY <3>1, <3>2, <3>3, <3>6
  <2> QED
    BY <2>1 DEF Closed
<1> QED
  BY <1>4, <1>5, <1>7, <1>8 DEF EndsWhole

(* sgetn() of no more than what remains leaves a body in order.             *)
LEMMA TakenKeeps ==
    ASSUME NEW b, BodyTrue(b), NEW k \in Nat, k <= b.remaining, k <= Len(b.input),
           NEW c, c = Taken(b, k)
    PROVE  /\ BodyTrue(c) /\ c.whole = b.whole /\ c.chunked = b.chunked
           /\ c.remaining = b.remaining - k /\ c.input = Without(b.input, k)
           /\ \A j \in 1 .. k : b.input[j].kind = "byte"
<1>1. b \in BodyType /\ InputTrue(b) /\ (b.whole => WholeInput(b))
  BY DEF BodyTrue
<1>2. /\ b.remaining \in Nat /\ b.chunked \in BOOLEAN /\ b.firstChunk \in BOOLEAN
      /\ b.whole \in BOOLEAN /\ b.failed \in BOOLEAN /\ b.input \in Seq(Token)
      /\ Len(b.input) \in Nat /\ DOMAIN b.input = 1 .. Len(b.input)
  BY <1>1, BodyFields
<1>3. PICK s \in Seq(Token) : s = b.input
  BY <1>2
<1>4. PICK t \in Seq(Token) : /\ t = Without(s, k) /\ Len(t) = Len(s) - k
                              /\ \A i \in 1 .. Len(s) - k : t[i] = s[k + i]
  <2>1. k <= Len(s)
    BY <1>3
  <2> QED
    BY <2>1, WithoutIs
<1>5. PICK r \in Nat : r = b.remaining - k
  BY <1>2
<1>6. c = [b EXCEPT !.remaining = r, !.input = t]
  BY <1>3, <1>4, <1>5 DEF Taken
<1>7. /\ c \in BodyType /\ c.remaining = r /\ c.input = t /\ c.chunked = b.chunked
      /\ c.firstChunk = b.firstChunk /\ c.whole = b.whole
  BY <1>1, <1>6 DEF BodyType
<1>8. /\ b.firstChunk => b.chunked /\ b.remaining = 0
      /\ \A j \in 1 .. b.remaining : j <= Len(s) => s[j].kind = "byte"
      /\ b.chunked => Chunks(s)
      /\ b.chunked /\ b.remaining < Len(s) =>
           s[b.remaining + 1].kind
             \in IF b.firstChunk THEN {"size", "last", "junk"} ELSE {"crlf"}
  BY <1>1, <1>3 DEF InputTrue
<1>9. InputTrue(c)
  <2>1. c.firstChunk => c.chunked /\ c.remaining = 0
    BY <1>2, <1>5, <1>7, <1>8
  <2>2. ASSUME NEW j \in 1 .. r, j <= Len(t) PROVE t[j].kind = "byte"
    <3>1. k + j \in 1 .. b.remaining /\ k + j <= Len(s) /\ j \in 1 .. Len(s) - k
      BY <1>2, <1>3, <1>4, <1>5, <2>2
    <3> QED
      BY <1>4, <1>8, <3>1
  <2>3. c.chunked => Chunks(t)
    BY <1>3, <1>4, <1>7, <1>8, ChunksWithout
  <2>4. ASSUME c.chunked, r < Len(t)
        PROVE  t[r + 1].kind \in IF c.firstChunk THEN {"size", "last", "junk"} ELSE {"crlf"}
    <3>1. b.remaining < Len(s) /\ r + 1 \in 1 .. Len(s) - k /\ k + (r + 1) = b.remaining + 1
      <4>1. PICK m \in Nat, l \in Nat : m = b.remaining /\ l = Len(s)
        BY <1>2, <1>3
      <4>2. r = m - k /\ Len(t) = l - k
        BY <1>4, <1>5, <4>1
      <4>3. r < l - k
        BY <2>4, <4>2
      <4>4. m < l /\ r + 1 \in 1 .. l - k /\ k + (r + 1) = m + 1
        BY <4>2, <4>3
      <4> QED
        BY <4>1, <4>4
    <3>2. t[r + 1] = s[b.remaining + 1]
      BY <1>4, <3>1
    <3> QED
      BY <1>7, <1>8, <2>4, <3>1, <3>2
  <2> QED
    BY <1>7, <2>1, <2>2, <2>3, <2>4 DEF InputTrue
<1>10. ASSUME b.whole PROVE WholeInput(c)
  <2>1. /\ EndsWhole(s) /\ Len(s) >= 3
        /\ b.chunked => Closed(s, Len(s) - 3) /\ b.remaining < Len(s) - 3
        /\ ~b.chunked => Len(s) = b.remaining + 3
    BY <1>1, <1>3, <1>10 DEF WholeInput, EndsWhole
  <2>2. k <= Len(s) - 3
    BY <1>2, <1>3, <2>1
  <2>3. /\ EndsWhole(t)
        /\ Closed(s, Len(s) - 3) => Closed(t, Len(t) - 3)
    BY <1>4, <2>1, <2>2, WholeWithout
  <2>4. /\ c.chunked => r < Len(t) - 3
        /\ ~c.chunked => Len(t) = r + 3
    <3>1. PICK m \in Nat, l \in Nat : m = b.remaining /\ l = Len(s)
      BY <1>2, <1>3
    <3>2. r = m - k /\ Len(t) = l - k
      BY <1>4, <1>5, <3>1
    <3>3. (b.chunked => m < l - 3) /\ (~b.chunked => l = m + 3)
      BY <2>1, <3>1
    <3>4. (b.chunked => r < Len(t) - 3) /\ (~b.chunked => Len(t) = r + 3)
      <4>1. (m < l - 3 => r < (l - k) - 3) /\ (l = m + 3 => (l - k) = r + 3)
        BY <3>2
      <4> QED
        BY <3>2, <3>3, <4>1
    <3> QED
      BY <1>7, <3>4
  <2> QED
    BY <1>7, <2>1, <2>3, <2>4 DEF WholeInput
<1>11. BodyTrue(c)
  BY <1>7, <1>9, <1>10 DEF BodyTrue
<1>12. \A j \in 1 .. k : s[j].kind = "byte"
  BY <1>2, <1>3, <1>8
<1> QED
  BY <1>3, <1>4, <1>5, <1>7, <1>11, <1>12

(* Where getNextChunk() looks for a size: behind the end of the chunk, or   *)
(* at the start of the body.                                                *)
LEMMA AtSize ==
    ASSUME NEW b, BodyTrue(b), b.chunked, b.remaining = 0, b.input # <<>>
    PROVE  \E k \in 0 .. 1 :
             /\ k <= Len(b.input) /\ (b.whole => k < Len(b.input) - 3)
             /\ \A i \in 1 .. k : b.input[i].kind = "crlf"
             /\ (IF b.firstChunk THEN b.input ELSE Without(b.input, 1)) = Without(b.input, k)
             /\ b.firstChunk \/ Starts(b.input, "crlf")
             /\ k < Len(b.input) => b.input[k + 1].kind \in {"size", "last", "junk"}
<1>1. b \in BodyType /\ InputTrue(b) /\ (b.whole => WholeInput(b))
  BY DEF BodyTrue
<1>2. /\ b.remaining \in Nat /\ b.chunked \in BOOLEAN /\ b.firstChunk \in BOOLEAN
      /\ b.whole \in BOOLEAN /\ b.failed \in BOOLEAN /\ b.input \in Seq(Token)
      /\ Len(b.input) \in Nat /\ DOMAIN b.input = 1 .. Len(b.input)
  BY <1>1, BodyFields
<1>3. PICK s \in Seq(Token) : s = b.input
  BY <1>2
<1>4. Len(s) > 0 /\ 1 \in DOMAIN s
  BY <1>2, <1>3, EmptySeq, SeqEqual
<1>5. s[1].kind \in IF b.firstChunk THEN {"size", "last", "junk"} ELSE {"crlf"}
  <2>1. b.remaining < Len(s) /\ b.remaining + 1 = 1
    BY <1>4
  <2>2. b.chunked /\ b.remaining < Len(s) =>
           s[b.remaining + 1].kind
             \in IF b.firstChunk THEN {"size", "last", "junk"} ELSE {"crlf"}
    BY <1>1, <1>3 DEF InputTrue
  <2> QED
    BY <2>1, <2>2
<1>6. b.whole => Closed(s, Len(s) - 3) /\ 0 < Len(s) - 3
  BY <1>1, <1>3 DEF WholeInput
<1>7. CASE b.firstChunk
  <2>1. s = Without(s, 0)
    BY WithoutNone
  <2> QED
    BY <1>2, <1>3, <1>4, <1>5, <1>6, <1>7, <2>1
<1>8. CASE ~b.firstChunk
  <2>1. s[1].kind = "crlf"
    BY <1>5, <1>8
  <2>2. Starts(s, "crlf")
    BY <1>3, <2>1 DEF Starts
  <2>3. b.whole => 1 < Len(s) - 3
    BY <1>4, <1>6, <2>1 DEF Closed
  <2>4. ASSUME 1 < Len(s) PROVE s[1 + 1].kind \in {"size", "last", "junk"}
    <3>1. 1 + 1 \in DOMAIN s /\ 1 \in DOMAIN s
      BY <1>2, <1>3, <2>4
    <3>2. Chunks(s)
      BY <1>1, <1>3 DEF InputTrue
    <3> QED
      BY <2>1, <3>1, <3>2 DEF Chunks
  <2>5. 1 <= Len(s) /\ \A i \in 1 .. 1 : s[i].kind = "crlf"
    BY <1>2, <1>3, <1>4, <2>1
  <2> QED
    BY <1>3, <1>8, <2>2, <2>3, <2>4, <2>5
<1> QED
  BY <1>7, <1>8

(* getNextChunk() takes no byte of the body, keeps a body in order, and     *)
(* finds the bytes of a chunk or the end.                                   *)
LEMMA NextChunkKeeps ==
    ASSUME NEW b, BodyTrue(b), b.chunked, b.remaining = 0,
           NEW c, c = NextChunk(b)
    PROVE  /\ BodyTrue(c) /\ c.whole = b.whole
           /\ c.chunked <=> c.remaining > 0
           /\ \E k \in 0 .. Len(b.input) : /\ c.input = Without(b.input, k)
                                           /\ \A i \in 1 .. k : b.input[i].kind # "byte"
<1>1. b \in BodyType /\ InputTrue(b) /\ (b.whole => WholeInput(b))
  BY DEF BodyTrue
<1>2. /\ b.remaining \in Nat /\ b.chunked \in BOOLEAN /\ b.firstChunk \in BOOLEAN
      /\ b.whole \in BOOLEAN /\ b.failed \in BOOLEAN /\ b.input \in Seq(Token)
      /\ Len(b.input) \in Nat /\ DOMAIN b.input = 1 .. Len(b.input)
  BY <1>1, BodyFields
<1>3. PICK s \in Seq(Token) : s = b.input /\ Len(s) \in Nat /\ DOMAIN s = 1 .. Len(s)
  BY <1>2
<1>4. b.whole => EndsWhole(s) /\ Len(s) >= 3 /\ Closed(s, Len(s) - 3) /\ 0 < Len(s) - 3
  BY <1>1, <1>3 DEF WholeInput, EndsWhole
<1>5. Chunks(s)
  BY <1>1, <1>3 DEF InputTrue
(* A body that is at its end, or is given up.                               *)
<1>6. ASSUME c \in BodyType, ~c.chunked, ~c.firstChunk, c.remaining = 0, c.whole = b.whole,
             NEW k \in 0 .. Len(s), c.input = Without(s, k),
             \A i \in 1 .. k : s[i].kind # "byte", b.whole => k = Len(s) - 3
      PROVE  /\ BodyTrue(c) /\ c.whole = b.whole
             /\ c.chunked <=> c.remaining > 0
             /\ \E n \in 0 .. Len(b.input) : /\ c.input = Without(b.input, n)
                                             /\ \A i \in 1 .. n : b.input[i].kind # "byte"
  <2>1. InputTrue(c)
    BY <1>6 DEF InputTrue
  <2>2. ASSUME b.whole PROVE WholeInput(c)
    <3>1. PICK t \in Seq(Token) : t = c.input
      BY <1>6, BodyFields
    <3>2. k <= Len(s) - 3 /\ k <= Len(s) /\ k \in Nat
      BY <1>3, <1>6, <2>2
    <3>3. EndsWhole(t)
      BY <1>4, <1>6, <2>2, <3>1, <3>2, WholeWithout
    <3>4. Len(t) = Len(s) - k
      BY <1>6, <3>1, <3>2, WithoutIs
    <3>5. Len(t) = c.remaining + 3
      BY <1>3, <1>6, <2>2, <3>2, <3>4
    <3> QED
      BY <1>6, <3>1, <3>3, <3>5 DEF WholeInput
  <2>3. BodyTrue(c)
    BY <1>6, <2>1, <2>2 DEF BodyTrue
  <2> QED
    BY <1>3, <1>6, <2>3
<1>7. CASE s = <<>>
  <2>1. ~b.whole
    BY <1>4, <1>7, EmptySeq
  <2>2. Without(s, 1) = <<>> /\ Without(s, 2) = <<>> /\ Without(s, 0) = <<>> /\ Len(s) = 0
    <3>1. Len(s) = 0
      BY <1>7, EmptySeq
    <3>2. 1 \in Nat /\ 1 >= Len(s) /\ 2 \in Nat /\ 2 >= Len(s) /\ 0 \in Nat /\ 0 >= Len(s)
      BY <3>1
    <3> QED
      BY <3>1, <3>2, WithoutAll
  <2>3. ~Starts(s, "crlf") /\ ~Starts(s, "size") /\ ~Starts(s, "junk")
    BY <1>7 DEF Starts
  <2>4. CASE b.firstChunk
    <3>1. c = [b EXCEPT !.firstChunk = FALSE, !.chunked = FALSE, !.input = <<>>]
      BY <1>3, <1>7, <2>2, <2>3, <2>4 DEF NextChunk
    <3>2. c \in BodyType /\ ~c.chunked /\ ~c.firstChunk /\ c.remaining = 0 /\ c.whole = b.whole /\ c.input = <<>>
      BY <1>1, <3>1, EmptySeq DEF BodyType
    <3> QED
      BY <1>6, <2>1, <2>2, <3>2
  <2>5. CASE ~b.firstChunk
    <3>1. c = [b EXCEPT !.firstChunk = FALSE, !.chunked = FALSE, !.failed = TRUE, !.input = <<>>]
      BY <1>3, <1>7, <2>2, <2>3, <2>5 DEF NextChunk
    <3>2. c \in BodyType /\ ~c.chunked /\ ~c.firstChunk /\ c.remaining = 0 /\ c.whole = b.whole /\ c.input = <<>>
      BY <1>1, <3>1, EmptySeq DEF BodyType
    <3> QED
      BY <1>6, <2>1, <2>2, <3>2
  <2> QED
    BY <2>4, <2>5
<1>8. CASE s # <<>>
  <2>1. PICK k \in 0 .. 1 :
             /\ k <= Len(s) /\ (b.whole => k < Len(s) - 3)
             /\ \A i \in 1 .. k : s[i].kind = "crlf"
             /\ (IF b.firstChunk THEN b.input ELSE Without(b.input, 1)) = Without(s, k)
             /\ b.firstChunk \/ Starts(b.input, "crlf")
             /\ k < Len(s) => s[k + 1].kind \in {"size", "last", "junk"}
    BY <1>3, <1>8, AtSize
  <2>2. PICK t \in Seq(Token) : /\ t = Without(s, k) /\ Len(t) = Len(s) - k
                                /\ \A i \in 1 .. Len(s) - k : t[i] = s[k + i]
    BY <2>1, WithoutIs
  <2>3. c = CASE Starts(t, "size") ->
                   [b EXCEPT !.firstChunk = FALSE, !.remaining = Head(t).n, !.input = Without(t, 1)]
              [] ~Starts(t, "size") /\ Starts(t, "junk") ->
                   [b EXCEPT !.firstChunk = FALSE, !.chunked = FALSE, !.failed = TRUE,
                             !.input = Without(t, 1)]
              [] OTHER -> [b EXCEPT !.firstChunk = FALSE, !.chunked = FALSE,
                                    !.input = Without(t, 2)]
    BY <2>1, <2>2 DEF NextChunk, Starts
  <2>4. \A i \in 1 .. k : s[i].kind # "byte"
    BY <2>1
  <2>5. CASE t = <<>>
    <3>1. Len(t) = 0 /\ k = Len(s)
      BY <1>3, <2>1, <2>2, <2>5, EmptySeq
    <3>2. ~b.whole
      BY <1>3, <2>1, <3>1
    <3>3. Without(t, 2) = <<>>
      <4>1. 2 \in Nat /\ 2 >= Len(t)
        BY <3>1
      <4> QED
        BY <4>1, WithoutAll
    <3>4. c = [b EXCEPT !.firstChunk = FALSE, !.chunked = FALSE, !.input = <<>>]
      BY <2>3, <2>5, <3>3 DEF Starts
    <3>5. c \in BodyType /\ ~c.chunked /\ ~c.firstChunk /\ c.remaining = 0 /\ c.whole = b.whole /\ c.input = <<>>
      BY <1>1, <3>4, EmptySeq DEF BodyType
    <3>6. k \in 0 .. Len(s) /\ c.input = Without(s, k)
      BY <1>3, <2>1, <2>2, <2>5, <3>5
    <3> QED
      BY <1>6, <2>4, <3>2, <3>5, <3>6
  <2>6. CASE t # <<>>
    <3>1. Head(t) = t[1]
      BY <2>6
    <3>2. Len(t) \in Nat /\ Len(t) > 0 /\ DOMAIN t = 1 .. Len(t)
      BY <2>6, LenProperties, EmptySeq, SeqEqual
    <3>3. k \in Nat /\ k < Len(s) /\ k + 1 <= Len(s) /\ 1 <= Len(t) /\ k + 1 \in 0 .. Len(s)
      BY <1>3, <2>1, <2>2, <3>2
    <3>4. t[1] = s[k + 1]
      BY <2>2, <3>2
    <3>5. t[1].kind \in {"size", "last", "junk"} /\ t[1].n \in Nat
      BY <2>1, <3>2, <3>3, <3>4, TokenAt
    <3>6. PICK u \in Seq(Token) : /\ u = Without(t, 1) /\ Len(u) = Len(t) - 1
                                  /\ \A i \in 1 .. Len(t) - 1 : u[i] = t[1 + i]
      BY <3>3, WithoutIs
    <3>7. u = Without(s, k + 1)
      BY <1>3, <2>2, <3>3, <3>6, WithoutTwice
    <3>8. \A i \in 1 .. k + 1 : s[i].kind # "byte"
      BY <2>1, <2>4, <3>3, <3>4, <3>5
    <3>9. Chunks(t)
      BY <1>5, <2>2, <3>3, ChunksWithout
    <3>10. CASE t[1].kind = "size"
      <4>1. PICK n \in Nat : n = t[1].n
        BY <3>5
      <4>2. n > 0
        BY <3>2, <3>9, <3>10, <4>1 DEF Chunks
      <4>3. c = [b EXCEPT !.firstChunk = FALSE, !.remaining = n, !.input = u]
        BY <2>3, <2>6, <3>1, <3>6, <3>10, <4>1 DEF Starts
      <4>4. /\ c \in BodyType /\ c.chunked /\ ~c.firstChunk /\ c.remaining = n
            /\ c.whole = b.whole /\ c.input = u
        BY <1>1, <4>3 DEF BodyType
      <4>5. InputTrue(c)
        <5>1. ASSUME NEW j \in 1 .. n, j <= Len(u) PROVE u[j].kind = "byte"
          <6>1. 1 + j \in DOMAIN t /\ 1 \in DOMAIN t /\ 1 + j \in 1 + 1 .. 1 + n
            BY <3>2, <3>6, <5>1
          <6>2. t[1 + j].kind = "byte"
            BY <3>9, <3>10, <4>1, <6>1 DEF Chunks
          <6> QED
            BY <3>2, <3>6, <5>1, <6>2
        <5>2. Chunks(u)
          BY <3>3, <3>6, <3>9, ChunksWithout
        <5>3. ASSUME n < Len(u) PROVE u[n + 1].kind = "crlf"
          <6>1. 1 + (n + 1) \in DOMAIN t /\ 1 \in DOMAIN t /\ 1 + (n + 1) = 1 + n + 1 /\ n + 1 \in 1 .. Len(t) - 1
            BY <3>2, <3>6, <5>3
          <6>2. t[1 + (n + 1)].kind = "crlf"
            BY <3>9, <3>10, <4>1, <6>1 DEF Chunks
          <6> QED
            BY <3>6, <6>1, <6>2
        <5> QED
          BY <4>4, <5>1, <5>2, <5>3 DEF InputTrue
      <4>6. ASSUME b.whole PROVE WholeInput(c)
        <5>1. k + 1 <= Len(s) - 3
          BY <1>3, <2>1, <3>3, <4>6
        <5>2. PICK m \in Nat : m = k + 1 /\ m <= Len(s) - 3 /\ u = Without(s, m)
          BY <3>3, <3>7, <5>1
        <5>3. EndsWhole(u) /\ Closed(u, Len(u) - 3)
          <6>1. EndsWhole(s) /\ Closed(s, Len(s) - 3)
            BY <1>4, <4>6
          <6> QED
            BY <5>2, <6>1, WholeWithout
        <5>4. k <= Len(s) - 3
          BY <1>3, <3>3, <5>1
        <5>5. Closed(t, Len(t) - 3)
          BY <1>4, <2>2, <3>3, <4>6, <5>4, WholeWithout
        <5>6. 1 + n < Len(t) - 3
          BY <3>2, <3>10, <4>1, <5>5 DEF Closed
        <5>7. n < Len(u) - 3
          BY <3>2, <3>6, <5>6
        <5> QED
          BY <4>4, <5>3, <5>7 DEF WholeInput
      <4>7. BodyTrue(c)
        BY <4>4, <4>5, <4>6 DEF BodyTrue
      <4> QED
        BY <1>3, <3>3, <3>7, <3>8, <4>2, <4>4, <4>7
    <3>11. CASE t[1].kind = "junk"
      <4>1. ~b.whole
        <5>1. k + 1 \in DOMAIN s
          BY <1>3, <3>3
        <5> QED
          BY <1>4, <3>4, <3>11, <5>1 DEF EndsWhole
      <4>2. c = [b EXCEPT !.firstChunk = FALSE, !.chunked = FALSE, !.failed = TRUE, !.input = u]
        BY <2>3, <2>6, <3>1, <3>6, <3>11 DEF Starts
      <4>3. /\ c \in BodyType /\ ~c.chunked /\ ~c.firstChunk /\ c.remaining = 0
            /\ c.whole = b.whole /\ c.input = u
        BY <1>1, <4>2 DEF BodyType
      <4> QED
        BY <1>6, <3>3, <3>7, <3>8, <4>1, <4>3
    <3>12. CASE t[1].kind = "last"
      <4>1. c = [b EXCEPT !.firstChunk = FALSE, !.chunked = FALSE, !.input = Without(t, 2)]
        BY <2>3, <2>6, <3>1, <3>12 DEF Starts
      <4>2. CASE Len(t) = 1
        <5>1. Without(t, 2) = <<>>
          <6>1. 2 \in Nat /\ 2 >= Len(t)
            BY <4>2
          <6> QED
            BY <6>1, WithoutAll
        <5>2. /\ c \in BodyType /\ ~c.chunked /\ ~c.firstChunk /\ c.remaining = 0
              /\ c.whole = b.whole /\ c.input = <<>>
          <6>1. c = [b EXCEPT !.firstChunk = FALSE, !.chunked = FALSE, !.input = <<>>]
            BY <4>1, <5>1
          <6> QED
            BY <1>1, <6>1, EmptySeq DEF BodyType
        <5>3. u = <<>>
          <6>1. 1 \in Nat /\ 1 >= Len(t)
            BY <4>2
          <6> QED
            BY <3>6, <6>1, WithoutAll
        <5>4. ~b.whole
          <6>1. k + 1 = Len(s)
            BY <1>3, <2>2, <3>3, <4>2
          <6>2. b.whole => k < Len(s) - 3
            BY <2>1
          <6> QED
            BY <1>3, <3>3, <6>1, <6>2
        <5> QED
          BY <1>6, <3>3, <3>7, <3>8, <5>2, <5>3, <5>4
      <4>3. CASE Len(t) # 1
        <5>1. 2 <= Len(t) /\ 1 + 1 \in DOMAIN t /\ 1 \in DOMAIN t /\ 1 \in 1 .. Len(t) - 1
          BY <3>2, <4>3
        <5>2. t[1 + 1].kind = "trailers"
          BY <3>9, <3>12, <5>1 DEF Chunks
        <5>3. PICK m \in Nat : m = k + 2 /\ m = (k + 1) + 1
          BY <3>3
        <5>4. m <= Len(s) /\ k + 2 <= Len(s) /\ m \in 0 .. Len(s)
          BY <1>3, <2>2, <3>3, <5>1, <5>3
        <5>5. Without(t, 2) = Without(s, m)
          BY <2>2, <3>3, <5>3, <5>4, WithoutTwice
        <5>6. Without(s, m) \in Seq(Token)
          BY <5>4, WithoutIs
        <5>7. /\ c \in BodyType /\ ~c.chunked /\ ~c.firstChunk /\ c.remaining = 0
              /\ c.whole = b.whole /\ c.input = Without(s, m)
          BY <1>1, <4>1, <5>5, <5>6 DEF BodyType
        <5>8. ASSUME NEW i \in 1 .. m PROVE s[i].kind # "byte"
          <6>1. CASE i <= k + 1
            BY <3>3, <3>8, <6>1
          <6>2. CASE i = k + 2
            <7>1. t[1 + 1] = s[k + (1 + 1)] /\ k + (1 + 1) = i
              BY <1>3, <2>2, <3>3, <5>1, <5>4, <6>2
            <7> QED
              BY <5>2, <7>1
          <6> QED
            BY <3>3, <5>3, <6>1, <6>2
        <5>9. ASSUME b.whole PROVE m = Len(s) - 3
          <6>1. k <= Len(s) - 3
            BY <1>3, <2>1, <3>3, <5>9
          <6>2. Closed(t, Len(t) - 3)
            BY <1>4, <2>2, <3>3, <5>9, <6>1, WholeWithout
          <6>3. 1 + 1 = Len(t) - 3
            BY <3>12, <5>1, <6>2 DEF Closed
          <6> QED
            BY <1>3, <2>2, <3>2, <3>3, <5>3, <6>3
        <5> QED
          BY <1>6, <5>4, <5>7, <5>8, <5>9
      <4> QED
        BY <4>2, <4>3
    <3> QED
      BY <3>5, <3>10, <3>11, <3>12
  <2> QED
    BY <2>5, <2>6
<1> QED
  BY <1>7, <1>8

-----------------------------------------------------------------------------
(* Lemmas about reading.                                                    *)

(* The invariant, part by part.                                             *)
LEMMA Fields ==
    ASSUME IInv
    PROVE  /\ body \in BodyType /\ BodyTrue(body)
           /\ body.remaining \in Nat /\ body.chunked \in BOOLEAN /\ body.firstChunk \in BOOLEAN
           /\ body.whole \in BOOLEAN /\ body.failed \in BOOLEAN /\ body.input \in Seq(Token)
           /\ Len(body.input) \in Nat
           /\ area \in Seq(Nat) /\ Len(area) \in Nat /\ gptr \in 0 .. Len(area)
           /\ gptr \in Nat /\ processed \in Nat /\ capacity \in Nat
           /\ call \in [op : {"none", "xsgetn", "seek", "preload"}, want : Nat]
           /\ eof \in BOOLEAN /\ phase \in {"open", "drain", "gone"}
<1>1. BodyTrue(body) /\ body \in BodyType
  BY DEF IInv, BodyTrue
<1>2. /\ body.remaining \in Nat /\ body.chunked \in BOOLEAN /\ body.firstChunk \in BOOLEAN
      /\ body.whole \in BOOLEAN /\ body.failed \in BOOLEAN /\ body.input \in Seq(Token)
      /\ Len(body.input) \in Nat
  BY <1>1, BodyFields
<1>3. /\ area \in Seq(Nat) /\ gptr \in 0 .. Len(area) /\ processed \in Nat /\ capacity \in Nat
      /\ call \in [op : {"none", "xsgetn", "seek", "preload"}, want : Nat]
      /\ eof \in BOOLEAN /\ phase \in {"open", "drain", "gone"}
  BY DEF IInv, TypeOK
<1>4. Len(area) \in Nat
  BY <1>3, LenProperties
<1>5. gptr \in Nat
  BY <1>3, <1>4
<1> QED
  BY <1>1, <1>2, <1>3, <1>4, <1>5

(* The smaller of two numbers.                                              *)
LEMMA LesserIs ==
    ASSUME NEW a \in Nat, NEW b \in Nat
    PROVE  Lesser(a, b) \in Nat /\ Lesser(a, b) <= a /\ Lesser(a, b) <= b
BY DEF Lesser

(* sgetn() returns no more than asked for, and nothing at the end only.     *)
LEMMA PiecesIs ==
    ASSUME NEW b, b.input \in Seq(Token), NEW n \in Nat, NEW k \in Pieces(b, n)
    PROVE  k \in Nat /\ k <= n /\ k <= Len(b.input) /\ (k = 0 => b.input = <<>>)
<1>1. Len(b.input) \in Nat
  BY LenProperties
<1>2. CASE b.input = <<>>
  <2>1. k = 0
    BY <1>2 DEF Pieces
  <2> QED
    BY <1>1, <1>2, <2>1
<1>3. CASE b.input # <<>>
  <2>1. PICK m \in Nat : m = Lesser(n, Len(b.input)) /\ m <= n /\ m <= Len(b.input)
    BY <1>1, LesserIs
  <2>2. k \in 1 .. m
    BY <1>3, <2>1 DEF Pieces
  <2> QED
    BY <1>1, <2>1, <2>2
<1> QED
  BY <1>2, <1>3

(* What sgetn() delivers.                                                   *)
LEMMA GotIs ==
    ASSUME NEW b, b.input \in Seq(Token), NEW k \in Nat, k <= Len(b.input)
    PROVE  /\ Got(b, k) \in Seq(Nat) /\ Len(Got(b, k)) = k
           /\ \A i \in 1 .. k : Got(b, k)[i] = b.input[i].n
<1>1. Len(b.input) \in Nat
  BY LenProperties
<1>2. \A i \in 1 .. k : i \in 1 .. Len(b.input)
  BY <1>1
<1>3. \A i \in 1 .. k : b.input[i].n \in Nat
  BY <1>2, TokenAt
<1>4. PICK g : g = Got(b, k)
  OBVIOUS
<1>5. g \in [1 .. k -> Nat] /\ \A i \in 1 .. k : g[i] = b.input[i].n
  BY <1>3, <1>4 DEF Got
<1>6. g \in Seq(Nat)
  BY <1>5, SeqDef
<1>7. Len(g) = k
  BY <1>5, <1>6, LenProperties
<1> QED
  BY <1>4, <1>5, <1>6, <1>7

(* The body before bytes are taken, after the next chunk was looked for     *)
(* where that is needed.                                                    *)
LEMMA NextBody ==
    ASSUME IInv,
           NEW b, b = IF body.remaining = 0 /\ body.chunked THEN NextChunk(body) ELSE body
    PROVE  /\ BodyTrue(b) /\ b.whole = body.whole
           /\ b.remaining = 0 => ~b.chunked
           /\ ~b.chunked /\ b.remaining # 0 => b = body
           /\ \A p, q \in Nat : Numbered(body.input, p, q) => Numbered(b.input, p, q)
<1>1. /\ body.remaining \in Nat /\ body.chunked \in BOOLEAN /\ body.input \in Seq(Token)
      /\ Len(body.input) \in Nat /\ BodyTrue(body)
  BY Fields
<1>2. CASE body.remaining = 0 /\ body.chunked
  <2>1. b = NextChunk(body)
    BY <1>2
  <2>2. /\ BodyTrue(b) /\ b.whole = body.whole
        /\ b.chunked <=> b.remaining > 0
        /\ \E k \in 0 .. Len(body.input) : /\ b.input = Without(body.input, k)
                                           /\ \A i \in 1 .. k : body.input[i].kind # "byte"
    BY <1>1, <1>2, <2>1, NextChunkKeeps
  <2>3. PICK k \in 0 .. Len(body.input) : /\ b.input = Without(body.input, k)
                                          /\ \A i \in 1 .. k : body.input[i].kind # "byte"
    BY <2>2
  <2>4. k \in Nat /\ k <= Len(body.input)
    BY <1>1
  <2>5. ASSUME NEW p \in Nat, NEW q \in Nat, Numbered(body.input, p, q)
        PROVE  Numbered(b.input, p, q)
    BY <1>1, <2>3, <2>4, <2>5, NumberedSkip
  <2>6. (b.remaining = 0 => ~b.chunked) /\ (b.remaining # 0 => b.chunked)
    <3>1. b.remaining \in Nat
      BY <2>2, BodyFields DEF BodyTrue
    <3> QED
      BY <2>2, <3>1
  <2> QED
    BY <1>2, <2>2, <2>5, <2>6
<1>3. CASE ~(body.remaining = 0 /\ body.chunked)
  BY <1>1, <1>3
<1> QED
  BY <1>2, <1>3

(* A body that is whole has something left in the base stream.              *)
LEMMA WholeIsNotEmpty ==
    ASSUME NEW b, BodyTrue(b), b.whole
    PROVE  b.input # <<>>
<1>1. Len(b.input) >= 3
  BY DEF BodyTrue, WholeInput, EndsWhole
<1> QED
  BY <1>1, EmptySeq

(* Taking bytes from a body whose bytes are those behind number p.          *)
LEMMA TakenInOrder ==
    ASSUME NEW b, BodyTrue(b), NEW p \in Nat, \E q \in Nat : Numbered(b.input, p, q),
           NEW k \in Nat, k <= b.remaining, k <= Len(b.input)
    PROVE  /\ \E q \in Nat : Numbered(Taken(b, k).input, p + k, q)
           /\ \A i \in 1 .. k : Got(b, k)[i] = p + i
<1>1. PICK q \in Nat : Numbered(b.input, p, q)
  OBVIOUS
<1>2. b.input \in Seq(Token)
  BY BodyFields DEF BodyTrue
<1>3. Taken(b, k).input = Without(b.input, k) /\ \A j \in 1 .. k : b.input[j].kind = "byte"
  BY TakenKeeps
<1>4. /\ Numbered(Without(b.input, k), p + k, q)
      /\ \A i \in 1 .. k : b.input[i].n = p + i
  BY <1>1, <1>2, <1>3, NumberedTake
<1>5. \A i \in 1 .. k : Got(b, k)[i] = b.input[i].n
  BY <1>2, GotIs
<1> QED
  BY <1>3, <1>4, <1>5

-----------------------------------------------------------------------------
(* The initial states.                                                      *)

(* The next message.                                                        *)
LEMMA BehindIs ==
    /\ Behind \in Seq(Token) /\ Len(Behind) = 3
    /\ \A i \in 1 .. 3 : Behind[i] = Other(i) /\ Behind[i].kind = "other"
<1>1. \A i \in 1 .. 3 : Other(i) \in Token /\ Other(i).kind = "other"
  BY DEF Other, Token
<1>2. PICK u : u = Behind
  OBVIOUS
<1>3. u \in [1 .. 3 -> Token] /\ \A i \in 1 .. 3 : u[i] = Other(i)
  BY <1>1, <1>2 DEF Behind
<1>4. u \in Seq(Token)
  BY <1>3, SeqDef
<1>5. Len(u) = 3
  BY <1>3, <1>4, LenProperties
<1> QED
  BY <1>1, <1>2, <1>3, <1>4, <1>5

(* A body with the next message behind it.                                  *)
LEMMA Followed ==
    ASSUME NEW s \in Seq(Token)
    PROVE  \E u \in Seq(Token) :
             /\ u = s \o Behind /\ Len(u) = Len(s) + 3
             /\ \A i \in 1 .. Len(s) : u[i] = s[i]
             /\ \A i \in 1 .. 3 : u[Len(s) + i] = Other(i)
             /\ \A i \in Len(s) + 1 .. Len(u) : u[i].kind = "other"
<1> PICK u : u = s \o Behind
  OBVIOUS
<1>1. Len(s) \in Nat
  BY LenProperties
<1>2. /\ u \in Seq(Token) /\ Len(u) = Len(s) + Len(Behind)
      /\ \A i \in 1 .. Len(s) + Len(Behind) : u[i] = IF i <= Len(s) THEN s[i] ELSE Behind[i - Len(s)]
  BY BehindIs, ConcatProperties
<1>3. Len(u) = Len(s) + 3
  BY <1>2, BehindIs
<1>4. \A i \in 1 .. Len(s) + 3 : u[i] = IF i <= Len(s) THEN s[i] ELSE Behind[i - Len(s)]
  BY <1>2, BehindIs
<1>5. ASSUME NEW i \in 1 .. Len(s) PROVE u[i] = s[i]
  <2>1. i \in 1 .. Len(s) + 3 /\ i <= Len(s)
    BY <1>1
  <2> QED
    BY <1>4, <2>1
<1>6. ASSUME NEW i \in 1 .. 3 PROVE u[Len(s) + i] = Other(i)
  <2>1. Len(s) + i \in 1 .. Len(s) + 3 /\ ~ Len(s) + i <= Len(s) /\ (Len(s) + i) - Len(s) = i
    BY <1>1
  <2>2. u[Len(s) + i] = Behind[i]
    BY <1>4, <2>1
  <2> QED
    BY <2>2, BehindIs
<1>7. ASSUME NEW i \in Len(s) + 1 .. Len(u) PROVE u[i].kind = "other"
  <2>1. PICK j \in 1 .. 3 : j = i - Len(s) /\ i \in 1 .. Len(s) + 3 /\ ~ i <= Len(s)
    BY <1>1, <1>3
  <2>2. u[i] = Behind[j]
    BY <1>4, <2>1
  <2> QED
    BY <2>2, BehindIs
<1> QED
  BY <1>2, <1>3, <1>5, <1>6, <1>7

(* The bytes of the body are not changed by what follows.                   *)
LEMMA NumberedFollowed ==
    ASSUME NEW s \in Seq(Token), NEW q \in Nat, Numbered(s, 0, q)
    PROVE  Numbered(s \o Behind, 0, q)
<1>1. Len(s) \in Nat
  BY LenProperties
<1>2. PICK u \in Seq(Token) : /\ u = s \o Behind /\ Len(u) = Len(s) + 3
                              /\ \A i \in 1 .. Len(s) : u[i] = s[i]
                              /\ \A i \in Len(s) + 1 .. Len(u) : u[i].kind = "other"
  BY Followed
<1>3. /\ \A a \in 1 .. Len(s) : s[a].kind = "byte" => s[a].n \in 0 + 1 .. q
      /\ \A m \in 0 + 1 .. q : \E a \in 1 .. Len(s) : s[a].kind = "byte" /\ s[a].n = m
      /\ \A a, b \in 1 .. Len(s) :
           s[a].kind = "byte" /\ s[b].kind = "byte" /\ a < b => s[a].n < s[b].n
  BY NumberedIs
<1>4. ASSUME NEW i \in 1 .. Len(u), u[i].kind = "byte"
      PROVE  i \in 1 .. Len(s) /\ u[i] = s[i]
  <2>1. ~ i \in Len(s) + 1 .. Len(u)
    BY <1>2, <1>4
  <2> QED
    BY <1>1, <1>2, <2>1
<1>5. ASSUME NEW i \in 1 .. Len(u), u[i].kind = "byte" PROVE u[i].n \in 0 + 1 .. q
  <2>1. i \in 1 .. Len(s) /\ u[i] = s[i]
    BY <1>4, <1>5
  <2> QED
    BY <1>3, <1>5, <2>1
<1>6. ASSUME NEW m \in 0 + 1 .. q PROVE \E i \in 1 .. Len(u) : u[i].kind = "byte" /\ u[i].n = m
  <2>1. PICK a \in 1 .. Len(s) : s[a].kind = "byte" /\ s[a].n = m
    BY <1>3
  <2>2. a \in 1 .. Len(u) /\ u[a] = s[a]
    BY <1>1, <1>2
  <2> QED
    BY <2>1, <2>2
<1>7. ASSUME NEW i \in 1 .. Len(u), NEW j \in 1 .. Len(u),
             u[i].kind = "byte", u[j].kind = "byte", i < j
      PROVE  u[i].n < u[j].n
  <2>1. i \in 1 .. Len(s) /\ u[i] = s[i] /\ j \in 1 .. Len(s) /\ u[j] = s[j]
    BY <1>4, <1>7
  <2> QED
    BY <1>3, <1>7, <2>1
<1>8. Numbered(u, 0, q)
  BY <1>5, <1>6, <1>7, NumberedIs
<1> QED
  BY <1>2, <1>8

(* What arrives of a body whose sender goes away.                           *)
LEMMA CutOff ==
    ASSUME NEW s \in Seq(Token), NEW cut \in 0 .. Len(s), NEW u, u = SubSeq(s, 1, cut)
    PROVE  u \in Seq(Token) /\ Len(u) = cut /\ \A i \in 1 .. cut : u[i] = s[i]
<1>1. Len(s) \in Nat /\ cut \in Nat /\ cut <= Len(s)
  BY LenProperties
<1>2. \A i \in 1 .. cut : s[i] \in Token
  BY <1>1, ElementOfSeq
<1>3. 1 \in Int /\ cut \in Int
  BY <1>1
<1>4. /\ u \in Seq(Token)
      /\ Len(u) = IF 1 <= cut THEN cut - 1 + 1 ELSE 0
      /\ \A i \in 1 .. cut - 1 + 1 : u[i] = s[1 + i - 1]
  BY <1>2, <1>3, SubSeqProperties
<1>5. Len(u) = cut
  BY <1>1, <1>4
<1>6. ASSUME NEW i \in 1 .. cut PROVE u[i] = s[i]
  <2>1. i \in 1 .. cut - 1 + 1 /\ 1 + i - 1 = i
    BY <1>1
  <2> QED
    BY <1>4, <2>1
<1> QED
  BY <1>4, <1>5, <1>6

(* The bytes of a body with a content length.                               *)
LEMMA CountedIs ==
    ASSUME NEW n \in Nat, NEW s, s = [i \in 1 .. n |-> Byte(i)]
    PROVE  /\ s \in Seq(Token) /\ Len(s) = n
           /\ \A i \in 1 .. n : s[i].kind = "byte" /\ s[i].n = i
<1>1. \A i \in 1 .. n : Byte(i) \in Token /\ Byte(i).kind = "byte" /\ Byte(i).n = i
  BY DEF Byte, Token
<1>2. s \in [1 .. n -> Token] /\ \A i \in 1 .. n : s[i] = Byte(i)
  BY <1>1
<1>3. s \in Seq(Token)
  BY <1>2, SeqDef
<1>4. Len(s) = n
  BY <1>2, <1>3, LenProperties
<1> QED
  BY <1>1, <1>2, <1>3, <1>4

(* Their numbers.                                                           *)
LEMMA CountedNumbered ==
    ASSUME NEW s \in Seq(Token), \A i \in 1 .. Len(s) : s[i].kind = "byte" /\ s[i].n = i
    PROVE  Numbered(s, 0, Len(s))
<1>1. PICK n \in Nat : n = Len(s)
  BY LenProperties
<1>2. \A i \in 1 .. Len(s) : s[i].kind = "byte" => s[i].n \in 0 + 1 .. n
  BY <1>1
<1>3. \A m \in 0 + 1 .. n : \E i \in 1 .. Len(s) : s[i].kind = "byte" /\ s[i].n = m
  BY <1>1
<1>4. \A i, j \in 1 .. Len(s) :
        s[i].kind = "byte" /\ s[j].kind = "byte" /\ i < j => s[i].n < s[j].n
  OBVIOUS
<1>5. 0 \in Nat
  OBVIOUS
<1>6. Numbered(s, 0, n)
  BY <1>2, <1>3, <1>4, <1>5, NumberedIs
<1> QED
  BY <1>1, <1>6

(* A chunked body as it is sent, and the part of it that arrives.           *)
LEMMA SentIs ==
    ASSUME NEW s \in ChunkedBodies
    PROVE  /\ s \in Seq(Token) /\ Len(s) \in Nat /\ Len(s) > 0
           /\ s[1].kind \in {"size", "last", "junk"}
           /\ Chunks(s) /\ Closed(s, Len(s))
           /\ \A cut \in 0 .. Len(s) : \E q \in Nat : Numbered(SubSeq(s, 1, cut), 0, q)
           /\ \E q \in Nat : Numbered(s, 0, q)
<1>1. /\ s \in Seq(Token) /\ s # <<>>
      /\ \A cut \in 0 .. Len(s) : \E q \in 0 .. Len(s) : Numbered(SubSeq(s, 1, cut), 0, q)
      /\ s[1].kind \in {"size", "last", "junk"} /\ Chunks(s) /\ Closed(s, Len(s))
  BY BodiesAssumption
<1>2. Len(s) \in Nat /\ Len(s) > 0
  BY <1>1, LenProperties, EmptySeq, SeqEqual
<1>3. ASSUME NEW cut \in 0 .. Len(s) PROVE \E q \in Nat : Numbered(SubSeq(s, 1, cut), 0, q)
  <2>1. PICK q \in 0 .. Len(s) : Numbered(SubSeq(s, 1, cut), 0, q)
    BY <1>1
  <2> QED
    BY <1>2, <2>1
<1>4. \E q \in Nat : Numbered(s, 0, q)
  <2>1. PICK m \in 0 .. Len(s) : m = Len(s)
    BY <1>2
  <2>2. PICK u : u = SubSeq(s, 1, m)
    OBVIOUS
  <2>3. u \in Seq(Token) /\ Len(u) = m /\ \A i \in 1 .. m : u[i] = s[i]
    BY <1>1, <2>2, CutOff
  <2>4. u = s
    BY <1>1, <2>1, <2>3, SeqEqual
  <2> QED
    BY <1>3, <2>1, <2>2, <2>4
<1> QED
  BY <1>1, <1>2, <1>3, <1>4

(* A body starts in order.                                                  *)
LEMMA BodyStarts ==
    ASSUME Init
    PROVE  BodyTrue(body) /\ \E q \in Nat : Numbered(body.input, 0, q)
<1>1. ASSUME NEW n \in Lengths, NEW s, s = [i \in 1 .. n |-> Byte(i)],
             body = Base(n, FALSE, TRUE, s \o Behind)
      PROVE  BodyTrue(body) /\ \E q \in Nat : Numbered(body.input, 0, q)
  <2>1. n \in Nat
    BY SizesAssumption
  <2>2. /\ s \in Seq(Token) /\ Len(s) = n
        /\ \A i \in 1 .. n : s[i].kind = "byte" /\ s[i].n = i
    BY <1>1, <2>1, CountedIs
  <2>3. PICK u \in Seq(Token) : /\ u = s \o Behind /\ Len(u) = Len(s) + 3
                                /\ \A i \in 1 .. Len(s) : u[i] = s[i]
                                /\ \A i \in 1 .. 3 : u[Len(s) + i] = Other(i)
                                /\ \A i \in Len(s) + 1 .. Len(u) : u[i].kind = "other"
    BY <2>2, Followed
  <2>4. /\ Len(u) = n + 3
        /\ \A i \in 1 .. n : u[i] = s[i]
        /\ \A i \in 1 .. 3 : u[n + i] = Other(i)
        /\ \A i \in n + 1 .. Len(u) : u[i].kind = "other"
    BY <2>2, <2>3, Zenon
  <2>5. /\ body \in BodyType /\ body.remaining = n /\ ~body.chunked /\ ~body.firstChunk
        /\ body.whole /\ body.input = u
    BY <1>1, <2>1, <2>3, <2>4 DEF Base, BodyType
  <2>6. InputTrue(body)
    BY <2>2, <2>4, <2>5 DEF InputTrue
  <2>7. WholeInput(body)
    <3>1. Len(u) >= 3 /\ Len(u) - 3 = n
      BY <2>1, <2>4
    <3>2. \A i \in 1 .. 3 : u[Len(u) - 3 + i] = Other(i)
      BY <2>4, <3>1
    <3>3. ASSUME NEW i \in DOMAIN u PROVE u[i].kind # "junk"
      <4>1. i \in 1 .. n \/ i \in n + 1 .. Len(u)
        BY <2>1, <2>4, LenProperties
      <4> QED
        BY <2>2, <2>4, <4>1
    <3> QED
      BY <2>4, <2>5, <3>1, <3>2, <3>3 DEF WholeInput, EndsWhole
  <2>8. \E q \in Nat : Numbered(body.input, 0, q)
    <3>1. Numbered(s, 0, n)
      BY <2>2, CountedNumbered
    <3> QED
      BY <2>1, <2>2, <2>3, <2>5, <3>1, NumberedFollowed
  <2> QED
    BY <2>5, <2>6, <2>7, <2>8 DEF BodyTrue
<1>2. ASSUME NEW n \in Lengths, NEW s, s = [i \in 1 .. n |-> Byte(i)], NEW cut \in 0 .. n,
             body = Base(n, FALSE, FALSE, SubSeq(s, 1, cut))
      PROVE  BodyTrue(body) /\ \E q \in Nat : Numbered(body.input, 0, q)
  <2>1. n \in Nat /\ cut \in Nat /\ cut <= n
    BY SizesAssumption
  <2>2. /\ s \in Seq(Token) /\ Len(s) = n
        /\ \A i \in 1 .. n : s[i].kind = "byte" /\ s[i].n = i
    BY <1>2, <2>1, CountedIs
  <2>3. PICK u : u = SubSeq(s, 1, cut)
    OBVIOUS
  <2>4. u \in Seq(Token) /\ Len(u) = cut /\ \A i \in 1 .. cut : u[i] = s[i]
    BY <2>2, <2>3, CutOff
  <2>5. /\ body \in BodyType /\ body.remaining = n /\ ~body.chunked /\ ~body.firstChunk
        /\ ~body.whole /\ body.input = u
    BY <1>2, <2>1, <2>3, <2>4 DEF Base, BodyType
  <2>6. \A i \in 1 .. cut : u[i].kind = "byte" /\ u[i].n = i
    BY <2>1, <2>2, <2>4
  <2>7. InputTrue(body)
    BY <2>1, <2>4, <2>5, <2>6 DEF InputTrue
  <2>8. Numbered(u, 0, cut)
    BY <2>4, <2>6, CountedNumbered
  <2> QED
    BY <2>1, <2>5, <2>7, <2>8 DEF BodyTrue
<1>3. ASSUME NEW s \in ChunkedBodies,
             body = Base(0, TRUE, \A i \in DOMAIN s : s[i].kind # "junk", s \o Behind)
      PROVE  BodyTrue(body) /\ \E q \in Nat : Numbered(body.input, 0, q)
  <2>1. /\ s \in Seq(Token) /\ Len(s) \in Nat /\ Len(s) > 0
        /\ s[1].kind \in {"size", "last", "junk"}
        /\ Chunks(s) /\ Closed(s, Len(s))
        /\ \E q \in Nat : Numbered(s, 0, q)
    BY SentIs
  <2>2. PICK u \in Seq(Token) : /\ u = s \o Behind /\ Len(u) = Len(s) + 3
                                /\ \A i \in 1 .. Len(s) : u[i] = s[i]
                                /\ \A i \in 1 .. 3 : u[Len(s) + i] = Other(i)
                                /\ \A i \in Len(s) + 1 .. Len(u) : u[i].kind = "other"
    BY <2>1, Followed
  <2>3. /\ Len(u) = Len(s) + 3
        /\ \A i \in 1 .. Len(s) : u[i] = s[i]
        /\ \A i \in 1 .. 3 : u[Len(s) + i] = Other(i)
        /\ \A i \in Len(s) + 1 .. Len(u) : u[i].kind = "other"
    BY <2>2
  <2>4. DOMAIN s = 1 .. Len(s) /\ DOMAIN u = 1 .. Len(u)
    BY <2>1, <2>3, LenProperties
  <2>5. PICK w \in BOOLEAN : w = \A i \in DOMAIN s : s[i].kind # "junk"
    OBVIOUS
  <2>6. /\ body \in BodyType /\ body.remaining = 0 /\ body.chunked /\ body.firstChunk
        /\ body.whole = w /\ body.input = u
    <3>1. body = Base(0, TRUE, w, u)
      BY <1>3, <2>2, <2>5, Zenon
    <3> QED
      BY <2>3, <3>1 DEF Base, BodyType
  <2>7. ASSUME NEW i \in DOMAIN u
        PROVE  (i \in DOMAIN s /\ u[i] = s[i]) \/ u[i].kind = "other"
    <3>1. i \in 1 .. Len(s) \/ i \in Len(s) + 1 .. Len(u)
      BY <2>1, <2>3, <2>4
    <3> QED
      BY <2>3, <2>4, <3>1
  <2>8. ASSUME NEW i \in DOMAIN s
        PROVE  /\ i \in Nat /\ s[i].n \in Nat
               /\ s[i].kind = "size" => i + s[i].n < Len(s)
               /\ s[i].kind = "crlf" => i < Len(s)
               /\ s[i].kind = "last" => i + 1 = Len(s)
    <3>1. i \in Nat /\ s[i].n \in Nat
      BY <2>1, <2>4, TokenAt
    <3> QED
      BY <2>1, <3>1 DEF Closed
  <2>9. Chunks(u)
    <3>1. ASSUME NEW i \in DOMAIN u, NEW j \in DOMAIN u,
                 u[i].kind \in {"size", "crlf", "last"},
                 \/ u[i].kind = "size" /\ j \in i + 1 .. i + u[i].n
                 \/ u[i].kind = "size" /\ j = i + u[i].n + 1
                 \/ u[i].kind \in {"crlf", "last"} /\ j = i + 1
          PROVE  i \in DOMAIN s /\ u[i] = s[i] /\ j \in DOMAIN s /\ u[j] = s[j]
      <4>1. i \in DOMAIN s /\ u[i] = s[i]
        BY <2>7, <3>1
      <4>2. PICK n \in Nat : n = s[i].n
        BY <2>8, <4>1
      <4>3. CASE s[i].kind = "size"
        <5>1. i + n < Len(s) /\ i \in Nat
          BY <2>8, <4>1, <4>2, <4>3
        <5>2. j \in i + 1 .. i + n \/ j = i + n + 1
          BY <3>1, <4>1, <4>2, <4>3
        <5>3. j \in 1 .. Len(s)
          BY <2>1, <5>1, <5>2
        <5> QED
          BY <2>3, <2>4, <4>1, <5>3
      <4>4. CASE s[i].kind \in {"crlf", "last"}
        <5>1. i < Len(s) /\ i \in Nat
          BY <2>1, <2>8, <4>1, <4>4
        <5>2. j = i + 1
          BY <3>1, <4>1, <4>4
        <5>3. j \in 1 .. Len(s)
          BY <2>1, <5>1, <5>2
        <5> QED
          BY <2>3, <2>4, <4>1, <5>3
      <4> QED
        BY <3>1, <4>1, <4>3, <4>4
    <3>2. ASSUME NEW i \in DOMAIN u, u[i].kind = "size" PROVE u[i].n > 0
      <4>1. i \in DOMAIN s /\ u[i] = s[i]
        BY <2>7, <3>2
      <4> QED
        BY <2>1, <3>2, <4>1 DEF Chunks
    <3>3. ASSUME NEW i \in DOMAIN u, NEW j \in DOMAIN u, u[i].kind = "size", j \in i + 1 .. i + u[i].n
          PROVE  u[j].kind = "byte"
      <4>1. i \in DOMAIN s /\ u[i] = s[i] /\ j \in DOMAIN s /\ u[j] = s[j]
        BY <3>1, <3>3
      <4> QED
        BY <2>1, <3>3, <4>1 DEF Chunks
    <3>4. ASSUME NEW i \in DOMAIN u, NEW j \in DOMAIN u, u[i].kind = "size", j = i + u[i].n + 1
          PROVE  u[j].kind = "crlf"
      <4>1. i \in DOMAIN s /\ u[i] = s[i] /\ j \in DOMAIN s /\ u[j] = s[j]
        BY <3>1, <3>4
      <4> QED
        BY <2>1, <3>4, <4>1 DEF Chunks
    <3>5. ASSUME NEW i \in DOMAIN u, NEW j \in DOMAIN u, u[i].kind = "crlf", j = i + 1
          PROVE  u[j].kind \in {"size", "last", "junk"}
      <4>1. i \in DOMAIN s /\ u[i] = s[i] /\ j \in DOMAIN s /\ u[j] = s[j]
        BY <3>1, <3>5
      <4> QED
        BY <2>1, <3>5, <4>1 DEF Chunks
    <3>6. ASSUME NEW i \in DOMAIN u, NEW j \in DOMAIN u, u[i].kind = "last", j = i + 1
          PROVE  u[j].kind = "trailers"
      <4>1. i \in DOMAIN s /\ u[i] = s[i] /\ j \in DOMAIN s /\ u[j] = s[j]
        BY <3>1, <3>6
      <4> QED
        BY <2>1, <3>6, <4>1 DEF Chunks
    <3> QED
      BY <3>2, <3>3, <3>4, <3>5, <3>6 DEF Chunks
  <2>10. InputTrue(body)
    <3>1. u[0 + 1].kind \in {"size", "last", "junk"}
      BY <2>1, <2>3
    <3> QED
      BY <2>6, <2>9, <3>1 DEF InputTrue
  <2>11. ASSUME body.whole PROVE WholeInput(body)
    <3>1. Len(u) >= 3 /\ Len(u) - 3 = Len(s)
      BY <2>1, <2>3
    <3>2. \A i \in 1 .. 3 : u[Len(u) - 3 + i] = Other(i)
      BY <2>3, <3>1
    <3>3. \A i \in DOMAIN u : u[i].kind # "junk"
      BY <2>5, <2>6, <2>7, <2>11
    <3>4. Closed(u, Len(s))
      <4>1. ASSUME NEW i \in DOMAIN u
            PROVE  /\ u[i].kind = "size" => i + u[i].n < Len(s)
                   /\ u[i].kind = "crlf" => i < Len(s)
                   /\ u[i].kind = "last" => i + 1 = Len(s)
        BY <2>7, <2>8
      <4> QED
        BY <4>1 DEF Closed
    <3> QED
      BY <2>1, <2>6, <3>1, <3>2, <3>3, <3>4 DEF WholeInput, EndsWhole
  <2>12. \E q \in Nat : Numbered(body.input, 0, q)
    BY <2>1, <2>2, <2>6, NumberedFollowed
  <2> QED
    BY <2>6, <2>10, <2>11, <2>12 DEF BodyTrue
<1>4. ASSUME NEW s \in ChunkedBodies, NEW cut \in 0 .. Len(s),
             body = Base(0, TRUE, FALSE, SubSeq(s, 1, cut))
      PROVE  BodyTrue(body) /\ \E q \in Nat : Numbered(body.input, 0, q)
  <2>1. /\ s \in Seq(Token) /\ Len(s) \in Nat /\ Len(s) > 0
        /\ s[1].kind \in {"size", "last", "junk"}
        /\ Chunks(s)
        /\ \E q \in Nat : Numbered(SubSeq(s, 1, cut), 0, q)
    BY SentIs
  <2>2. PICK u : u = SubSeq(s, 1, cut)
    OBVIOUS
  <2>3. u \in Seq(Token) /\ Len(u) = cut /\ \A i \in 1 .. cut : u[i] = s[i]
    BY <2>1, <2>2, CutOff
  <2>4. DOMAIN s = 1 .. Len(s) /\ DOMAIN u = 1 .. cut /\ DOMAIN u \subseteq DOMAIN s
    BY <2>1, <2>3, LenProperties
  <2>5. /\ body \in BodyType /\ body.remaining = 0 /\ body.chunked /\ body.firstChunk
        /\ ~body.whole /\ body.input = u
    BY <1>4, <2>2, <2>3 DEF Base, BodyType
  <2>6. Chunks(u)
    <3>1. \A i \in DOMAIN u : i \in DOMAIN s /\ u[i] = s[i]
      BY <2>3, <2>4
    <3> QED
      BY <2>1, <3>1 DEF Chunks
  <2>7. InputTrue(body)
    <3>1. 0 < Len(u) => u[0 + 1].kind \in {"size", "last", "junk"}
      BY <2>1, <2>3
    <3> QED
      BY <2>5, <2>6, <3>1 DEF InputTrue
  <2> QED
    BY <2>1, <2>2, <2>5, <2>7 DEF BodyTrue
<1>5. \/ \E n \in Lengths :
            \/ body = Base(n, FALSE, TRUE, [i \in 1 .. n |-> Byte(i)] \o Behind)
            \/ \E cut \in 0 .. n : body = Base(n, FALSE, FALSE, SubSeq([i \in 1 .. n |-> Byte(i)], 1, cut))
      \/ \E s \in ChunkedBodies :
            \/ body = Base(0, TRUE, \A i \in DOMAIN s : s[i].kind # "junk", s \o Behind)
            \/ \E cut \in 0 .. Len(s) : body = Base(0, TRUE, FALSE, SubSeq(s, 1, cut))
  BY DEF Init
<1> QED
  BY <1>1, <1>2, <1>3, <1>4, <1>5

(* The invariant holds at the start.                                        *)
LEMMA InitIInv ==
    ASSUME Init
    PROVE  IInv /\ EofTrue
<1>1. /\ area = <<>> /\ gptr = 0 /\ processed = 0 /\ capacity = ChunkBufferSize
      /\ call = None /\ eof = FALSE /\ phase = "open"
  BY DEF Init
<1>2. BodyTrue(body) /\ \E q \in Nat : Numbered(body.input, 0, q)
  BY BodyStarts
<1>3. area \in Seq(Nat) /\ Len(area) = 0
  BY <1>1, EmptySeq
<1>4. TypeOK
  <2>1. /\ body.remaining \in Nat /\ body.chunked \in BOOLEAN /\ body.firstChunk \in BOOLEAN
        /\ body.whole \in BOOLEAN /\ body.failed \in BOOLEAN
    BY <1>2, BodyFields DEF BodyTrue
  <2>2. capacity \in Nat
    BY <1>1, SizesAssumption
  <2>3. call \in [op : {"none", "xsgetn", "seek", "preload"}, want : Nat]
    BY <1>1 DEF None
  <2>4. gptr \in 0 .. Len(area) /\ processed \in Nat
    BY <1>1, <1>3
  <2>5. eof \in BOOLEAN /\ phase \in {"open", "drain", "gone"}
    BY <1>1
  <2> QED
    BY <1>3, <2>1, <2>2, <2>3, <2>4, <2>5 DEF TypeOK
<1>5. InOrder
  <2>1. processed + Len(area) = 0
    BY <1>1, <1>3
  <2>2. \A i \in 1 .. Len(area) : area[i] = processed + i
    BY <1>3
  <2> QED
    BY <1>2, <2>1, <2>2 DEF InOrder
<1>6. CallTrue
  BY <1>1 DEF CallTrue, None
<1>7. BufferFits
  BY <1>1, <1>3, SizesAssumption DEF BufferFits, None
<1>8. EofTrue
  BY <1>1 DEF EofTrue
<1> QED
  BY <1>2, <1>4, <1>5, <1>6, <1>7, <1>8 DEF IInv

-----------------------------------------------------------------------------
(* The steps.                                                               *)

(* The invariant of a next state, from its parts.                           *)
LEMMA Assemble ==
    ASSUME BodyTrue(body'),
           area' \in Seq(Nat), gptr' \in 0 .. Len(area'), processed' \in Nat, capacity' \in Nat,
           call' \in [op : {"none", "xsgetn", "seek", "preload"}, want : Nat],
           eof' \in BOOLEAN, phase' \in {"open", "drain", "gone"},
           phase' = "open" => InOrder', CallTrue', BufferFits'
    PROVE  IInv'
<1>1. /\ body'.remaining \in Nat /\ body'.chunked \in BOOLEAN /\ body'.firstChunk \in BOOLEAN
      /\ body'.whole \in BOOLEAN /\ body'.failed \in BOOLEAN
  BY BodyFields DEF BodyTrue
<1>2. TypeOK'
  BY <1>1 DEF TypeOK
<1> QED
  BY <1>2 DEF IInv

(* underflow(): old is what the buffer held.                                *)
LEMMA RefillKeeps ==
    ASSUME IInv, NEW old \in Seq(Nat), gptr \in 0 .. Len(old), Len(old) <= capacity,
           Underflow(old)
    PROVE  /\ BodyTrue(body') /\ body'.whole = body.whole
           /\ area' \in Seq(Nat) /\ gptr' \in 0 .. Len(area') /\ Len(area') <= capacity
           /\ processed' \in Nat /\ eof' \in BOOLEAN
           /\ gptr = 0 => gptr' = 0
           /\ phase = "open" /\ old = area => InOrder'
           /\ High = {} /\ eof' /\ body'.whole => ~body'.chunked /\ body'.remaining = 0
<1>1. PICK b : b = IF body.remaining = 0 /\ body.chunked THEN NextChunk(body) ELSE body
  OBVIOUS
<1>2. /\ BodyTrue(b) /\ b.whole = body.whole
      /\ b.remaining = 0 => ~b.chunked
      /\ \A p, q \in Nat : Numbered(body.input, p, q) => Numbered(b.input, p, q)
  BY <1>1, NextBody
<1>3. Refill(b, old)
  BY <1>1 DEF Underflow
<1>4. /\ processed \in Nat /\ capacity \in Nat /\ area \in Seq(Nat) /\ Len(area) \in Nat
      /\ gptr \in Nat
  BY Fields
<1>5. b.remaining \in Nat /\ b.input \in Seq(Token) /\ Len(b.input) \in Nat
  BY <1>2, BodyFields DEF BodyTrue
<1>6. ASSUME phase = "open"
      PROVE  /\ \A i \in 1 .. Len(area) : area[i] = processed + i
             /\ \E q \in Nat : Numbered(b.input, processed + Len(area), q)
  <2>1. InOrder
    BY <1>6 DEF IInv
  <2>2. PICK q \in Nat : Numbered(body.input, processed + Len(area), q)
    BY <2>1 DEF InOrder
  <2>3. processed + Len(area) \in Nat
    BY <1>4
  <2>4. Numbered(b.input, processed + Len(area), q)
    BY <1>2, <2>2, <2>3
  <2> QED
    BY <2>1, <2>4 DEF InOrder
<1>7. Len(old) \in Nat
  BY LenProperties
<1>8. ASSUME GiveUp(b, old), b.remaining = 0 \/ b.input = <<>>
      PROVE  /\ BodyTrue(body') /\ body'.whole = body.whole
             /\ area' \in Seq(Nat) /\ gptr' \in 0 .. Len(area') /\ Len(area') <= capacity
             /\ processed' \in Nat /\ eof' \in BOOLEAN
             /\ gptr = 0 => gptr' = 0
             /\ phase = "open" /\ old = area => InOrder'
             /\ High = {} /\ eof' /\ body'.whole => ~body'.chunked /\ body'.remaining = 0
  <2>1. body' = b /\ eof' = TRUE /\ area' = old /\ gptr' = gptr /\ processed' = processed
    BY <1>8 DEF GiveUp
  <2>2. ASSUME phase = "open", old = area PROVE InOrder'
    BY <1>6, <2>1, <2>2 DEF InOrder
  <2>3. ASSUME body'.whole PROVE ~body'.chunked /\ body'.remaining = 0
    <3>1. b.input # <<>>
      BY <1>2, <2>1, <2>3, WholeIsNotEmpty
    <3> QED
      BY <1>2, <1>8, <2>1, <3>1
  <2> QED
    BY <1>2, <1>4, <2>1, <2>2, <2>3
<1>9. ASSUME b.remaining # 0, NEW k \in Pieces(b, Lesser(b.remaining, capacity)), k # 0,
             Show(b, k), processed' = processed + Len(old), eof' = (area'[1] \in High)
      PROVE  /\ BodyTrue(body') /\ body'.whole = body.whole
             /\ area' \in Seq(Nat) /\ gptr' \in 0 .. Len(area') /\ Len(area') <= capacity
             /\ processed' \in Nat /\ eof' \in BOOLEAN
             /\ gptr = 0 => gptr' = 0
             /\ phase = "open" /\ old = area => InOrder'
             /\ High = {} /\ eof' /\ body'.whole => ~body'.chunked /\ body'.remaining = 0
  <2>1. PICK n \in Nat : n = Lesser(b.remaining, capacity) /\ n <= b.remaining /\ n <= capacity
    BY <1>4, <1>5, LesserIs
  <2>2. k \in Nat /\ k <= n /\ k <= Len(b.input)
    BY <1>5, <1>9, <2>1, PiecesIs
  <2>3. k <= b.remaining /\ k <= capacity
    BY <1>4, <1>5, <2>1, <2>2
  <2>4. body' = Taken(b, k) /\ area' = Got(b, k) /\ gptr' = 0
    BY <1>9 DEF Show
  <2>5. BodyTrue(body') /\ body'.whole = b.whole
    BY <1>2, <2>2, <2>3, <2>4, TakenKeeps
  <2>6. area' \in Seq(Nat) /\ Len(area') = k
    BY <1>5, <2>2, <2>4, GotIs
  <2>7. ASSUME phase = "open", old = area PROVE InOrder'
    <3>1. PICK p \in Nat : p = processed + Len(area)
      BY <1>4
    <3>2. /\ \E q \in Nat : Numbered(Taken(b, k).input, p + k, q)
          /\ \A i \in 1 .. k : Got(b, k)[i] = p + i
      BY <1>2, <1>6, <2>2, <2>3, <2>7, <3>1, TakenInOrder
    <3>3. processed' = p /\ Len(area') = k
      BY <1>9, <2>6, <2>7, <3>1
    <3>4. /\ \E q \in Nat : Numbered(body'.input, processed' + Len(area'), q)
          /\ \A i \in 1 .. Len(area') : area'[i] = processed' + i
      BY <2>4, <3>2, <3>3
    <3> QED
      BY <3>4 DEF InOrder
  <2>8. eof' \in BOOLEAN /\ (High = {} => ~eof')
    <3>1. PICK a : a = area'[1]
      OBVIOUS
    <3>2. eof' = (a \in High)
      BY <1>9, <3>1, Zenon
    <3>3. (a \in High) \in BOOLEAN
      OBVIOUS
    <3>4. eof' \in BOOLEAN
      BY <3>2, <3>3, Zenon
    <3>5. High = {} => ~(a \in High)
      OBVIOUS
    <3>6. High = {} => ~eof'
      BY <3>2, <3>5, Zenon
    <3> QED
      BY <3>4, <3>6
  <2>9. gptr' \in 0 .. Len(area') /\ Len(area') <= capacity /\ processed' \in Nat
    BY <1>4, <1>7, <1>9, <2>2, <2>3, <2>4, <2>6
  <2> QED
    BY <1>2, <2>4, <2>5, <2>6, <2>7, <2>8, <2>9
<1>10. CASE b.remaining = 0
  <2>1. GiveUp(b, old)
    BY <1>3, <1>10 DEF Refill
  <2> QED
    BY <1>8, <1>10, <2>1
<1>11. CASE b.remaining # 0
  <2>1. PICK k \in Pieces(b, Lesser(b.remaining, capacity)) :
           IF k = 0
           THEN GiveUp(b, old)
           ELSE /\ Show(b, k)
                /\ processed' = processed + Len(old)
                /\ eof' = (area'[1] \in High)
    BY <1>3, <1>11 DEF Refill
  <2>2. CASE k = 0
    <3>1. GiveUp(b, old)
      BY <2>1, <2>2
    <3>2. b.input = <<>>
      <4>1. PICK n \in Nat : n = Lesser(b.remaining, capacity)
        BY <1>4, <1>5, LesserIs
      <4> QED
        BY <1>5, <2>2, <4>1, PiecesIs
    <3> QED
      BY <1>8, <3>1, <3>2
  <2>3. CASE k # 0
    BY <1>9, <1>11, <2>1, <2>3
  <2> QED
    BY <2>2, <2>3
<1> QED
  BY <1>10, <1>11

(* The parts of the invariant that speak of the call and of the buffer.     *)
LEMMA CallIs ==
    ASSUME IInv
    PROVE  /\ call.op \in {"none", "xsgetn", "seek", "preload"} /\ call.want \in Nat
           /\ call.op = "preload" => call.want = body.remaining /\ Len(area) + call.want <= capacity
           /\ Len(area) <= capacity
           /\ call.op \in {"xsgetn", "seek"} =>
                /\ area = <<>> /\ gptr = 0 /\ call.want > 0
                /\ ~body.chunked => call.want <= body.remaining
           /\ phase # "open" => gptr = 0 /\ call = None
           /\ call.op # "none" => phase = "open"
<1>1. /\ call.op \in {"none", "xsgetn", "seek", "preload"} /\ call.want \in Nat
      /\ Len(area) \in Nat /\ capacity \in Nat
  BY Fields
<1>2. CallTrue /\ BufferFits
  BY DEF IInv
<1>3. Len(area) <= capacity /\ (call.op = "preload" => Len(area) + call.want <= capacity)
  BY <1>1, <1>2 DEF BufferFits
<1>4. None.op = "none"
  BY DEF None
<1>5. phase # "open" => gptr = 0 /\ call = None
  BY <1>2 DEF CallTrue
<1> QED
  BY <1>1, <1>2, <1>3, <1>4, <1>5 DEF CallTrue

(* sbumpc().                                                                *)
LEMMA GetByteKeeps ==
    ASSUME IInv, GetByte
    PROVE  IInv' /\ (High = {} /\ EofTrue => EofTrue')
<1>1. /\ phase = "open" /\ call = None /\ ~eof /\ Len(area) - gptr > 0 /\ gptr' = gptr + 1
      /\ body' = body /\ area' = area /\ processed' = processed /\ capacity' = capacity
      /\ call' = call /\ eof' = eof /\ phase' = phase
  BY DEF GetByte, Ready, Avail
<1>2. Len(area) \in Nat /\ gptr \in Nat
  BY Fields
<1>3. gptr' \in 0 .. Len(area')
  BY <1>1, <1>2
<1>4. InOrder'
  BY <1>1 DEF InOrder, IInv
<1>5. CallTrue'
  BY <1>1 DEF CallTrue, None
<1>6. BufferFits'
  BY <1>1 DEF BufferFits, IInv
<1>7. IInv'
  BY <1>1, <1>3, <1>4, <1>5, <1>6, Fields, Assemble
<1> QED
  BY <1>1, <1>7 DEF EofTrue

(* underflow() for a reader.                                                *)
LEMMA FillBufferKeeps ==
    ASSUME IInv, FillBuffer
    PROVE  IInv' /\ (High = {} /\ EofTrue => EofTrue')
<1>1. /\ phase = "open" /\ call = None /\ Underflow(area)
      /\ capacity' = capacity /\ call' = call /\ phase' = phase
  BY DEF FillBuffer, Ready
<1>2. /\ area \in Seq(Nat) /\ gptr \in 0 .. Len(area) /\ Len(area) <= capacity
      /\ capacity \in Nat
  BY Fields, CallIs
<1>3. /\ BodyTrue(body') /\ body'.whole = body.whole
      /\ area' \in Seq(Nat) /\ gptr' \in 0 .. Len(area') /\ Len(area') <= capacity
      /\ processed' \in Nat /\ eof' \in BOOLEAN
      /\ phase = "open" /\ area = area => InOrder'
      /\ High = {} /\ eof' /\ body'.whole => ~body'.chunked /\ body'.remaining = 0
  BY <1>1, <1>2, RefillKeeps
<1>4. CallTrue'
  BY <1>1 DEF CallTrue, None
<1>5. BufferFits'
  <2>1. Len(area') \in Nat
    BY <1>3, LenProperties
  <2>2. call'.op # "preload"
    BY <1>1 DEF None
  <2> QED
    BY <1>1, <1>3, <2>1, <2>2 DEF BufferFits
<1>6. IInv'
  <2>1. /\ call' \in [op : {"none", "xsgetn", "seek", "preload"}, want : Nat]
        /\ capacity' \in Nat /\ phase' \in {"open", "drain", "gone"} /\ InOrder'
    BY <1>1, <1>3, Fields
  <2> QED
    BY <1>3, <1>4, <1>5, <2>1, Assemble
<1> QED
  BY <1>1, <1>3, <1>6 DEF EofTrue

(* The start of xsgetn() and of a forward seekoff().                        *)
LEMMA BeginKeeps ==
    ASSUME MayOverRead = FALSE, IInv, NEW op \in {"xsgetn", "seek"}, NEW n \in Nat \ {0},
           Begin(op, n, n < Avail)
    PROVE  IInv' /\ (High = {} /\ EofTrue => EofTrue')
<1>1. /\ phase = "open" /\ call = None /\ ~eof
      /\ body' = body /\ capacity' = capacity /\ eof' = eof /\ phase' = phase
  BY DEF Begin, Ready
<1>2. /\ body.remaining \in Nat /\ area \in Seq(Nat) /\ Len(area) \in Nat /\ gptr \in Nat
      /\ gptr <= Len(area) /\ processed \in Nat /\ capacity \in Nat
  BY Fields
<1>3. BodyTrue(body') /\ capacity' \in Nat /\ eof' \in BOOLEAN /\ phase' \in {"open", "drain", "gone"}
  BY <1>1, Fields
<1>4. InOrder
  BY <1>1 DEF IInv
<1>5. PICK v \in Nat : v = Len(area) - gptr /\ v = Avail
  BY <1>2 DEF Avail
<1>6. CASE n < v
  <2>1. gptr' = gptr + n /\ area' = area /\ processed' = processed /\ call' = call
    BY <1>5, <1>6 DEF Begin
  <2>2. gptr' \in 0 .. Len(area')
    BY <1>2, <1>5, <1>6, <2>1
  <2>3. InOrder'
    BY <1>1, <1>4, <2>1 DEF InOrder
  <2>4. CallTrue'
    BY <1>1, <2>1 DEF CallTrue, None
  <2>5. BufferFits'
    BY <1>1, <2>1 DEF BufferFits, IInv
  <2>6. IInv'
    BY <1>3, <2>1, <2>2, <2>3, <2>4, <2>5, Fields, Assemble
  <2> QED
    BY <1>1, <2>6 DEF EofTrue
<1>7. CASE ~ n < v
  <2>1. /\ processed' = processed + Len(area) /\ area' = <<>> /\ gptr' = 0
        /\ call' = IF n = v THEN None ELSE [op |-> op, want |-> n - v]
    BY <1>5, <1>7 DEF Begin
  <2>2. area' \in Seq(Nat) /\ Len(area') = 0
    BY <2>1, EmptySeq
  <2>3. gptr' \in 0 .. Len(area') /\ processed' \in Nat
    BY <1>2, <2>1, <2>2
  <2>4. InOrder'
    <3>1. processed' + Len(area') = processed + Len(area)
      BY <1>2, <2>1, <2>2
    <3>2. \A i \in 1 .. Len(area') : area'[i] = processed' + i
      BY <2>2
    <3>3. \E q \in Nat : Numbered(body'.input, processed' + Len(area'), q)
      BY <1>1, <1>4, <3>1 DEF InOrder
    <3> QED
      BY <3>2, <3>3 DEF InOrder
  <2>5. CASE n = v
    <3>1. call' = None
      BY <2>1, <2>5
    <3>2. call' \in [op : {"none", "xsgetn", "seek", "preload"}, want : Nat]
      BY <3>1 DEF None
    <3>3. CallTrue'
      BY <1>1, <2>1, <3>1 DEF CallTrue, None
    <3>4. BufferFits'
      BY <1>1, <1>2, <2>2, <3>1 DEF BufferFits, None
    <3>5. IInv'
      BY <1>3, <2>2, <2>3, <2>4, <3>2, <3>3, <3>4, Assemble
    <3> QED
      BY <1>1, <3>5 DEF EofTrue
  <2>6. CASE n # v
    <3>1. PICK w \in Nat : w = n - v /\ w > 0
      BY <1>7, <2>6
    <3>2. call' = [op |-> op, want |-> w]
      BY <2>1, <2>6, <3>1
    <3>3. call' \in [op : {"none", "xsgetn", "seek", "preload"}, want : Nat]
      BY <3>2
    <3>4. body.chunked \/ w <= body.remaining
      <4>1. body.chunked \/ n <= v + body.remaining
        BY <1>5 DEF Begin, Asks
      <4> QED
        BY <1>2, <3>1, <4>1
    <3>5. CallTrue'
      BY <1>1, <2>1, <3>1, <3>2, <3>4 DEF CallTrue
    <3>6. BufferFits'
      BY <1>1, <1>2, <2>2, <3>2 DEF BufferFits
    <3>7. IInv'
      BY <1>3, <2>2, <2>3, <2>4, <3>3, <3>5, <3>6, Assemble
    <3> QED
      BY <1>1, <3>7 DEF EofTrue
  <2> QED
    BY <2>5, <2>6
<1> QED
  BY <1>6, <1>7

(* A backward seekoff().                                                    *)
LEMMA SeekBackKeeps ==
    ASSUME IInv, NEW n \in Nat, SeekBack(n)
    PROVE  IInv' /\ (High = {} /\ EofTrue => EofTrue')
<1>1. /\ phase = "open" /\ call = None /\ ~eof
      /\ gptr' = IF n < gptr THEN gptr - n ELSE 0
      /\ body' = body /\ area' = area /\ processed' = processed /\ capacity' = capacity
      /\ call' = call /\ eof' = eof /\ phase' = phase
  BY DEF SeekBack, Ready
<1>2. Len(area) \in Nat /\ gptr \in Nat /\ gptr <= Len(area)
  BY Fields
<1>3. gptr' \in 0 .. Len(area')
  BY <1>1, <1>2
<1>4. InOrder'
  BY <1>1 DEF InOrder, IInv
<1>5. CallTrue'
  BY <1>1 DEF CallTrue, None
<1>6. BufferFits'
  BY <1>1 DEF BufferFits, IInv
<1>7. IInv'
  BY <1>1, <1>3, <1>4, <1>5, <1>6, Fields, Assemble
<1> QED
  BY <1>1, <1>7 DEF EofTrue

(* ~StreamBufInput() forgets the buffer.                                    *)
LEMMA DestroyKeeps ==
    ASSUME IInv, Destroy
    PROVE  IInv' /\ (High = {} /\ EofTrue => EofTrue')
<1>1. /\ call = None /\ phase' = "drain" /\ area' = <<>> /\ gptr' = 0 /\ eof' = FALSE
      /\ body' = body /\ processed' = processed /\ capacity' = capacity /\ call' = call
  BY DEF Destroy
<1>2. area' \in Seq(Nat) /\ Len(area') = 0
  BY <1>1, EmptySeq
<1>3. CallTrue'
  BY <1>1 DEF CallTrue, None
<1>4. BufferFits'
  <2>1. capacity \in Nat
    BY Fields
  <2> QED
    BY <1>1, <1>2, <2>1 DEF BufferFits, None
<1>5. gptr' \in 0 .. Len(area') /\ eof' \in BOOLEAN /\ phase' \in {"open", "drain", "gone"}
  <2>1. gptr' \in 0 .. Len(area')
    BY <1>1, <1>2
  <2>2. eof' \in BOOLEAN
    BY <1>1
  <2>3. phase' \in {"open", "drain", "gone"}
    BY <1>1
  <2> QED
    BY <2>1, <2>2, <2>3
<1>6. BodyTrue(body') /\ processed' \in Nat /\ capacity' \in Nat
      /\ call' \in [op : {"none", "xsgetn", "seek", "preload"}, want : Nat]
  BY <1>1, Fields
<1>7. IInv'
  BY <1>1, <1>2, <1>3, <1>4, <1>5, <1>6, Assemble
<1> QED
  BY <1>1, <1>7 DEF EofTrue

(* A turn of the loop of ~StreamBufInput().                                 *)
LEMMA DrainKeeps ==
    ASSUME IInv, Drain
    PROVE  IInv' /\ (High = {} /\ EofTrue => EofTrue')
<1>1. /\ phase = "drain" /\ Underflow(<<>>)
      /\ phase' = IF eof' THEN "gone" ELSE "drain"
      /\ capacity' = capacity /\ call' = call
  BY DEF Drain
<1>2. gptr = 0 /\ call = None /\ capacity \in Nat
  BY <1>1, Fields, CallIs
<1>3. PICK old \in Seq(Nat) : old = <<>> /\ Len(old) = 0
  BY EmptySeq
<1>4. gptr \in 0 .. Len(old) /\ Len(old) <= capacity /\ Underflow(old)
  BY <1>1, <1>2, <1>3
<1>5. /\ BodyTrue(body') /\ body'.whole = body.whole
      /\ area' \in Seq(Nat) /\ gptr' \in 0 .. Len(area') /\ Len(area') <= capacity
      /\ processed' \in Nat /\ eof' \in BOOLEAN
      /\ gptr = 0 => gptr' = 0
      /\ High = {} /\ eof' /\ body'.whole => ~body'.chunked /\ body'.remaining = 0
  BY <1>4, RefillKeeps
<1>6. CallTrue'
  BY <1>1, <1>2, <1>5 DEF CallTrue, None
<1>7. BufferFits'
  <2>1. Len(area') \in Nat
    BY <1>5, LenProperties
  <2>2. call'.op # "preload"
    BY <1>1, <1>2 DEF None
  <2> QED
    BY <1>1, <1>5, <2>1, <2>2 DEF BufferFits
<1>8. phase' # "open" /\ phase' \in {"open", "drain", "gone"}
  BY <1>1
<1>9. call' \in [op : {"none", "xsgetn", "seek", "preload"}, want : Nat] /\ capacity' \in Nat
  BY <1>1, Fields
<1>10. IInv'
  BY <1>5, <1>6, <1>7, <1>8, <1>9, Assemble
<1> QED
  BY <1>1, <1>2, <1>5, <1>10 DEF EofTrue

(* The body a turn of a loop works on: a call that still wants something of *)
(* a body whose chunk is used up looks for the next chunk.                  *)
LEMMA TurnBody ==
    ASSUME IInv, body.remaining = 0 => body.chunked, phase = "open",
           NEW b, b = IF body.remaining = 0 THEN NextChunk(body) ELSE body
    PROVE  /\ BodyTrue(b) /\ b.whole = body.whole
           /\ b.remaining = 0 => ~b.chunked
           /\ ~b.chunked /\ b.remaining # 0 => b = body
           /\ b.remaining \in Nat /\ b.input \in Seq(Token) /\ Len(b.input) \in Nat
           /\ \E q \in Nat : Numbered(b.input, processed + Len(area), q)
<1>1. b = IF body.remaining = 0 /\ body.chunked THEN NextChunk(body) ELSE body
  OBVIOUS
<1>2. /\ BodyTrue(b) /\ b.whole = body.whole
      /\ b.remaining = 0 => ~b.chunked
      /\ ~b.chunked /\ b.remaining # 0 => b = body
      /\ \A p, q \in Nat : Numbered(body.input, p, q) => Numbered(b.input, p, q)
  BY <1>1, NextBody
<1>3. b.remaining \in Nat /\ b.input \in Seq(Token) /\ Len(b.input) \in Nat
  BY <1>2, BodyFields DEF BodyTrue
<1>4. PICK p \in Nat : p = processed + Len(area)
  BY Fields
<1>5. \E q \in Nat : Numbered(body.input, p, q)
  BY <1>4 DEF IInv, InOrder
<1>6. \E q \in Nat : Numbered(b.input, p, q)
  BY <1>2, <1>5
<1> QED
  BY <1>2, <1>3, <1>4, <1>6

(* A turn that takes k bytes past the buffer.                               *)
LEMMA TurnTakes ==
    ASSUME IInv, area = <<>>, gptr = 0, phase = "open",
           NEW b, BodyTrue(b), \E q \in Nat : Numbered(b.input, processed + Len(area), q),
           NEW k \in Nat, k <= b.remaining, k <= Len(b.input),
           body' = Taken(b, k), processed' = processed + k,
           area' = area, gptr' = gptr, capacity' = capacity, phase' = phase,
           eof' \in BOOLEAN,
           NEW op \in {"xsgetn", "seek"}, NEW w \in Nat, k <= w,
           ~b.chunked => w <= b.remaining,
           call' = IF k = w \/ k = 0 THEN None ELSE [op |-> op, want |-> w - k]
    PROVE  IInv'
<1>1. processed \in Nat /\ capacity \in Nat /\ b.remaining \in Nat
  BY Fields, BodyFields DEF BodyTrue
<1>2. area' \in Seq(Nat) /\ Len(area') = 0 /\ area' = <<>> /\ Len(area) = 0
  BY EmptySeq
<1>3. /\ BodyTrue(body') /\ body'.chunked = b.chunked /\ body'.remaining = b.remaining - k
  BY TakenKeeps
<1>4. PICK p \in Nat : p = processed /\ p = processed + Len(area)
  BY <1>1, <1>2
<1>5. \E q \in Nat : Numbered(Taken(b, k).input, p + k, q)
  <2>1. \E q \in Nat : Numbered(b.input, p, q)
    BY <1>4
  <2> QED
    BY <2>1, TakenInOrder
<1>6. InOrder'
  <2>1. processed' + Len(area') = p + k
    BY <1>2, <1>4
  <2>2. \A i \in 1 .. Len(area') : area'[i] = processed' + i
    BY <1>2
  <2>3. \E q \in Nat : Numbered(body'.input, processed' + Len(area'), q)
    BY <1>5, <2>1
  <2> QED
    BY <2>2, <2>3 DEF InOrder
<1>7. gptr' \in 0 .. Len(area') /\ processed' \in Nat /\ capacity' \in Nat
  BY <1>1, <1>2
<1>8. phase' = "open"
  OBVIOUS
<1>9. CASE k = w \/ k = 0
  <2>1. call' = None
    BY <1>9
  <2>2. call' \in [op : {"none", "xsgetn", "seek", "preload"}, want : Nat]
    BY <2>1 DEF None
  <2>3. CallTrue'
    BY <1>8, <2>1 DEF CallTrue, None
  <2>4. BufferFits'
    BY <1>1, <1>2, <2>1 DEF BufferFits, None
  <2> QED
    BY <1>2, <1>3, <1>6, <1>7, <1>8, <2>2, <2>3, <2>4, Assemble
<1>10. CASE ~(k = w \/ k = 0)
  <2>1. PICK v \in Nat : v = w - k /\ v > 0
    BY <1>10
  <2>2. call' = [op |-> op, want |-> v]
    BY <1>10, <2>1
  <2>3. call' \in [op : {"none", "xsgetn", "seek", "preload"}, want : Nat]
    BY <2>2
  <2>4. ~body'.chunked => v <= body'.remaining
    BY <1>1, <1>3, <2>1
  <2>5. CallTrue'
    BY <1>2, <1>8, <2>1, <2>2, <2>4 DEF CallTrue
  <2>6. BufferFits'
    BY <1>1, <1>2, <2>2 DEF BufferFits
  <2> QED
    BY <1>2, <1>3, <1>6, <1>7, <1>8, <2>3, <2>5, <2>6, Assemble
<1> QED
  BY <1>9, <1>10

(* A turn that takes nothing and ends the call.                             *)
LEMMA TurnEnds ==
    ASSUME IInv, phase = "open",
           NEW b, BodyTrue(b), \E q \in Nat : Numbered(b.input, processed + Len(area), q),
           body' = b, processed' = processed, area' = area, gptr' = gptr,
           capacity' = capacity, phase' = phase, eof' \in BOOLEAN, call' = None
    PROVE  IInv'
<1>1. call' \in [op : {"none", "xsgetn", "seek", "preload"}, want : Nat]
  BY DEF None
<1>2. InOrder'
  <2>1. InOrder
    BY DEF IInv
  <2> QED
    BY <2>1 DEF InOrder
<1>3. CallTrue'
  BY DEF CallTrue, None
<1>4. BufferFits'
  <2>1. Len(area) \in Nat /\ Len(area) <= capacity /\ capacity \in Nat
    BY Fields, CallIs
  <2>2. call'.op # "preload"
    BY DEF None
  <2> QED
    BY <2>1, <2>2 DEF BufferFits
<1>5. /\ BodyTrue(body') /\ area' \in Seq(Nat) /\ gptr' \in 0 .. Len(area')
      /\ processed' \in Nat /\ capacity' \in Nat /\ phase' \in {"open", "drain", "gone"}
  BY Fields
<1> QED
  BY <1>1, <1>2, <1>3, <1>4, <1>5, Assemble

(* A turn of the loop of xsgetn().                                          *)
LEMMA XsgetnStepKeeps ==
    ASSUME IInv, XsgetnStep
    PROVE  IInv' /\ (High = {} /\ EofTrue => EofTrue')
<1>1. /\ call.op = "xsgetn" /\ area = <<>> /\ gptr = 0 /\ phase = "open"
      /\ call.want \in Nat /\ call.want > 0
      /\ ~body.chunked => call.want <= body.remaining
  BY CallIs DEF XsgetnStep
<1>2. area' = area /\ gptr' = gptr /\ capacity' = capacity /\ phase' = phase
  BY DEF XsgetnStep
<1>3. body.remaining \in Nat /\ body.chunked \in BOOLEAN /\ processed \in Nat
  BY Fields
<1>4. body.remaining = 0 => body.chunked
  BY <1>1, <1>3
<1>5. PICK b : b = IF body.remaining = 0 THEN NextChunk(body) ELSE body
  OBVIOUS
<1>6. /\ BodyTrue(b) /\ b.whole = body.whole
      /\ b.remaining = 0 => ~b.chunked
      /\ ~b.chunked /\ b.remaining # 0 => b = body
      /\ b.remaining \in Nat /\ b.input \in Seq(Token) /\ Len(b.input) \in Nat
      /\ \E q \in Nat : Numbered(b.input, processed + Len(area), q)
  BY <1>1, <1>4, <1>5, TurnBody
<1>7. IF b.remaining = 0
      THEN body' = b /\ eof' = TRUE /\ call' = None /\ UNCHANGED processed
      ELSE \E k \in Pieces(b, Lesser(b.remaining, call.want)) :
             /\ body' = Taken(b, k)
             /\ processed' = processed + k
             /\ eof' = (k = 0)
             /\ call' = IF k = 0 \/ k = call.want THEN None
                        ELSE [call EXCEPT !.want = @ - k]
  BY <1>5 DEF XsgetnStep
<1>8. CASE b.remaining = 0
  <2>1. body' = b /\ eof' = TRUE /\ call' = None /\ processed' = processed
    BY <1>7, <1>8
  <2>2. IInv'
    BY <1>1, <1>2, <1>6, <2>1, TurnEnds
  <2> QED
    BY <1>6, <1>8, <2>1, <2>2 DEF EofTrue
<1>9. CASE b.remaining # 0
  <2>1. PICK k \in Pieces(b, Lesser(b.remaining, call.want)) :
             /\ body' = Taken(b, k)
             /\ processed' = processed + k
             /\ eof' = (k = 0)
             /\ call' = IF k = 0 \/ k = call.want THEN None
                        ELSE [call EXCEPT !.want = @ - k]
    BY <1>7, <1>9
  <2>2. PICK n \in Nat : n = Lesser(b.remaining, call.want) /\ n <= b.remaining /\ n <= call.want
    BY <1>1, <1>6, LesserIs
  <2>3. k \in Nat /\ k <= n /\ k <= Len(b.input) /\ (k = 0 => b.input = <<>>)
    BY <1>6, <2>2, PiecesIs
  <2>4. PICK w \in Nat : w = call.want /\ k <= w /\ k <= b.remaining
    BY <1>1, <1>6, <2>2, <2>3
  <2>5. eof' = (k = 0) /\ eof' \in BOOLEAN
    BY <2>1
  <2>6. call' = IF k = w \/ k = 0 THEN None ELSE [op |-> "xsgetn", want |-> w - k]
    <3>1. call \in [op : {"none", "xsgetn", "seek", "preload"}, want : Nat]
      BY Fields
    <3>2. [call EXCEPT !.want = @ - k] = [op |-> "xsgetn", want |-> w - k]
      BY <1>1, <2>4, <3>1
    <3> QED
      BY <2>1, <2>4, <3>2
  <2>7. ~b.chunked => w <= b.remaining
    <3>1. ~b.chunked => b = body
      BY <1>6, <1>9
    <3> QED
      BY <1>1, <2>4, <3>1
  <2>8. IInv'
    BY <1>1, <1>2, <1>6, <2>1, <2>3, <2>4, <2>5, <2>6, <2>7, TurnTakes
  <2>9. body'.whole = b.whole
    BY <1>6, <2>1, <2>3, <2>4, TakenKeeps
  <2>10. ~(eof' /\ body'.whole)
    BY <1>6, <2>3, <2>5, <2>9, WholeIsNotEmpty
  <2> QED
    BY <2>8, <2>10 DEF EofTrue
<1> QED
  BY <1>8, <1>9

(* A turn of the loop of seekoff().                                         *)
LEMMA SeekStepKeeps ==
    ASSUME IInv, SeekStep
    PROVE  IInv' /\ (High = {} /\ EofTrue => EofTrue')
<1>1. /\ call.op = "seek" /\ area = <<>> /\ gptr = 0 /\ phase = "open"
      /\ call.want \in Nat /\ call.want > 0
      /\ ~body.chunked => call.want <= body.remaining
  BY CallIs DEF SeekStep
<1>2. area' = area /\ gptr' = gptr /\ capacity' = capacity /\ phase' = phase /\ eof' = eof
  BY DEF SeekStep
<1>3. /\ body.remaining \in Nat /\ body.chunked \in BOOLEAN /\ processed \in Nat
      /\ eof \in BOOLEAN
  BY Fields
<1>4. body.remaining = 0 => body.chunked
  BY <1>1, <1>3
<1>5. PICK b : b = IF body.remaining = 0 THEN NextChunk(body) ELSE body
  OBVIOUS
<1>6. /\ BodyTrue(b) /\ b.whole = body.whole
      /\ b.remaining = 0 => ~b.chunked
      /\ ~b.chunked /\ b.remaining # 0 => b = body
      /\ b.remaining \in Nat /\ b.input \in Seq(Token) /\ Len(b.input) \in Nat
      /\ \E q \in Nat : Numbered(b.input, processed + Len(area), q)
  BY <1>1, <1>4, <1>5, TurnBody
<1>7. PICK n \in Nat : n = Lesser(b.remaining, call.want) /\ n <= b.remaining /\ n <= call.want
  BY <1>1, <1>6, LesserIs
<1>8. IF b.remaining = 0 \/ n > Len(b.input)
      THEN body' = b /\ call' = None /\ UNCHANGED processed
      ELSE /\ body' = Taken(b, n)
           /\ processed' = processed + n
           /\ call' = IF n = call.want THEN None ELSE [call EXCEPT !.want = @ - n]
  BY <1>5, <1>7 DEF SeekStep
<1>9. ~(EofTrue /\ eof' /\ body.whole)
  BY <1>1, <1>2 DEF EofTrue, None
<1>10. CASE b.remaining = 0 \/ n > Len(b.input)
  <2>1. body' = b /\ call' = None /\ processed' = processed
    BY <1>8, <1>10
  <2>2. IInv'
    BY <1>1, <1>2, <1>3, <1>6, <2>1, TurnEnds
  <2> QED
    BY <1>6, <1>9, <2>1, <2>2 DEF EofTrue
<1>11. CASE ~(b.remaining = 0 \/ n > Len(b.input))
  <2>1. /\ body' = Taken(b, n) /\ processed' = processed + n
        /\ call' = IF n = call.want THEN None ELSE [call EXCEPT !.want = @ - n]
    BY <1>8, <1>11
  <2>2. PICK w \in Nat : w = call.want /\ w > 0
    BY <1>1
  <2>3. n > 0 /\ n <= Len(b.input) /\ n <= w
    <3>1. n = IF b.remaining < w THEN b.remaining ELSE w
      BY <1>7, <2>2 DEF Lesser
    <3> QED
      BY <1>6, <1>7, <1>11, <2>2, <3>1
  <2>4. call' = IF n = w \/ n = 0 THEN None ELSE [op |-> "seek", want |-> w - n]
    <3>1. call \in [op : {"none", "xsgetn", "seek", "preload"}, want : Nat]
      BY Fields
    <3>2. [call EXCEPT !.want = @ - n] = [op |-> "seek", want |-> w - n]
      BY <1>1, <2>2, <3>1
    <3> QED
      BY <2>1, <2>2, <2>3, <3>2
  <2>5. ~b.chunked => w <= b.remaining
    <3>1. ~b.chunked => b = body
      BY <1>6, <1>11
    <3> QED
      BY <1>1, <2>2, <3>1
  <2>6. eof' \in BOOLEAN
    BY <1>2, <1>3
  <2>7. IInv'
    BY <1>1, <1>2, <1>6, <1>7, <2>1, <2>3, <2>4, <2>5, <2>6, TurnTakes
  <2>8. body'.whole = body.whole
    BY <1>6, <1>7, <2>1, <2>3, TakenKeeps
  <2> QED
    BY <1>9, <2>7, <2>8 DEF EofTrue
<1> QED
  BY <1>10, <1>11

(* preloadStreamIntoBuffer() up to its loop.                                *)
LEMMA PreloadKeeps ==
    ASSUME IInv, Preload
    PROVE  IInv' /\ (High = {} /\ EofTrue => EofTrue')
<1>1. PICK b : b = IF body.remaining = 0 THEN NextChunk(body) ELSE body
  OBVIOUS
<1>2. /\ phase = "open" /\ call = None /\ (body.chunked \/ body.remaining > 0) /\ body' = b
      /\ capacity' = IF b.remaining > capacity - Len(area) THEN Len(area) + b.remaining ELSE capacity
      /\ call' = [op |-> "preload", want |-> b.remaining]
      /\ area' = area /\ gptr' = gptr /\ processed' = processed /\ eof' = eof /\ phase' = phase
  BY <1>1 DEF Preload
<1>3. /\ body.remaining \in Nat /\ area \in Seq(Nat) /\ Len(area) \in Nat
      /\ gptr \in 0 .. Len(area) /\ processed \in Nat /\ capacity \in Nat /\ eof \in BOOLEAN
  BY Fields
<1>4. body.remaining = 0 => body.chunked
  BY <1>2, <1>3
<1>5. /\ BodyTrue(b) /\ b.whole = body.whole /\ b.remaining \in Nat
      /\ \E q \in Nat : Numbered(b.input, processed + Len(area), q)
  BY <1>1, <1>2, <1>4, TurnBody
<1>6. PICK n \in Nat : n = b.remaining
  BY <1>5
<1>7. InOrder'
  <2>1. InOrder
    BY <1>2 DEF IInv
  <2> QED
    BY <1>2, <1>5, <2>1 DEF InOrder
<1>8. CallTrue'
  BY <1>2 DEF CallTrue
<1>9. capacity' \in Nat /\ Len(area) + n <= capacity'
  BY <1>2, <1>3, <1>6
<1>10. BufferFits'
  BY <1>2, <1>6, <1>9 DEF BufferFits
<1>11. call' \in [op : {"none", "xsgetn", "seek", "preload"}, want : Nat]
  BY <1>2, <1>5
<1>12. IInv'
  BY <1>2, <1>3, <1>5, <1>7, <1>8, <1>9, <1>10, <1>11, Assemble
<1>13. EofTrue => ~(eof' /\ body'.whole)
  BY <1>2, <1>3, <1>4, <1>5 DEF EofTrue
<1> QED
  BY <1>12, <1>13 DEF EofTrue

(* A turn of the loop of preloadStreamIntoBuffer().                         *)
LEMMA PreloadStepKeeps ==
    ASSUME IInv, PreloadStep
    PROVE  IInv' /\ (High = {} /\ EofTrue => EofTrue')
<1>1. /\ call.op = "preload" /\ call.want = body.remaining /\ phase = "open"
      /\ call.want \in Nat /\ Len(area) + call.want <= capacity
  BY CallIs DEF PreloadStep
<1>2. /\ gptr' = gptr /\ processed' = processed /\ capacity' = capacity /\ eof' = eof
      /\ phase' = phase
  BY DEF PreloadStep
<1>3. /\ BodyTrue(body) /\ body.remaining \in Nat /\ body.input \in Seq(Token)
      /\ Len(body.input) \in Nat /\ area \in Seq(Nat) /\ Len(area) \in Nat
      /\ gptr \in Nat /\ gptr <= Len(area) /\ processed \in Nat /\ capacity \in Nat
      /\ eof \in BOOLEAN
  BY Fields
<1>4. InOrder
  BY <1>1 DEF IInv
<1>5. ~(EofTrue /\ eof' /\ body.whole)
  BY <1>1, <1>2 DEF EofTrue, None
<1>6. CASE call.want = 0
  <2>1. call' = None /\ body' = body /\ area' = area
    BY <1>6 DEF PreloadStep
  <2>2. \E q \in Nat : Numbered(body.input, processed + Len(area), q)
    BY <1>4 DEF InOrder
  <2>3. eof' \in BOOLEAN
    BY <1>2, <1>3
  <2>4. IInv'
    BY <1>1, <1>2, <1>3, <2>1, <2>2, <2>3, TurnEnds
  <2> QED
    BY <1>5, <2>1, <2>4 DEF EofTrue
<1>7. CASE call.want # 0
  <2>1. PICK k \in Pieces(body, call.want) :
            /\ body' = Taken(body, k)
            /\ area' = area \o Got(body, k)
            /\ call' = IF k = 0 THEN None ELSE [call EXCEPT !.want = @ - k]
    BY <1>7 DEF PreloadStep
  <2>2. k \in Nat /\ k <= call.want /\ k <= Len(body.input)
    BY <1>1, <1>3, PiecesIs
  <2>3. k <= body.remaining
    BY <1>1, <2>2
  <2>4. /\ BodyTrue(body') /\ body'.whole = body.whole /\ body'.remaining = body.remaining - k
    BY <1>3, <2>1, <2>2, <2>3, TakenKeeps
  <2>5. PICK g \in Seq(Nat) : g = Got(body, k) /\ Len(g) = k
    BY <1>3, <2>2, GotIs
  <2>6. PICK p \in Nat : p = processed + Len(area)
    BY <1>3
  <2>7. /\ \E q \in Nat : Numbered(Taken(body, k).input, p + k, q)
        /\ \A i \in 1 .. k : Got(body, k)[i] = p + i
    <3>1. \E q \in Nat : Numbered(body.input, p, q)
      BY <1>4, <2>6 DEF InOrder
    <3> QED
      BY <1>3, <2>2, <2>3, <3>1, TakenInOrder
  <2>8. /\ area' \in Seq(Nat) /\ Len(area') = Len(area) + Len(g)
        /\ \A i \in 1 .. Len(area) + Len(g) :
             area'[i] = IF i <= Len(area) THEN area[i] ELSE g[i - Len(area)]
    <3>1. /\ area \o g \in Seq(Nat) /\ Len(area \o g) = Len(area) + Len(g)
          /\ \A i \in 1 .. Len(area) + Len(g) :
               (area \o g)[i] = IF i <= Len(area) THEN area[i] ELSE g[i - Len(area)]
      BY <1>3, ConcatProperties
    <3> QED
      BY <2>1, <2>5, <3>1
  <2>9. InOrder'
    <3>1. ASSUME NEW i \in 1 .. Len(area') PROVE area'[i] = processed' + i
      <4>1. CASE i <= Len(area)
        <5>1. i \in 1 .. Len(area)
          BY <1>3, <4>1
        <5>2. i \in 1 .. Len(area) + Len(g)
          BY <2>8
        <5>3. area'[i] = area[i]
          BY <2>8, <4>1, <5>2
        <5>4. area[i] = processed + i
          BY <1>4, <5>1 DEF InOrder
        <5> QED
          BY <1>2, <5>3, <5>4
      <4>2. CASE ~ i <= Len(area)
        <5>1. PICK j \in 1 .. k : j = i - Len(area) /\ i \in 1 .. Len(area) + Len(g)
          <6>1. PICK m \in Nat : m = Len(area) /\ Len(area') = m + k
            BY <1>3, <2>5, <2>8
          <6>2. i \in 1 .. m + k /\ ~ i <= m
            BY <4>2, <6>1
          <6>3. i - m \in 1 .. k
            BY <2>2, <6>2
          <6> QED
            BY <2>5, <6>1, <6>2, <6>3
        <5>2. area'[i] = g[j]
          BY <2>8, <4>2, <5>1
        <5>3. g[j] = p + j
          BY <2>5, <2>7
        <5>4. p + j = processed' + i
          BY <1>2, <1>3, <2>6, <5>1
        <5> QED
          BY <5>2, <5>3, <5>4
      <4> QED
        BY <4>1, <4>2
    <3>2. processed' + Len(area') = p + k
      BY <1>2, <1>3, <2>2, <2>5, <2>6, <2>8
    <3>3. \E q \in Nat : Numbered(body'.input, processed' + Len(area'), q)
      BY <2>1, <2>7, <3>2
    <3> QED
      BY <3>1, <3>3 DEF InOrder
  <2>10. PICK l \in Nat : l = Len(area') /\ l = Len(area) + k
    BY <1>3, <2>2, <2>5, <2>8
  <2>11. gptr' \in 0 .. Len(area')
    BY <1>2, <1>3, <2>2, <2>10
  <2>12. processed' \in Nat /\ capacity' \in Nat /\ eof' \in BOOLEAN /\ phase' = "open"
    BY <1>1, <1>2, <1>3
  <2>13. IInv'
    <3>1. CASE k = 0
      <4>1. call' = None
        BY <2>1, <3>1
      <4>2. call' \in [op : {"none", "xsgetn", "seek", "preload"}, want : Nat]
        BY <4>1 DEF None
      <4>3. CallTrue'
        BY <2>12, <4>1 DEF CallTrue, None
      <4>4. BufferFits'
        <5>1. l <= capacity'
          BY <1>1, <1>2, <1>3, <2>2, <2>10, <3>1
        <5>2. call'.op # "preload"
          BY <4>1 DEF None
        <5> QED
          BY <2>10, <2>12, <5>1, <5>2 DEF BufferFits
      <4> QED
        BY <2>4, <2>8, <2>9, <2>11, <2>12, <4>2, <4>3, <4>4, Assemble
    <3>2. CASE k # 0
      <4>1. PICK v \in Nat : v = call.want - k
        BY <1>1, <2>2
      <4>2. call' = [op |-> "preload", want |-> v]
        <5>1. call \in [op : {"none", "xsgetn", "seek", "preload"}, want : Nat]
          BY Fields
        <5>2. [call EXCEPT !.want = @ - k] = [op |-> "preload", want |-> v]
          BY <1>1, <4>1, <5>1
        <5> QED
          BY <2>1, <3>2, <5>2
      <4>3. call' \in [op : {"none", "xsgetn", "seek", "preload"}, want : Nat]
        BY <4>2
      <4>4. v = body'.remaining
        BY <1>1, <2>4, <4>1
      <4>5. CallTrue'
        BY <2>12, <4>2, <4>4 DEF CallTrue
      <4>6. BufferFits'
        <5>1. l + v <= capacity'
          <6>1. PICK w \in Nat, m \in Nat : w = call.want /\ m = Len(area)
            BY <1>1, <1>3
          <6>2. m + w <= capacity /\ v = w - k /\ l = m + k
            BY <1>1, <2>10, <4>1, <6>1
          <6>3. l + v = m + w
            BY <2>2, <6>2
          <6> QED
            BY <1>2, <6>2, <6>3
        <5> QED
          BY <2>10, <4>2, <5>1 DEF BufferFits
      <4> QED
        BY <2>4, <2>8, <2>9, <2>11, <2>12, <4>3, <4>5, <4>6, Assemble
    <3> QED
      BY <3>1, <3>2
  <2> QED
    BY <1>5, <2>4, <2>13 DEF EofTrue
<1> QED
  BY <1>6, <1>7

(* A step that changes nothing.                                             *)
LEMMA StutterKeeps ==
    ASSUME IInv, UNCHANGED vars
    PROVE  IInv' /\ (EofTrue => EofTrue')
<1>1. /\ body' = body /\ area' = area /\ gptr' = gptr /\ processed' = processed
      /\ capacity' = capacity /\ call' = call /\ eof' = eof /\ phase' = phase
  BY DEF vars
<1>2. TypeOK'
  BY <1>1 DEF IInv, TypeOK
<1>3. (phase = "open" => InOrder') /\ CallTrue' /\ BufferFits'
  BY <1>1 DEF IInv, InOrder, CallTrue, BufferFits
<1>4. IInv'
  BY <1>1, <1>2, <1>3 DEF IInv
<1> QED
  BY <1>1, <1>4 DEF EofTrue

(* Every step keeps the invariant.                                          *)
LEMMA StepKeeps ==
    ASSUME MayOverRead = FALSE, IInv, [Next]_vars
    PROVE  IInv' /\ (High = {} /\ EofTrue => EofTrue')
<1>1. \A n \in 1 .. MaxRead : n \in Nat \ {0}
  BY SizesAssumption
<1>2. CASE GetByte
  BY <1>2, GetByteKeeps
<1>3. CASE FillBuffer
  BY <1>3, FillBufferKeeps
<1>4. CASE \E n \in 1 .. MaxRead : Xsgetn(n)
  <2>1. PICK n \in Nat \ {0} : Begin("xsgetn", n, n < Avail)
    BY <1>1, <1>4 DEF Xsgetn
  <2> QED
    BY <2>1, BeginKeeps
<1>5. CASE \E n \in 1 .. MaxRead : SeekForward(n)
  <2>1. PICK n \in Nat \ {0} : Begin("seek", n, n < Avail)
    BY <1>1, <1>5 DEF SeekForward
  <2> QED
    BY <2>1, BeginKeeps
<1>6. CASE \E n \in 1 .. MaxRead : SeekBack(n)
  <2>1. PICK n \in Nat : SeekBack(n)
    BY <1>1, <1>6
  <2> QED
    BY <2>1, SeekBackKeeps
<1>7. CASE XsgetnStep
  BY <1>7, XsgetnStepKeeps
<1>8. CASE SeekStep
  BY <1>8, SeekStepKeeps
<1>9. CASE Preload
  BY <1>9, PreloadKeeps
<1>10. CASE PreloadStep
  BY <1>10, PreloadStepKeeps
<1>11. CASE Destroy
  BY <1>11, DestroyKeeps
<1>12. CASE Drain
  BY <1>12, DrainKeeps
<1>13. CASE UNCHANGED vars
  BY <1>13, StutterKeeps
<1> QED
  BY <1>2, <1>3, <1>4, <1>5, <1>6, <1>7, <1>8, <1>9, <1>10, <1>11, <1>12, <1>13 DEF Next

(* The inductive invariant.                                                 *)
LEMMA Invariance ==
    ASSUME MayOverRead = FALSE
    PROVE  Spec => []IInv
<1>1. Init => IInv
  BY InitIInv
<1>2. IInv /\ [Next]_vars => IInv'
  BY StepKeeps
<1> QED
  BY <1>1, <1>2, PTL DEF Spec

-----------------------------------------------------------------------------
(* Every variable has its type in every reachable state (StreamBufInput's   *)
(* fields).                                                                 *)
THEOREM TypeCorrect ==
    ASSUME MayOverRead = FALSE
    PROVE  Spec => []TypeOK
<1>1. IInv => TypeOK
  BY DEF IInv
<1> QED
  BY <1>1, Invariance, PTL

(* currentPosition(), `remaining` and the buffer tell the truth after every *)
(* turn of every read, seek and preload, whatever pieces the base stream    *)
(* delivers (underflow(), xsgetn(), seekoff(), preloadStreamIntoBuffer()).  *)
THEOREM TellsWhereItIs ==
    ASSUME MayOverRead = FALSE
    PROVE  Spec => []BookkeepingTrue
<1>1. IInv => BookkeepingTrue
  <2> SUFFICES ASSUME IInv PROVE BookkeepingTrue
    OBVIOUS
  <2>1. /\ body.input \in Seq(Token) /\ Len(body.input) \in Nat /\ body.remaining \in Nat
        /\ processed \in Nat /\ area \in Seq(Nat) /\ Len(area) \in Nat /\ BodyTrue(body)
        /\ body.chunked \in BOOLEAN
    BY Fields
  <2>2. DOMAIN area = 1 .. Len(area) /\ DOMAIN body.input = 1 .. Len(body.input)
    BY <2>1, LenProperties
  <2>3. PositionTrue
    <3>1. ASSUME phase = "open"
          PROVE  /\ \A i \in DOMAIN area : area[i] = processed + i
                 /\ {body.input[i].n : i \in {j \in DOMAIN body.input : body.input[j].kind = "byte"}}
                      = processed + Len(area) + 1 .. processed + Len(area) + BytesIn(body.input)
      <4>1. InOrder
        BY <3>1 DEF IInv
      <4>2. PICK p \in Nat, q \in Nat : p = processed + Len(area) /\ Numbered(body.input, p, q)
        <5>1. processed + Len(area) \in Nat
          BY <2>1
        <5> QED
          BY <4>1, <5>1 DEF InOrder
      <4>3. {body.input[i].n : i \in {j \in DOMAIN body.input : body.input[j].kind = "byte"}}
              = p + 1 .. p + BytesIn(body.input)
        BY <2>1, <4>2, NumberedCount
      <4>4. \A i \in DOMAIN area : area[i] = processed + i
        BY <2>2, <4>1 DEF InOrder
      <4> QED
        BY <4>2, <4>3, <4>4
    <3> QED
      BY <3>1 DEF PositionTrue
  <2>4. RemainingTrue
    <3>1. ASSUME body.whole
          PROVE  body.remaining =
                   Cardinality({i \in DOMAIN body.input : \A j \in 1 .. i : body.input[j].kind = "byte"})
      <4>1. PICK n \in Nat, l \in Nat : n = body.remaining /\ l = Len(body.input)
        BY <2>1
      <4>2. InputTrue(body) /\ WholeInput(body)
        BY <2>1, <3>1 DEF BodyTrue
      <4>3. \A j \in 1 .. n : j <= l => body.input[j].kind = "byte"
        BY <4>1, <4>2 DEF InputTrue
      <4>4. n + 1 <= l /\ body.input[n + 1].kind # "byte"
        <5>1. CASE body.chunked
          <6>1. n < l - 3
            BY <4>1, <4>2, <5>1 DEF WholeInput, EndsWhole
          <6>2. n < l
            BY <6>1
          <6>3. body.input[n + 1].kind
                  \in IF body.firstChunk THEN {"size", "last", "junk"} ELSE {"crlf"}
            BY <4>1, <4>2, <5>1, <6>2 DEF InputTrue
          <6> QED
            BY <6>2, <6>3
        <5>2. CASE ~body.chunked
          <6>1. l = n + 3 /\ \A i \in 1 .. 3 : body.input[l - 3 + i] = Other(i)
            BY <4>1, <4>2, <5>2 DEF WholeInput, EndsWhole
          <6>2. l - 3 + 1 = n + 1 /\ n + 1 <= l
            BY <6>1
          <6>3. body.input[n + 1] = Other(1)
            BY <6>1, <6>2
          <6>4. Other(1).kind = "other"
            BY DEF Other
          <6> QED
            BY <6>2, <6>3, <6>4
        <5> QED
          BY <5>1, <5>2
      <4>5. \A i \in 1 .. l : (\A j \in 1 .. i : body.input[j].kind = "byte") <=> i <= n
        <5>1. ASSUME NEW i \in 1 .. l, i <= n PROVE \A j \in 1 .. i : body.input[j].kind = "byte"
          <6>1. \A j \in 1 .. i : j \in 1 .. n /\ j <= l
            BY <5>1
          <6> QED
            BY <4>3, <6>1
        <5>2. ASSUME NEW i \in 1 .. l, ~ i <= n PROVE ~ \A j \in 1 .. i : body.input[j].kind = "byte"
          <6>1. n + 1 \in 1 .. i
            BY <5>2
          <6> QED
            BY <4>4, <6>1
        <5> QED
          BY <5>1, <5>2
      <4>6. {i \in DOMAIN body.input : \A j \in 1 .. i : body.input[j].kind = "byte"} = 1 .. n
        <5>1. \A i \in 1 .. n : i \in 1 .. l
          BY <4>4
        <5>2. \A i \in 1 .. l : i <= n => i \in 1 .. n
          OBVIOUS
        <5> QED
          BY <2>2, <4>1, <4>5, <5>1, <5>2
      <4>7. Cardinality(1 .. n) = n
        <5>1. 1 \in Int /\ n \in Int
          OBVIOUS
        <5>2. Cardinality(1 .. n) = IF 1 > n THEN 0 ELSE n - 1 + 1
          BY <5>1, FS_Interval
        <5> QED
          BY <5>2
      <4> QED
        BY <4>1, <4>6, <4>7
    <3> QED
      BY <3>1 DEF RemainingTrue
  <2>5. BufferFits
    BY DEF IInv
  <2> QED
    BY <2>3, <2>4, <2>5 DEF BookkeepingTrue
<1> QED
  BY <1>1, Invariance, PTL

(* "Should not be able to read this" (test/StreamInputTest.cpp): reading,   *)
(* skipping, preloading or destroying a body leaves the next message whole. *)
THEOREM LeavesTheNextMessage ==
    ASSUME MayOverRead = FALSE
    PROVE  Spec => []NextMessageWhole
<1>1. IInv => NextMessageWhole
  <2> SUFFICES ASSUME IInv, body.whole
               PROVE  /\ Len(body.input) >= Len(Behind)
                      /\ Without(body.input, Len(body.input) - Len(Behind)) = Behind
    BY DEF NextMessageWhole
  <2>1. body.input \in Seq(Token) /\ Len(body.input) \in Nat /\ BodyTrue(body)
    BY Fields
  <2>2. WholeInput(body)
    BY <2>1 DEF BodyTrue
  <2>3. /\ Len(body.input) >= 3
        /\ \A i \in 1 .. 3 : body.input[Len(body.input) - 3 + i] = Other(i)
    BY <2>2 DEF WholeInput, EndsWhole
  <2>4. PICK s \in Seq(Token), l \in Nat : s = body.input /\ l = Len(s) /\ l >= 3
    BY <2>1, <2>3
  <2>5. PICK n \in Nat : n = l - 3 /\ n <= l
    BY <2>4
  <2>6. PICK t \in Seq(Token) : /\ t = Without(s, n) /\ Len(t) = Len(s) - n
                                /\ \A i \in 1 .. Len(s) - n : t[i] = s[n + i]
    <3>1. n <= Len(s)
      BY <2>4, <2>5
    <3> QED
      BY <3>1, WithoutIs
  <2>7. Len(t) = 3 /\ \A i \in 1 .. 3 : t[i] = Behind[i]
    <3>1. Len(t) = 3 /\ \A i \in 1 .. 3 : t[i] = s[n + i]
      BY <2>4, <2>5, <2>6
    <3>2. \A i \in 1 .. 3 : s[n + i] = Other(i)
      BY <2>3, <2>4, <2>5
    <3> QED
      BY <3>1, <3>2, BehindIs
  <2>8. t = Behind
    BY <2>7, BehindIs, SeqEqual
  <2> QED
    BY <2>3, <2>4, <2>5, <2>6, <2>8, BehindIs
<1> QED
  BY <1>1, Invariance, PTL

(* Request.h: the body "will auto eof() when no more data is available":    *)
(* whoever is told of the end, and the destructor's loop too, is behind the *)
(* whole body and its trailers (underflow(), xsgetn(), getNextChunk()).     *)
THEOREM EndIsTheEnd ==
    ASSUME MayOverRead = FALSE, High = {}
    PROVE  Spec => []EofMeansEnd
<1>1. Init => IInv /\ EofTrue
  BY InitIInv
<1>2. IInv /\ EofTrue /\ [Next]_vars => IInv' /\ EofTrue'
  BY StepKeeps
<1>3. IInv /\ EofTrue => EofMeansEnd
  <2> SUFFICES ASSUME IInv, EofTrue, eof, body.whole PROVE body.input = Behind
    BY DEF EofMeansEnd
  <2>1. ~body.chunked /\ body.remaining = 0
    BY DEF EofTrue
  <2>2. body.input \in Seq(Token) /\ BodyTrue(body)
    BY Fields
  <2>3. Len(body.input) = 3 /\ \A i \in 1 .. 3 : body.input[Len(body.input) - 3 + i] = Other(i)
    BY <2>1, <2>2 DEF BodyTrue, WholeInput, EndsWhole
  <2>4. \A i \in 1 .. 3 : body.input[i] = Behind[i]
    <3>1. ASSUME NEW i \in 1 .. 3 PROVE body.input[i] = Other(i)
      BY <2>3
    <3> QED
      BY <3>1, BehindIs
  <2> QED
    BY <2>2, <2>3, <2>4, BehindIs, SeqEqual
<1> QED
  BY <1>1, <1>2, <1>3, PTL DEF Spec
=============================================================================
