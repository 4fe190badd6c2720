-------------------------- MODULE StreamOutput_proof -------------------------
(***************************************************************************)
(* Proofs about StreamOutput, for any buffer size, content lengths and     *)
(* bounds: what is still on its way to the base stream continues, byte by  *)
(* byte, exactly what the peer has read.                                   *)
(*                                                                         *)
(* They need what the comment of outputChunkSize() takes for granted: a    *)
(* size that can be printed.  Without it the framing is lost (see          *)
(* StreamOutputLargeWrite).                                                *)
(***************************************************************************)
EXTENDS StreamOutput, SequenceTheorems, FiniteSetTheorems, TLAPS

(* The largest write and a full buffer make a chunk that has a size line.  *)
SizesPrintable == ChunkBufferSize + MaxWrite <= MaxChunk

-----------------------------------------------------------------------------
(* The inductive invariant.                                                 *)

Token == [kind : {"size", "byte", "crlf", "last", "flush"}, n : Nat]

(* What a call in progress may still ask for when it has sent its bytes.    *)
Tails == {<<>>, <<Flush>>, <<Flush, Flush>>, <<Flush, LastChunk>>, <<LastChunk>>}
EndsBody(t) == t \in {<<Flush, LastChunk>>, <<LastChunk>>}

(* q is a chunk of the m bytes behind byte g, of which the first parts are  *)
(* sent already unless a = 1 (its size) and e = 1 (its end), and then t.    *)
Message(q, g, a, m, e, t) ==
    /\ q \in Seq(Token) /\ Len(q) = a + m + e + Len(t)
    /\ \A i \in 1 .. a : q[i] = Size(m)
    /\ \A i \in 1 .. m : q[a + i] = Byte(g + i)
    /\ \A i \in 1 .. e : q[a + m + i] = Crlf
    /\ \A i \in 1 .. Len(t) : q[a + m + e + i] = t[i]

(* chunkBuffer continues what is on its way.                                *)
BufferContinues(next) ==
    chunked => \A i \in 1 .. ChunkBufferSize - remaining : chunkBuffer[i] = next + i

(* With a content length the peer needs what is on its way and what the     *)
(* writer may still give; the call that completes the body flushes it.      *)
SizedReader(a, m, e, t) ==
    /\ a = 0 /\ e = 0 /\ ~EndsBody(t)
    /\ reader.need = m + remaining
    /\ reader.expects = IF m + remaining = 0 THEN "end" ELSE "byte"
    /\ m > 0 /\ remaining = 0 => t # <<>>

(* Otherwise it is at the part of the chunk that comes next.                *)
ChunkReader(a, m, e, t) ==
    /\ a = 1 => m \in 1 .. MaxChunk /\ e = 1 /\ reader.expects = "size"
    /\ a = 0 /\ m > 0 => e = 1 /\ reader.expects = "byte" /\ reader.need = m
    /\ a = 0 /\ m = 0 /\ e = 1 => reader.expects = "crlf"
    /\ a = 0 /\ m = 0 /\ e = 0 => reader.expects \in {"size", "end"}
    /\ EndsBody(t) => phase = "closing" /\ reader.expects # "end"

InFlight(a, m, e, t) ==
    /\ Message(unsent, reader.got, a, m, e, t)
    /\ accepted = reader.got + m + (IF chunked THEN ChunkBufferSize - remaining ELSE 0)
    /\ BufferContinues(reader.got + m)
    /\ IF reader.sized THEN SizedReader(a, m, e, t) ELSE ChunkReader(a, m, e, t)

OnItsWay ==
    \E a \in 0 .. 1, m \in 0 .. MaxBody, e \in 0 .. 1, t \in Tails : InFlight(a, m, e, t)

(* The two kinds of body, and what is left of them.                         *)
Framing ==
    /\ reader.sized => ~chunked /\ chunkBuffer = <<0>>
    /\ ~reader.sized /\ ~chunked => remaining = 0
    /\ chunked => phase = "open"

(* Once the peer has seen the end nothing more is taken, ...                *)
EndKnown ==
    reader.expects = "end" => reader.got = accepted /\ remaining = 0 /\ ~chunked

(* ... and a flush is still to come if it has to.                           *)
FlushComes ==
    reader.expects = "end" /\ base.dirty /\ ~base.broken =>
        phase = "closing" \/ unsent # <<>>

IInv ==
    /\ TypeOK /\ unsent \in Seq(Token)
    /\ Framing
    /\ WellFramed
    /\ EndKnown
    /\ ~base.broken => OnItsWay
    /\ FlushComes

-----------------------------------------------------------------------------
(* Lemmas about the sequences a call is made of.                            *)

(* The parts themselves.                                                    *)
LEMMA Parts ==
    /\ \A n \in Nat : Size(n) \in Token /\ Byte(n) \in Token
    /\ Crlf \in Token /\ LastChunk \in Token /\ Flush \in Token
    /\ \A n : Size(n).kind = "size" /\ Size(n).n = n
    /\ \A n : Byte(n).kind = "byte" /\ Byte(n).n = n
    /\ Crlf.kind = "crlf" /\ LastChunk.kind = "last" /\ Flush.kind = "flush"
BY DEF Token, Size, Byte, Crlf, LastChunk, Flush

(* What may follow the bytes has none, and loses its first part one by one. *)
LEMMA TailParts ==
    ASSUME NEW t \in Tails
    PROVE  /\ t \in Seq(Token) /\ Len(t) \in Nat
           /\ \A i \in 1 .. Len(t) : t[i].kind # "byte"
           /\ t # <<>> => /\ Tail(t) \in Tails
                          /\ Head(t) = Flush \/ (Head(t) = LastChunk /\ EndsBody(t))
                          /\ Head(t) = Flush => (EndsBody(Tail(t)) <=> EndsBody(t))
                          /\ Head(t) = LastChunk => Tail(t) = <<>>
<1>1. Flush \in Token /\ LastChunk \in Token
  BY Parts
<1>2. Flush # LastChunk /\ Flush.kind # "byte" /\ LastChunk.kind # "byte"
  BY Parts
<1>3. CASE t = <<>>
  BY <1>3 DEF Tails
<1>4. CASE t = <<Flush>>
  <2>1. Head(t) = Flush /\ Tail(t) = <<>> /\ Len(t) = 1 /\ t[1] = Flush
    BY <1>4
  <2> QED
    BY <1>1, <1>2, <1>4, <2>1 DEF Tails, EndsBody
<1>5. CASE t = <<Flush, Flush>>
  <2>1. Head(t) = Flush /\ Tail(t) = <<Flush>> /\ Len(t) = 2 /\ t[1] = Flush /\ t[2] = Flush
    BY <1>5
  <2>2. ~EndsBody(t) /\ ~EndsBody(<<Flush>>)
    BY <1>2, <1>5 DEF EndsBody
  <2> QED
    BY <1>1, <1>2, <1>5, <2>1, <2>2 DEF Tails
<1>6. CASE t = <<Flush, LastChunk>>
  <2>1. Head(t) = Flush /\ Tail(t) = <<LastChunk>> /\ Len(t) = 2 /\ t[1] = Flush /\ t[2] = LastChunk
    BY <1>6
  <2>2. EndsBody(t) /\ EndsBody(<<LastChunk>>)
    BY <1>6 DEF EndsBody
  <2> QED
    BY <1>1, <1>2, <1>6, <2>1, <2>2 DEF Tails
<1>7. CASE t = <<LastChunk>>
  <2>1. Head(t) = LastChunk /\ Tail(t) = <<>> /\ Len(t) = 1 /\ t[1] = LastChunk
    BY <1>7
  <2>2. EndsBody(t)
    BY <1>7 DEF EndsBody
  <2> QED
    BY <1>1, <1>2, <1>7, <2>1, <2>2 DEF Tails
<1> QED
  BY <1>3, <1>4, <1>5, <1>6, <1>7 DEF Tails

(* Both parts of a concatenation.                                           *)
LEMMA ConcatParts ==
    ASSUME NEW S, NEW s \in Seq(S), NEW r \in Seq(S)
    PROVE  /\ s \o r \in Seq(S) /\ Len(s \o r) = Len(s) + Len(r)
           /\ \A i \in 1 .. Len(s) : (s \o r)[i] = s[i]
           /\ \A i \in 1 .. Len(r) : (s \o r)[Len(s) + i] = r[i]
<1>1. /\ Len(s) \in Nat /\ Len(r) \in Nat
      /\ s \o r \in Seq(S) /\ Len(s \o r) = Len(s) + Len(r)
      /\ \A i \in 1 .. Len(s) + Len(r) :
            (s \o r)[i] = IF i <= Len(s) THEN s[i] ELSE r[i - Len(s)]
  OBVIOUS
<1>2. ASSUME NEW i \in 1 .. Len(s) PROVE (s \o r)[i] = s[i]
  <2>1. i \in 1 .. Len(s) + Len(r) /\ i <= Len(s)
    BY <1>1
  <2> QED
    BY <1>1, <2>1
<1>3. ASSUME NEW i \in 1 .. Len(r) PROVE (s \o r)[Len(s) + i] = r[i]
  <2>1. /\ Len(s) + i \in 1 .. Len(s) + Len(r) /\ ~(Len(s) + i <= Len(s))
        /\ Len(s) + i - Len(s) = i
    BY <1>1
  <2> QED
    BY <1>1, <2>1
<1> QED
  BY <1>1, <1>2, <1>3

(* The bytes of a message: a run of m.                                      *)
LEMMA MessageBytes ==
    ASSUME NEW q, NEW g \in Nat, NEW a \in 0 .. 1, NEW m \in Nat, NEW e \in 0 .. 1,
           NEW t \in Tails, Message(q, g, a, m, e, t)
    PROVE  Cardinality({i \in DOMAIN q : q[i].kind = "byte"}) = m
<1>1. /\ q \in Seq(Token) /\ Len(q) = a + m + e + Len(t) /\ Len(t) \in Nat
      /\ \A i \in 1 .. a : q[i] = Size(m)
      /\ \A i \in 1 .. m : q[a + i] = Byte(g + i)
      /\ \A i \in 1 .. e : q[a + m + i] = Crlf
      /\ \A i \in 1 .. Len(t) : q[a + m + e + i] = t[i]
  BY TailParts DEF Message
<1>2. DOMAIN q = 1 .. a + m + e + Len(t)
  BY <1>1
<1>3. ASSUME NEW i \in 1 .. a + m + e + Len(t)
      PROVE  q[i].kind = "byte" <=> i \in a + 1 .. a + m
  <2>1. CASE i <= a
    BY <1>1, <2>1, Parts
  <2>2. CASE i > a /\ i <= a + m
    <3>1. i - a \in 1 .. m /\ a + (i - a) = i
      BY <2>2
    <3>2. q[i] = Byte(g + (i - a))
      BY <1>1, <3>1
    <3> QED
      BY <2>2, <3>2, Parts
  <2>3. CASE i > a + m /\ i <= a + m + e
    <3>1. i - (a + m) \in 1 .. e /\ a + m + (i - (a + m)) = i
      BY <2>3
    <3>2. q[i] = Crlf
      BY <1>1, <3>1
    <3> QED
      BY <2>3, <3>2, Parts
  <2>4. CASE i > a + m + e
    <3>1. i - (a + m + e) \in 1 .. Len(t) /\ a + m + e + (i - (a + m + e)) = i
      BY <1>1, <2>4
    <3>2. q[i] = t[i - (a + m + e)]
      BY <1>1, <3>1
    <3>3. q[i].kind # "byte"
      BY <3>1, <3>2, TailParts
    <3> QED
      BY <2>4, <3>3
  <2> QED
    BY <1>1, <2>1, <2>2, <2>3, <2>4
<1>4. a + 1 .. a + m \subseteq 1 .. a + m + e + Len(t)
  BY <1>1
<1>5. {i \in DOMAIN q : q[i].kind = "byte"} = a + 1 .. a + m
  BY <1>2, <1>3, <1>4
<1>6. /\ a + 1 \in Int /\ a + m \in Int
      /\ a + 1 > a + m <=> m = 0
      /\ a + m - (a + 1) + 1 = m
  OBVIOUS
<1>7. Cardinality(a + 1 .. a + m) = IF a + 1 > a + m THEN 0 ELSE a + m - (a + 1) + 1
  BY <1>6, FS_Interval
<1> QED
  BY <1>5, <1>6, <1>7

(* The first part of a message, and what is left of it.                     *)
LEMMA MessageTail ==
    ASSUME NEW q, NEW g \in Nat, NEW a \in 0 .. 1, NEW m \in Nat, NEW e \in 0 .. 1,
           NEW t \in Tails, Message(q, g, a, m, e, t)
    PROVE  /\ q = <<>> <=> a = 0 /\ m = 0 /\ e = 0 /\ t = <<>>
           /\ a = 1 => Head(q) = Size(m) /\ Message(Tail(q), g, 0, m, e, t)
           /\ a = 0 /\ m > 0 => /\ Head(q) = Byte(g + 1)
                                /\ Message(Tail(q), g + 1, 0, m - 1, e, t)
           /\ a = 0 /\ m = 0 /\ e = 1 => Head(q) = Crlf /\ Message(Tail(q), g, 0, 0, 0, t)
           /\ a = 0 /\ m = 0 /\ e = 0 /\ t # <<>> =>
                Head(q) = Head(t) /\ Message(Tail(q), g, 0, 0, 0, Tail(t))
<1>1. /\ q \in Seq(Token) /\ Len(q) = a + m + e + Len(t)
      /\ t \in Seq(Token) /\ Len(t) \in Nat
      /\ \A i \in 1 .. a : q[i] = Size(m)
      /\ \A i \in 1 .. m : q[a + i] = Byte(g + i)
      /\ \A i \in 1 .. e : q[a + m + i] = Crlf
      /\ \A i \in 1 .. Len(t) : q[a + m + e + i] = t[i]
  BY TailParts DEF Message
<1>2. q = <<>> <=> a = 0 /\ m = 0 /\ e = 0 /\ t = <<>>
  BY <1>1
<1>3. q # <<>> => /\ Head(q) = q[1] /\ Tail(q) \in Seq(Token)
                  /\ Len(Tail(q)) = Len(q) - 1
                  /\ \A i \in 1 .. Len(q) - 1 : Tail(q)[i] = q[i + 1]
  BY <1>1
<1>4. CASE a = 1
  <2>1. q # <<>> /\ Len(Tail(q)) = 0 + m + e + Len(t)
    BY <1>1, <1>2, <1>3, <1>4
  <2>2. /\ \A i \in 1 .. m : Tail(q)[0 + i] = Byte(g + i)
        /\ \A i \in 1 .. e : Tail(q)[0 + m + i] = Crlf
        /\ \A i \in 1 .. Len(t) : Tail(q)[0 + m + e + i] = t[i]
    <3>1. ASSUME NEW i \in 1 .. m PROVE Tail(q)[0 + i] = Byte(g + i)
      <4>1. i \in 1 .. Len(q) - 1 /\ a + i = i + 1 /\ 0 + i = i
        BY <1>1, <1>4
      <4> QED
        BY <1>1, <1>3, <2>1, <4>1
    <3>2. ASSUME NEW i \in 1 .. e PROVE Tail(q)[0 + m + i] = Crlf
      <4>1. 0 + m + i \in 1 .. Len(q) - 1 /\ a + m + i = 0 + m + i + 1
        BY <1>1, <1>4
      <4> QED
        BY <1>1, <1>3, <2>1, <4>1
    <3>3. ASSUME NEW i \in 1 .. Len(t) PROVE Tail(q)[0 + m + e + i] = t[i]
      <4>1. 0 + m + e + i \in 1 .. Len(q) - 1 /\ a + m + e + i = 0 + m + e + i + 1
        BY <1>1, <1>4
      <4> QED
        BY <1>1, <1>3, <2>1, <4>1
    <3> QED
      BY <3>1, <3>2, <3>3
  <2>3. Message(Tail(q), g, 0, m, e, t)
    <3>1. \A i \in 1 .. 0 : Tail(q)[i] = Size(m)
      OBVIOUS
    <3>2. Tail(q) \in Seq(Token)
      BY <1>3, <2>1
    <3> QED
      BY <2>1, <2>2, <3>1, <3>2, Zenon DEF Message
  <2>4. Head(q) = Size(m)
    BY <1>1, <1>3, <1>4, <2>1
  <2> QED
    BY <1>2, <1>4, <2>3, <2>4
<1>5. CASE a = 0 /\ m > 0
  <2>1. q # <<>> /\ Len(Tail(q)) = 0 + (m - 1) + e + Len(t)
    BY <1>1, <1>2, <1>3, <1>5
  <2>2. /\ \A i \in 1 .. m - 1 : Tail(q)[0 + i] = Byte(g + 1 + i)
        /\ \A i \in 1 .. e : Tail(q)[0 + (m - 1) + i] = Crlf
        /\ \A i \in 1 .. Len(t) : Tail(q)[0 + (m - 1) + e + i] = t[i]
    <3>1. ASSUME NEW i \in 1 .. m - 1 PROVE Tail(q)[0 + i] = Byte(g + 1 + i)
      <4>1. /\ i + 1 \in 1 .. m /\ a + (i + 1) = i + 1 /\ 0 + i = i
            /\ g + (i + 1) = g + 1 + i /\ i \in 1 .. Len(q) - 1
        BY <1>1, <1>5
      <4> QED
        BY <1>1, <1>3, <2>1, <4>1
    <3>2. ASSUME NEW i \in 1 .. e PROVE Tail(q)[0 + (m - 1) + i] = Crlf
      <4>1. 0 + (m - 1) + i \in 1 .. Len(q) - 1 /\ a + m + i = 0 + (m - 1) + i + 1
        BY <1>1, <1>5
      <4> QED
        BY <1>1, <1>3, <2>1, <4>1
    <3>3. ASSUME NEW i \in 1 .. Len(t) PROVE Tail(q)[0 + (m - 1) + e + i] = t[i]
      <4>1. /\ 0 + (m - 1) + e + i \in 1 .. Len(q) - 1
            /\ a + m + e + i = 0 + (m - 1) + e + i + 1
        BY <1>1, <1>5
      <4> QED
        BY <1>1, <1>3, <2>1, <4>1
    <3> QED
      BY <3>1, <3>2, <3>3
  <2>3. Message(Tail(q), g + 1, 0, m - 1, e, t)
    <3>1. \A i \in 1 .. 0 : Tail(q)[i] = Size(m - 1)
      OBVIOUS
    <3> QED
      BY <1>3, <2>1, <2>2, <3>1 DEF Message
  <2>4. Head(q) = Byte(g + 1)
    <3>1. 1 \in 1 .. m /\ a + 1 = 1
      BY <1>5
    <3> QED
      BY <1>1, <1>3, <2>1, <3>1
  <2> QED
    BY <1>2, <1>5, <2>3, <2>4
<1>6. CASE a = 0 /\ m = 0 /\ e = 1
  <2>1. q # <<>> /\ Len(Tail(q)) = 0 + 0 + 0 + Len(t)
    BY <1>1, <1>2, <1>3, <1>6
  <2>2. \A i \in 1 .. Len(t) : Tail(q)[0 + 0 + 0 + i] = t[i]
    BY <1>1, <1>3, <1>6, <2>1
  <2>3. Message(Tail(q), g, 0, 0, 0, t)
    BY <1>3, <2>1, <2>2 DEF Message
  <2>4. Head(q) = Crlf
    BY <1>1, <1>3, <1>6, <2>1
  <2> QED
    BY <1>2, <1>6, <2>3, <2>4
<1>7. CASE a = 0 /\ m = 0 /\ e = 0 /\ t # <<>>
  <2>1. /\ Head(t) = t[1] /\ Len(Tail(t)) = Len(t) - 1 /\ Len(t) > 0
        /\ \A i \in 1 .. Len(t) - 1 : Tail(t)[i] = t[i + 1]
    BY <1>1, <1>7
  <2>2. q # <<>> /\ Len(Tail(q)) = 0 + 0 + 0 + Len(Tail(t))
    BY <1>1, <1>2, <1>3, <1>7, <2>1
  <2>3. \A i \in 1 .. Len(Tail(t)) : Tail(q)[0 + 0 + 0 + i] = Tail(t)[i]
    BY <1>1, <1>3, <1>7, <2>1, <2>2
  <2>4. Message(Tail(q), g, 0, 0, 0, Tail(t))
    BY <1>3, <2>2, <2>3 DEF Message
  <2>5. Head(q) = Head(t)
    BY <1>1, <1>3, <1>7, <2>1, <2>2
  <2> QED
    BY <1>2, <1>7, <2>4, <2>5
<1>8. CASE a = 0 /\ m = 0 /\ e = 0 /\ t = <<>>
  BY <1>2, <1>8
<1> QED
  BY <1>4, <1>5, <1>6, <1>7, <1>8

(* What dumpBuffer() and xsputnChunked() send is a message.                 *)
LEMMA ChunkMessage ==
    ASSUME NEW g \in Nat, NEW s \in Seq(Nat), \A i \in 1 .. Len(s) : s[i] = g + i,
           NEW t \in Tails
    PROVE  Message(Chunk(s) \o t, g, 1, Len(s), 1, t)
<1>1. PICK m \in Nat : m = Len(s)
  OBVIOUS
<1>2. PICK u : u = Bytes(s)
  OBVIOUS
<1>3. u \in Seq(Token) /\ Len(u) = m /\ \A i \in 1 .. m : u[i] = Byte(g + i)
  <2>1. DOMAIN s = 1 .. m /\ \A i \in 1 .. m : s[i] = g + i /\ g + i \in Nat
    BY <1>1
  <2>2. u = [i \in 1 .. m |-> Byte(s[i])]
    BY <1>2, <2>1 DEF Bytes
  <2>3. u \in [1 .. m -> Token]
    BY <2>1, <2>2, Parts
  <2>4. u \in Seq(Token)
    BY <2>3, SeqDef
  <2>5. Len(u) = m
    BY <1>1, <2>3, <2>4, LenProperties
  <2> QED
    BY <2>1, <2>2, <2>4, <2>5
<1>4. PICK v : v = <<Size(m)>> \o u
  OBVIOUS
<1>5. /\ v \in Seq(Token) /\ Len(v) = m + 1
      /\ v[1] = Size(m) /\ \A i \in 1 .. m : v[1 + i] = u[i]
  <2>1. <<Size(m)>> \in Seq(Token) /\ Len(<<Size(m)>>) = 1
    BY Parts
  <2> QED
    BY <1>3, <1>4, <2>1
<1>6. PICK x : x = v \o <<Crlf>>
  OBVIOUS
<1>7. /\ x \in Seq(Token) /\ Len(x) = m + 2
      /\ x[m + 2] = Crlf /\ \A i \in 1 .. m + 1 : x[i] = v[i]
  <2>1. <<Crlf>> \in Seq(Token)
    BY Parts
  <2> QED
    BY <1>5, <1>6, <2>1
<1>8. x = Chunk(s)
  BY <1>1, <1>2, <1>4, <1>6 DEF Chunk
<1>9. t \in Seq(Token) /\ Len(t) \in Nat
  BY TailParts
<1>10. PICK y : y = x \o t
  OBVIOUS
<1>11. /\ y \in Seq(Token) /\ Len(y) = m + 2 + Len(t)
       /\ \A i \in 1 .. m + 2 : y[i] = x[i]
       /\ \A i \in 1 .. Len(t) : y[m + 2 + i] = t[i]
  <2>1. /\ y \in Seq(Token) /\ Len(y) = Len(x) + Len(t)
        /\ \A i \in 1 .. Len(x) : y[i] = x[i]
        /\ \A i \in 1 .. Len(t) : y[Len(x) + i] = t[i]
    <3>1. x \in Seq(Token) /\ t \in Seq(Token)
      BY <1>7, <1>9
    <3>2. /\ x \o t \in Seq(Token) /\ Len(x \o t) = Len(x) + Len(t)
          /\ \A i \in 1 .. Len(x) : (x \o t)[i] = x[i]
          /\ \A i \in 1 .. Len(t) : (x \o t)[Len(x) + i] = t[i]
      BY <3>1, ConcatParts
    <3> QED
      BY <1>10, <3>2
  <2> QED
    BY <1>7, <2>1
<1>12. /\ Len(y) = 1 + m + 1 + Len(t)
       /\ \A i \in 1 .. 1 : y[i] = Size(m)
       /\ \A i \in 1 .. m : y[1 + i] = Byte(g + i)
       /\ \A i \in 1 .. 1 : y[1 + m + i] = Crlf
       /\ \A i \in 1 .. Len(t) : y[1 + m + 1 + i] = t[i]
  <2>1. Len(y) = 1 + m + 1 + Len(t)
    BY <1>9, <1>11
  <2>2. y[1] = Size(m)
    <3>1. 1 \in 1 .. m + 1 /\ 1 \in 1 .. m + 2
      OBVIOUS
    <3>2. y[1] = x[1] /\ x[1] = v[1]
      BY <1>7, <1>11, <3>1
    <3> QED
      BY <1>5, <3>2
  <2>3. ASSUME NEW i \in 1 .. m PROVE y[1 + i] = Byte(g + i)
    <3>1. 1 + i \in 1 .. m + 1 /\ 1 + i \in 1 .. m + 2
      OBVIOUS
    <3>2. y[1 + i] = x[1 + i] /\ x[1 + i] = v[1 + i]
      BY <1>7, <1>11, <3>1
    <3> QED
      BY <1>3, <1>5, <3>2
  <2>4. y[1 + m + 1] = Crlf
    <3>1. 1 + m + 1 = m + 2 /\ m + 2 \in 1 .. m + 2
      OBVIOUS
    <3> QED
      BY <1>7, <1>11, <3>1
  <2>5. 1 + m + 1 = m + 2
    OBVIOUS
  <2> QED
    BY <1>11, <2>1, <2>2, <2>3, <2>4, <2>5
<1>13. Message(y, g, 1, m, 1, t)
  BY <1>11, <1>12 DEF Message
<1> QED
  BY <1>1, <1>8, <1>10, <1>13

(* What xsputnLength() sends is one, too.                                   *)
LEMMA BytesMessage ==
    ASSUME NEW g \in Nat, NEW m \in Nat, NEW t \in Tails
    PROVE  Message(Bytes([i \in 1 .. m |-> g + i]) \o t, g, 0, m, 0, t)
<1>1. PICK u : u = Bytes([i \in 1 .. m |-> g + i])
  OBVIOUS
<1>2. u \in Seq(Token) /\ Len(u) = m /\ \A i \in 1 .. m : u[i] = Byte(g + i)
  <2>1. u = [i \in 1 .. m |-> Byte(g + i)]
    BY <1>1 DEF Bytes
  <2>2. u \in [1 .. m -> Token]
    <3>1. \A i \in 1 .. m : g + i \in Nat
      OBVIOUS
    <3> QED
      BY <2>1, <3>1, Parts
  <2>3. u \in Seq(Token)
    BY <2>2, SeqDef
  <2>4. Len(u) = m
    BY <2>2, <2>3, LenProperties
  <2> QED
    BY <2>1, <2>3, <2>4
<1>3. t \in Seq(Token) /\ Len(t) \in Nat
  BY TailParts
<1>4. PICK y : y = u \o t
  OBVIOUS
<1>5. /\ y \in Seq(Token) /\ Len(y) = m + Len(t)
      /\ \A i \in 1 .. m : y[i] = u[i]
      /\ \A i \in 1 .. Len(t) : y[m + i] = t[i]
  <2>1. /\ y \in Seq(Token) /\ Len(y) = Len(u) + Len(t)
        /\ \A i \in 1 .. Len(u) : y[i] = u[i]
        /\ \A i \in 1 .. Len(t) : y[Len(u) + i] = t[i]
    <3>1. u \in Seq(Token) /\ t \in Seq(Token)
      BY <1>2, <1>3
    <3>2. /\ u \o t \in Seq(Token) /\ Len(u \o t) = Len(u) + Len(t)
          /\ \A i \in 1 .. Len(u) : (u \o t)[i] = u[i]
          /\ \A i \in 1 .. Len(t) : (u \o t)[Len(u) + i] = t[i]
      BY <3>1, ConcatParts
    <3> QED
      BY <1>4, <3>2
  <2> QED
    BY <1>2, <2>1
<1>6. /\ Len(y) = 0 + m + 0 + Len(t)
      /\ \A i \in 1 .. m : y[0 + i] = Byte(g + i)
      /\ \A i \in 1 .. Len(t) : y[0 + m + 0 + i] = t[i]
  BY <1>2, <1>3, <1>5
<1>7. Message(y, g, 0, m, 0, t)
  BY <1>5, <1>6 DEF Message
<1> QED
  BY <1>1, <1>4, <1>7

(* A call that sends nothing but its tail.                                  *)
LEMMA TailMessage ==
    ASSUME NEW g \in Nat, NEW t \in Tails PROVE Message(t, g, 0, 0, 0, t)
<1>1. t \in Seq(Token) /\ Len(t) \in Nat
  BY TailParts
<1> QED
  BY <1>1 DEF Message

-----------------------------------------------------------------------------
(* Lemmas about the peer: what it makes of the part it expects.             *)

Readers == [sized : BOOLEAN, need : Nat, got : Nat,
            expects : {"size", "byte", "crlf", "end", "bad"}]

(* A size line that can be printed.                                         *)
LEMMA ReadSize ==
    ASSUME NEW r \in Readers, r.expects = "size", NEW n \in 1 .. MaxChunk,
           NEW x, x = ReadToken(r, Size(n))
    PROVE  /\ x \in Readers /\ x.sized = r.sized /\ x.got = r.got
           /\ x.need = n /\ x.expects = "byte"
<1>1. MaxChunk \in Nat /\ n \in Nat /\ n \in 0 .. MaxChunk /\ n # 0
  BY SizesAssumption DEF SizesAssumption
<1>2. PICK k : k = Size(n)
  OBVIOUS
<1>3. k.kind = "size" /\ k.n = n
  BY <1>2, Parts
<1>4. ReadToken(r, k) = [r EXCEPT !.expects = "byte", !.need = n]
  BY <1>1, <1>3 DEF ReadToken
<1> QED
  BY <1>1, <1>2, <1>4 DEF Readers

(* The next byte of the body, or a padding byte.                            *)
LEMMA ReadNext ==
    ASSUME NEW r \in Readers, r.expects = "byte", r.need > 0,
           NEW b \in {0, r.got + 1}, NEW x, x = ReadToken(r, Byte(b))
    PROVE  /\ x \in Readers /\ x.sized = r.sized
           /\ x.need = r.need - 1
           /\ x.got = IF b = 0 THEN r.got ELSE r.got + 1
           /\ x.expects = IF r.need > 1 THEN "byte"
                          ELSE IF r.sized THEN "end" ELSE "crlf"
<1>1. PICK k : k = Byte(b)
  OBVIOUS
<1>2. k.kind = "byte" /\ k.n = b
  BY <1>1, Parts
<1>3. ReadToken(r, k) = ReadByte(r, b)
  BY <1>2 DEF ReadToken
<1>0. PICK g : g = IF b = 0 THEN r.got ELSE r.got + 1
  OBVIOUS
<1>4. PICK y : y = [r EXCEPT !.need = r.need - 1, !.got = g]
  OBVIOUS
<1>5. /\ y \in Readers /\ y.sized = r.sized /\ y.need = r.need - 1
      /\ y.got = IF b = 0 THEN r.got ELSE r.got + 1
      /\ y.expects = "byte"
  <2>1. g \in Nat /\ r.need - 1 \in Nat
    BY <1>0 DEF Readers
  <2> QED
    BY <1>0, <1>4, <2>1 DEF Readers
<1>6. ReadByte(r, b) = IF y.need > 0 THEN y
                       ELSE Expect(y, IF r.sized THEN "end" ELSE "crlf")
  BY <1>0, <1>4 DEF ReadByte, Readers
<1>7. y.need > 0 <=> r.need > 1
  BY <1>5 DEF Readers
<1>8. CASE r.need > 1
  BY <1>1, <1>3, <1>5, <1>6, <1>7, <1>8
<1>9. CASE ~(r.need > 1)
  <2>1. x = [y EXCEPT !.expects = IF r.sized THEN "end" ELSE "crlf"]
    BY <1>1, <1>3, <1>6, <1>7, <1>9 DEF Expect
  <2> QED
    BY <1>5, <1>9, <2>1 DEF Readers
<1> QED
  BY <1>8, <1>9

(* The end of a chunk, and the last chunk.                                  *)
LEMMA ReadEnds ==
    ASSUME NEW r \in Readers, NEW x
    PROVE  /\ r.expects = "crlf" /\ x = ReadToken(r, Crlf) =>
                /\ x \in Readers /\ x.sized = r.sized /\ x.got = r.got
                /\ x.need = r.need /\ x.expects = "size"
           /\ r.expects = "size" /\ x = ReadToken(r, LastChunk) =>
                /\ x \in Readers /\ x.sized = r.sized /\ x.got = r.got
                /\ x.need = r.need /\ x.expects = "end"
<1>1. ASSUME r.expects = "crlf", x = ReadToken(r, Crlf)
      PROVE  x = [r EXCEPT !.expects = "size"]
  <2>1. PICK k : k = Crlf
    OBVIOUS
  <2>2. k.kind = "crlf"
    BY <2>1, Parts
  <2>3. ReadToken(r, k) = Expect(r, "size")
    BY <1>1, <2>2 DEF ReadToken
  <2> QED
    BY <1>1, <2>1, <2>3 DEF Expect
<1>2. ASSUME r.expects = "size", x = ReadToken(r, LastChunk)
      PROVE  x = [r EXCEPT !.expects = "end"]
  <2>1. PICK k : k = LastChunk
    OBVIOUS
  <2>2. k.kind = "last"
    BY <2>1, Parts
  <2>3. ReadToken(r, k) = Expect(r, "end")
    BY <1>2, <2>2 DEF ReadToken
  <2> QED
    BY <1>2, <2>1, <2>3 DEF Expect
<1> QED
  BY <1>1, <1>2 DEF Readers

-----------------------------------------------------------------------------
(* Lemmas about the state.                                                  *)

(* A call of typed parts is of its type.                                    *)
LEMMA UnsentTyped ==
    ASSUME NEW q \in Seq(Token)
    PROVE  \A i \in DOMAIN q :
             q[i] \in [kind : {"size", "byte", "crlf", "last", "flush"}, n : Nat]
<1>1. \A i \in DOMAIN q : q[i] \in Token
  OBVIOUS
<1> QED
  BY <1>1 DEF Token

(* A chunk is a call.                                                       *)
LEMMA ChunkTyped ==
    ASSUME NEW s \in Seq(Nat) PROVE Chunk(s) \in Seq(Token)
<1>1. /\ Len(s) \in Nat /\ DOMAIN s = 1 .. Len(s)
      /\ \A i \in 1 .. Len(s) : s[i] \in Nat
  OBVIOUS
<1>2. Bytes(s) \in [1 .. Len(s) -> Token]
  BY <1>1, Parts DEF Bytes
<1>3. Bytes(s) \in Seq(Token)
  BY <1>1, <1>2, SeqDef
<1>4. <<Size(Len(s))>> \in Seq(Token) /\ <<Crlf>> \in Seq(Token)
  BY <1>1, Parts
<1>5. PICK u : u = Bytes(s)
  OBVIOUS
<1>6. PICK v \in Seq(Token) : v = <<Size(Len(s))>> \o u
  BY <1>3, <1>4, <1>5, ConcatParts
<1>7. PICK x \in Seq(Token) : x = v \o <<Crlf>>
  BY <1>4, <1>6, ConcatParts
<1> QED
  BY <1>5, <1>6, <1>7 DEF Chunk

(* The filled part of chunkBuffer.                                          *)
LEMMA BufferedIs ==
    ASSUME TypeOK, chunked
    PROVE  /\ ChunkBufferSize - remaining \in 0 .. ChunkBufferSize
           /\ Buffered \in Seq(Nat)
           /\ Len(Buffered) = ChunkBufferSize - remaining
           /\ \A i \in 1 .. ChunkBufferSize - remaining : Buffered[i] = chunkBuffer[i]
<1>1. PICK n : n = ChunkBufferSize - remaining
  OBVIOUS
<1>2. n \in 0 .. ChunkBufferSize /\ ChunkBufferSize \in Nat
  BY <1>1, SizesAssumption DEF TypeOK, SizesAssumption
<1>3. /\ chunkBuffer \in Seq(0 .. MaxBody) /\ Len(chunkBuffer) = ChunkBufferSize
      /\ \A i \in 1 .. ChunkBufferSize : chunkBuffer[i] \in Nat
  <2>1. chunkBuffer \in Seq(0 .. MaxBody) /\ Len(chunkBuffer) = ChunkBufferSize
    BY DEF TypeOK
  <2>2. PICK S \in SUBSET Nat : S = 0 .. MaxBody
    BY SizesAssumption DEF SizesAssumption
  <2>3. DOMAIN chunkBuffer = 1 .. ChunkBufferSize
    BY <2>1
  <2>4. \A i \in DOMAIN chunkBuffer : chunkBuffer[i] \in S
    <3>1. chunkBuffer \in Seq(S)
      BY <2>1, <2>2
    <3> QED
      BY <3>1
  <2> QED
    BY <2>1, <2>2, <2>3, <2>4
<1>4. PICK u : u = Buffered
  OBVIOUS
<1>5. u = [i \in 1 .. n |-> chunkBuffer[i]]
  BY <1>1, <1>2, <1>3, <1>4 DEF Buffered
<1>6. \A i \in 1 .. n : i \in 1 .. ChunkBufferSize
  BY <1>2
<1>7. u \in [1 .. n -> Nat] /\ n \in Nat
  BY <1>2, <1>3, <1>5, <1>6
<1>8. u \in Seq(Nat)
  BY <1>7, SeqDef
<1>9. Len(u) = n
  BY <1>7, <1>8, LenProperties
<1> QED
  BY <1>1, <1>2, <1>4, <1>5, <1>8, <1>9

(* Between two calls nothing is on its way.                                 *)
LEMMA IdleReader ==
    ASSUME IInv, unsent = <<>>, ~base.broken
    PROVE  InFlight(0, 0, 0, <<>>)
<1>1. PICK a \in 0 .. 1, m \in 0 .. MaxBody, e \in 0 .. 1, t \in Tails :
            InFlight(a, m, e, t)
  BY DEF IInv, OnItsWay
<1>2. reader.got \in Nat /\ m \in Nat
  BY DEF IInv, TypeOK
<1>3. a = 0 /\ m = 0 /\ e = 0 /\ t = <<>>
  BY <1>1, <1>2, MessageTail DEF InFlight
<1> QED
  BY <1>1, <1>3

(* What the state is made of, without the shape of the call.                *)
LEMMA ReaderTyped ==
    ASSUME TypeOK
    PROVE  /\ reader \in Readers /\ reader.got \in 0 .. MaxBody
           /\ remaining \in Nat /\ accepted \in 0 .. MaxBody
           /\ MaxBody \in Nat /\ ChunkBufferSize \in Nat \ {0}
           /\ chunked \in BOOLEAN /\ base.broken \in BOOLEAN /\ base.dirty \in BOOLEAN
BY SizesAssumption DEF TypeOK, Readers, SizesAssumption

(* Two short sequences.                                                     *)
LEMMA Pair ==
    ASSUME NEW S, NEW x \in S, NEW y \in S
    PROVE  <<x>> \o <<y>> = <<x, y>> /\ <<>> \o <<x>> = <<x>>
<1>6. <<x>> \in Seq(S) /\ <<y>> \in Seq(S)
  OBVIOUS
<1>7. <<x, y>> \in Seq(S)
  OBVIOUS
<1>8. PICK k \in Seq(S) : k = <<x>>
  BY <1>6
<1>9. PICK l \in Seq(S) : l = <<y>>
  BY <1>6
<1>10. PICK p \in Seq(S) : p = <<x, y>>
  BY <1>7
<1>1. k = <<x>> /\ l = <<y>> /\ p = <<x, y>>
  BY <1>8, <1>9, <1>10
<1>2. /\ Len(k) = 1 /\ k[1] = x /\ Len(l) = 1 /\ l[1] = y
      /\ Len(p) = 2 /\ p[1] = x /\ p[2] = y
  BY <1>1
<1>3. k \o l \in Seq(S) /\ Len(k \o l) = 2 /\ (k \o l)[1] = x /\ (k \o l)[2] = y
  <2>1. k \in Seq(S) /\ l \in Seq(S)
    OBVIOUS
  <2>2. /\ k \o l \in Seq(S) /\ Len(k \o l) = Len(k) + Len(l)
        /\ \A i \in 1 .. Len(k) : (k \o l)[i] = k[i]
        /\ \A i \in 1 .. Len(l) : (k \o l)[Len(k) + i] = l[i]
    BY <2>1, ConcatParts
  <2>3. 1 \in 1 .. Len(k) /\ 1 \in 1 .. Len(l) /\ Len(k) + 1 = 2 /\ Len(k) + Len(l) = 2
    BY <1>2
  <2> QED
    BY <1>2, <2>2, <2>3
<1>4. k \o l = p
  <2>1. p \in Seq(S) /\ \A i \in 1 .. 2 : i = 1 \/ i = 2
    OBVIOUS
  <2>2. \A i \in 1 .. Len(p) : (k \o l)[i] = p[i]
    BY <1>2, <1>3, <2>1
  <2> QED
    BY <1>2, <1>3, <2>1, <2>2, SeqEqual
<1>5. <<>> \o k = k
  <2>1. k \in Seq(S)
    OBVIOUS
  <2> QED
    BY <2>1, ConcatEmptySeq
<1> QED
  BY <1>1, <1>4, <1>5

(* Two parts behind a call, given one by one.                               *)
LEMMA TwoParts ==
    ASSUME NEW c \in Seq(Token), NEW x \in Token, NEW y \in Token
    PROVE  (c \o <<x>>) \o <<y>> = c \o <<x, y>>
<1>5. <<x>> \in Seq(Token) /\ <<y>> \in Seq(Token)
  OBVIOUS
<1>1. PICK k \in Seq(Token) : k = <<x>>
  BY <1>5
<1>2. PICK l \in Seq(Token) : l = <<y>>
  BY <1>5
<1>3. (c \o k) \o l = c \o (k \o l)
  BY ConcatAssociative
<1>4. k \o l = <<x, y>>
  BY <1>1, <1>2, Pair
<1> QED
  BY <1>1, <1>2, <1>3, <1>4

(* dumpBuffer() and one part more: all that was buffered, then the rest.    *)
LEMMA DumpMessage ==
    ASSUME IInv, NEW f \in {Flush, LastChunk}, NEW t, t = <<Flush, f>>
    PROVE  /\ t \in Tails /\ Dump \o <<f>> \in Seq(Token)
           /\ ~base.broken /\ unsent = <<>> => \E a \in 0 .. 1 :
                /\ a = 1 <=> chunked /\ ChunkBufferSize - remaining > 0
                /\ Message(Dump \o <<f>>, reader.got, a,
                           IF chunked THEN ChunkBufferSize - remaining ELSE 0, a, t)
<1> USE ReaderTyped DEF IInv
<1>1. t \in Tails /\ t \in Seq(Token) /\ f \in Token
  BY Parts DEF Tails
<1>2. CASE chunked /\ remaining # ChunkBufferSize
  <2>1. PICK s \in Seq(Nat) : s = Buffered
    BY <1>2, BufferedIs
  <2>2. /\ Len(s) = ChunkBufferSize - remaining /\ Len(s) > 0
        /\ \A i \in 1 .. Len(s) : s[i] = chunkBuffer[i]
    BY <1>2, <2>1, BufferedIs
  <2>3. PICK c \in Seq(Token) : c = Chunk(s)
    BY ChunkTyped
  <2>4. Dump \o <<f>> = c \o t
    <3>1. Dump = c \o <<Flush>>
      BY <1>2, <2>1, <2>3 DEF Dump
    <3>2. (c \o <<Flush>>) \o <<f>> = c \o <<Flush, f>>
      BY <1>1, Parts, TwoParts
    <3> QED
      BY <3>1, <3>2
  <2>5. c \o t \in Seq(Token)
    BY <1>1, ConcatParts
  <2>6. ASSUME ~base.broken, unsent = <<>>
        PROVE  Message(c \o t, reader.got, 1, Len(s), 1, t)
    <3>0. BufferContinues(reader.got + 0)
      BY <2>6, IdleReader DEF InFlight
    <3>2. reader.got \in Nat
      BY DEF Readers
    <3>1. \A i \in 1 .. Len(s) : s[i] = reader.got + i
      <4>1. PICK g \in Nat : g = reader.got
        BY <3>2
      <4>2. \A i \in 1 .. ChunkBufferSize - remaining : chunkBuffer[i] = g + 0 + i
        BY <1>2, <3>0, <4>1 DEF BufferContinues
      <4>3. ASSUME NEW i \in 1 .. Len(s) PROVE s[i] = g + i
        <5>1. i \in 1 .. ChunkBufferSize - remaining /\ i \in Nat /\ s[i] = chunkBuffer[i]
          BY <2>2
        <5> QED
          BY <4>2, <5>1
      <4> QED
        BY <4>1, <4>3
    <3> QED
      BY <1>1, <2>3, <3>1, <3>2, ChunkMessage
  <2>7. 1 = 1 <=> chunked /\ ChunkBufferSize - remaining > 0
    BY <1>2, <2>2
  <2>8. ~base.broken /\ unsent = <<>> =>
            Message(c \o t, reader.got, 1, ChunkBufferSize - remaining, 1, t)
    BY <2>2, <2>6
  <2>9. (IF chunked THEN ChunkBufferSize - remaining ELSE 0) = ChunkBufferSize - remaining
    BY <1>2
  <2>10. 1 \in 0 .. 1
    OBVIOUS
  <2> QED
    BY <1>1, <2>4, <2>5, <2>7, <2>8, <2>9, <2>10, Zenon
<1>3. CASE ~(chunked /\ remaining # ChunkBufferSize)
  <2>1. Dump \o <<f>> = t
    <3>1. Dump = <<>> \o <<Flush>>
      BY <1>3, Zenon DEF Dump
    <3>2. <<>> \o <<Flush>> = <<Flush>> /\ <<Flush>> \o <<f>> = t
      BY <1>1, Parts, Pair
    <3> QED
      BY <3>1, <3>2
  <2>2. (IF chunked THEN ChunkBufferSize - remaining ELSE 0) = 0
    BY <1>3
  <2>3. Message(t, reader.got, 0, 0, 0, t)
    BY <1>1, TailMessage DEF Readers
  <2>4. ~(chunked /\ ChunkBufferSize - remaining > 0)
    BY <1>3
  <2>5. /\ 0 \in 0 .. 1
        /\ 0 = 1 <=> chunked /\ ChunkBufferSize - remaining > 0
    BY <2>4
  <2> QED
    BY <1>1, <2>1, <2>2, <2>3, <2>5
<1> QED
  BY <1>2, <1>3

(* A reader the peer may become is of its type.                             *)
LEMMA ReaderIn ==
    ASSUME NEW r \in Readers, r.got \in 0 .. MaxBody
    PROVE  r \in [sized : BOOLEAN, need : Nat, got : 0 .. MaxBody,
                  expects : {"size", "byte", "crlf", "end", "bad"}]
BY DEF Readers

(* While a body is chunked the peer waits for more of it.                   *)
LEMMA ChunkedOpen ==
    ASSUME IInv, chunked
    PROVE  ~reader.sized /\ reader.expects # "end" /\ phase = "open"
BY DEF IInv, Framing, EndKnown

(* Nothing on its way, spelled out.                                         *)
LEMMA IdleState ==
    ASSUME IInv, unsent = <<>>, ~base.broken
    PROVE  /\ accepted = reader.got + (IF chunked THEN ChunkBufferSize - remaining ELSE 0)
           /\ chunked => \A i \in 1 .. ChunkBufferSize - remaining :
                           chunkBuffer[i] = reader.got + i
           /\ reader.sized => /\ reader.need = remaining
                              /\ reader.expects = IF remaining = 0 THEN "end" ELSE "byte"
           /\ ~reader.sized => reader.expects \in {"size", "end"}
<1>1. InFlight(0, 0, 0, <<>>)
  BY IdleReader
<1>2. PICK g \in Nat : g = reader.got
  BY ReaderTyped DEF IInv, Readers
<1>3. g + 0 = g /\ 0 + remaining = remaining
  BY <1>2, ReaderTyped DEF IInv
<1>4. accepted = reader.got + 0 + (IF chunked THEN ChunkBufferSize - remaining ELSE 0)
  BY <1>1 DEF InFlight
<1>5. BufferContinues(g)
  BY <1>1, <1>2, <1>3 DEF InFlight
<1>6. reader.sized => SizedReader(0, 0, 0, <<>>)
  BY <1>1 DEF InFlight
<1>7. ~reader.sized => ChunkReader(0, 0, 0, <<>>)
  BY <1>1 DEF InFlight
<1>8. reader.sized => /\ reader.need = remaining
                      /\ reader.expects = IF remaining = 0 THEN "end" ELSE "byte"
  BY <1>3, <1>6 DEF SizedReader
<1>9. ~reader.sized => reader.expects \in {"size", "end"}
  BY <1>7 DEF ChunkReader
<1> QED
  BY <1>2, <1>3, <1>4, <1>5, <1>8, <1>9 DEF BufferContinues

(* Only the phase and the flag of the base change between two calls.        *)
LEMMA StillIdle ==
    ASSUME IInv, unsent = <<>>, ~base.broken,
           UNCHANGED <<chunked, remaining, chunkBuffer, unsent, reader, accepted>>
    PROVE  OnItsWay'
<1>1. InFlight(0, 0, 0, <<>>)
  BY IdleReader
<1>2. Message(unsent', reader'.got, 0, 0, 0, <<>>) /\ BufferContinues(reader.got + 0)'
  BY <1>1 DEF InFlight, BufferContinues
<1>3. reader.sized => SizedReader(0, 0, 0, <<>>)'
  BY <1>1 DEF InFlight, SizedReader
<1>4. ~reader.sized => ChunkReader(0, 0, 0, <<>>)'
  BY <1>1 DEF InFlight, ChunkReader, EndsBody
<1>5. InFlight(0, 0, 0, <<>>)'
  BY <1>1, <1>2, <1>3, <1>4 DEF InFlight
<1>6. 0 \in 0 .. 1 /\ 0 \in 0 .. MaxBody /\ <<>> \in Tails
  BY ReaderTyped DEF Tails, IInv
<1> QED
  BY <1>5, <1>6 DEF OnItsWay

(* The bytes of a write.                                                    *)
LEMMA GivenIs ==
    ASSUME NEW g \in Nat, NEW n \in Nat, NEW s, s = [i \in 1 .. n |-> g + i]
    PROVE  s \in Seq(Nat) /\ Len(s) = n /\ \A i \in 1 .. n : s[i] = g + i
<1>1. \A i \in 1 .. n : g + i \in Nat
  OBVIOUS
<1>2. s \in [1 .. n -> Nat]
  BY <1>1
<1>3. s \in Seq(Nat)
  BY <1>2, SeqDef
<1>4. Len(s) = n
  BY <1>2, <1>3, LenProperties
<1> QED
  BY <1>3, <1>4

(* How many bytes a write may have.                                         *)
LEMMA PutCount ==
    ASSUME TypeOK, NEW count \in 1 .. Lesser(MaxWrite, MaxBody - accepted)
    PROVE  /\ count \in Nat /\ count > 0 /\ count <= MaxWrite
           /\ accepted + count \in 0 .. MaxBody
<1>1. MaxWrite \in Nat /\ MaxBody \in Nat /\ accepted \in 0 .. MaxBody
  BY SizesAssumption DEF SizesAssumption, TypeOK
<1> QED
  BY <1>1 DEF Lesser

(* dumpBuffer() always ends in a flush.                                     *)
LEMMA DumpNonempty ==
    ASSUME IInv, NEW f \in {Flush, LastChunk} PROVE Dump \o <<f>> # <<>>
<1>1. PICK l : l = <<f>>
  OBVIOUS
<1>2. f \in Token /\ Flush \in Token
  BY Parts
<1>3. l \in Seq(Token) /\ Len(l) = 1
  BY <1>1, <1>2
<1>4. PICK d \in Seq(Token) : d = Dump
  <2>1. <<Flush>> \in Seq(Token)
    BY <1>2
  <2>2. PICK k \in Seq(Token) : k = <<Flush>>
    BY <2>1
  <2>3. CASE chunked /\ remaining # ChunkBufferSize
    <3>1. PICK s \in Seq(Nat) : s = Buffered
      BY <2>3, BufferedIs DEF IInv
    <3>2. PICK c \in Seq(Token) : c = Chunk(s)
      BY ChunkTyped
    <3>3. c \o k \in Seq(Token)
      BY ConcatParts
    <3> QED
      BY <2>2, <2>3, <3>1, <3>2, <3>3 DEF Dump
  <2>4. CASE ~(chunked /\ remaining # ChunkBufferSize)
    <3>1. Dump = <<>> \o k
      BY <2>2, <2>4, Zenon DEF Dump
    <3>2. <<>> \o k \in Seq(Token)
      OBVIOUS
    <3> QED
      BY <3>1, <3>2
  <2> QED
    BY <2>3, <2>4
<1>5. Len(d \o l) = Len(d) + Len(l) /\ Len(d) \in Nat
  <2>1. d \in Seq(Token) /\ l \in Seq(Token)
    BY <1>3
  <2> QED
    BY <2>1, ConcatParts
<1>6. Len(d \o l) # 0 /\ Len(<<>>) = 0
  BY <1>3, <1>5
<1> QED
  BY <1>1, <1>4, <1>6

-----------------------------------------------------------------------------
(* The writer's calls.                                                      *)

(* xsputnChunked() and overflowChunked() into the buffer.                   *)
LEMMA PutBufferedKeeps ==
    ASSUME IInv, NEW count \in 1 .. Lesser(MaxWrite, MaxBody - accepted),
           PutBuffered(count)
    PROVE  IInv'
<1> USE DEF IInv
<1>1. /\ count \in Nat /\ count > 0 /\ accepted + count \in 0 .. MaxBody
      /\ remaining \in Nat /\ accepted \in 0 .. MaxBody
      /\ MaxBody \in Nat /\ ChunkBufferSize \in Nat
  BY PutCount, ReaderTyped
<1>2. /\ unsent = <<>> /\ chunked /\ count <= remaining
      /\ remaining' = remaining - count /\ accepted' = accepted + count
      /\ UNCHANGED <<chunked, unsent, phase, base, reader>>
  BY DEF PutBuffered, Idle
<1>3. /\ ~reader.sized /\ reader.expects # "end" /\ phase = "open"
      /\ remaining <= ChunkBufferSize
  BY <1>2, ChunkedOpen DEF TypeOK
<1>4. PICK u \in Int : u = ChunkBufferSize - remaining
  BY <1>1
<1>5. PICK S \in SUBSET Nat : S = 0 .. MaxBody
  BY <1>1
<1>6. /\ chunkBuffer \in Seq(S) /\ Len(chunkBuffer) = ChunkBufferSize
      /\ DOMAIN chunkBuffer = 1 .. ChunkBufferSize
  BY <1>2, <1>5 DEF TypeOK
<1>7. /\ DOMAIN chunkBuffer' = 1 .. ChunkBufferSize
      /\ chunkBuffer' = [i \in 1 .. ChunkBufferSize |-> chunkBuffer'[i]]
      /\ \A i \in 1 .. ChunkBufferSize :
           /\ i \in u + 1 .. u + count => chunkBuffer'[i] = accepted + (i - u)
           /\ i \notin u + 1 .. u + count => chunkBuffer'[i] = chunkBuffer[i]
  <2>1. chunkBuffer' = [i \in 1 .. ChunkBufferSize |->
                          IF i \in u + 1 .. u + count
                          THEN Given(count)[i - u] ELSE chunkBuffer[i]]
    BY <1>4, <1>6 DEF PutBuffered
  <2>2. \A i \in u + 1 .. u + count : Given(count)[i - u] = accepted + (i - u)
    <3>1. \A i \in u + 1 .. u + count : i - u \in 1 .. count
      BY <1>1
    <3>2. \A i \in 1 .. count : Given(count)[i] = accepted + i
      BY DEF Given
    <3> QED
      BY <3>1, <3>2
  <2> QED
    BY <2>1, <2>2
<1>8. chunkBuffer' \in Seq(S) /\ Len(chunkBuffer') = ChunkBufferSize
  <2>1. \A i \in 1 .. ChunkBufferSize : chunkBuffer'[i] \in S
    <3>1. ASSUME NEW i \in 1 .. ChunkBufferSize, i \in u + 1 .. u + count
          PROVE  chunkBuffer'[i] \in S
      <4>1. chunkBuffer'[i] = accepted + (i - u)
        BY <1>7, <3>1
      <4>2. accepted + (i - u) \in 0 .. MaxBody
        BY <1>1, <3>1
      <4> QED
        BY <1>5, <4>1, <4>2
    <3>2. ASSUME NEW i \in 1 .. ChunkBufferSize, i \notin u + 1 .. u + count
          PROVE  chunkBuffer'[i] \in S
      BY <1>6, <1>7, <3>2
    <3> QED
      BY <3>1, <3>2
  <2>2. PICK d : d = chunkBuffer'
    OBVIOUS
  <2>3. d \in [1 .. ChunkBufferSize -> S]
    BY <1>7, <2>1, <2>2
  <2>4. d \in Seq(S)
    BY <1>1, <2>3, SeqDef
  <2>5. Len(d) = ChunkBufferSize
    BY <1>1, <2>3, <2>4, LenProperties
  <2> QED
    BY <2>2, <2>4, <2>5
<1>9. TypeOK' /\ unsent' \in Seq(Token)
  <2>1. remaining' \in Nat /\ remaining' <= ChunkBufferSize /\ accepted' \in 0 .. MaxBody
    BY <1>1, <1>2, <1>3
  <2>2. chunkBuffer' \in Seq(0 .. MaxBody) /\ Len(chunkBuffer') = ChunkBufferSize
    BY <1>5, <1>8
  <2> QED
    BY <1>2, <2>1, <2>2 DEF TypeOK
<1>10. Framing' /\ WellFramed' /\ EndKnown' /\ FlushComes'
  BY <1>2, <1>3 DEF Framing, WellFramed, EndKnown, FlushComes
<1>11. ASSUME ~base.broken PROVE InFlight(0, 0, 0, <<>>)'
  <2>1. PICK g \in Nat : g = reader.got /\ g = reader'.got
    BY <1>2, ReaderTyped DEF Readers
  <2>2. /\ accepted = g + u
        /\ \A i \in 1 .. u : chunkBuffer[i] = g + i
        /\ reader.expects = "size"
    BY <1>2, <1>3, <1>4, <1>11, <2>1, IdleState
  <2>3. /\ ChunkBufferSize - remaining' = u + count
        /\ u \in 0 .. ChunkBufferSize /\ u + count <= ChunkBufferSize
    BY <1>1, <1>2, <1>3, <1>4
  <2>4. accepted' = g + 0 + (ChunkBufferSize - remaining')
    BY <1>1, <1>2, <2>2, <2>3
  <2>5. ASSUME NEW i \in 1 .. u + count PROVE chunkBuffer'[i] = g + 0 + i
    <3>1. i \in 1 .. ChunkBufferSize /\ (i \in 1 .. u \/ i \in u + 1 .. u + count)
      BY <1>1, <2>3
    <3>2. CASE i \in 1 .. u
      <4>1. i \notin u + 1 .. u + count
        BY <1>1, <3>2
      <4> QED
        BY <1>7, <2>2, <3>1, <3>2, <4>1
    <3>3. CASE i \in u + 1 .. u + count
      <4>1. accepted + (i - u) = g + 0 + i
        BY <1>1, <2>2, <3>3
      <4> QED
        BY <1>7, <3>1, <3>3, <4>1
    <3> QED
      BY <3>1, <3>2, <3>3
  <2>6. Message(unsent', g, 0, 0, 0, <<>>)
    BY <1>2, TailMessage DEF Tails
  <2>7. ChunkReader(0, 0, 0, <<>>)'
    BY <1>2, <2>2 DEF ChunkReader, EndsBody
  <2>8. BufferContinues(reader.got + 0)'
    BY <2>1, <2>3, <2>5 DEF BufferContinues
  <2> QED
    BY <1>2, <1>3, <2>1, <2>4, <2>6, <2>7, <2>8 DEF InFlight
<1>12. ~base'.broken => OnItsWay'
  <2>1. 0 \in 0 .. 1 /\ 0 \in 0 .. MaxBody /\ <<>> \in Tails
    BY <1>1 DEF Tails
  <2> QED
    BY <1>2, <1>11, <2>1 DEF OnItsWay
<1> QED
  BY <1>9, <1>10, <1>12

(* xsputnChunked() of more than the buffer holds: one chunk.                *)
LEMMA PutChunkKeeps ==
    ASSUME SizesPrintable, IInv,
           NEW count \in 1 .. Lesser(MaxWrite, MaxBody - accepted), PutChunk(count)
    PROVE  IInv'
<1> USE DEF IInv
<1>1. /\ count \in Nat /\ count > 0 /\ count <= MaxWrite /\ accepted + count \in 0 .. MaxBody
      /\ remaining \in Nat /\ accepted \in 0 .. MaxBody
      /\ MaxBody \in Nat /\ ChunkBufferSize \in Nat
  BY PutCount, ReaderTyped
<1>2. /\ unsent = <<>> /\ chunked
      /\ unsent' = Chunk(Buffered \o Given(count))
      /\ remaining' = ChunkBufferSize /\ accepted' = accepted + count
      /\ UNCHANGED <<chunked, chunkBuffer, phase, base, reader>>
  BY DEF PutChunk, Idle
<1>3. ~reader.sized /\ reader.expects # "end" /\ phase = "open"
  BY <1>2, ChunkedOpen
<1>4. PICK u \in 0 .. ChunkBufferSize : u = ChunkBufferSize - remaining
  BY <1>2, BufferedIs
<1>5. PICK s \in Seq(Nat) :
        /\ s = Buffered \o Given(count)
        /\ Len(s) = u + count
        /\ \A i \in 1 .. u : s[i] = chunkBuffer[i]
        /\ \A i \in 1 .. count : s[u + i] = accepted + i
  <2>1. PICK k \in Seq(Nat) : k = Buffered
    BY <1>2, BufferedIs
  <2>2. Len(k) = u /\ \A i \in 1 .. u : k[i] = chunkBuffer[i]
    BY <1>2, <1>4, <2>1, BufferedIs
  <2>3. PICK l : l = Given(count)
    OBVIOUS
  <2>4. l \in Seq(Nat) /\ Len(l) = count /\ \A i \in 1 .. count : l[i] = accepted + i
    <3>1. accepted \in Nat /\ l = [i \in 1 .. count |-> accepted + i]
      BY <1>1, <2>3 DEF Given
    <3> QED
      BY <1>1, <3>1, GivenIs
  <2>5. /\ k \o l \in Seq(Nat) /\ Len(k \o l) = Len(k) + Len(l)
        /\ \A i \in 1 .. Len(k) : (k \o l)[i] = k[i]
        /\ \A i \in 1 .. Len(l) : (k \o l)[Len(k) + i] = l[i]
    <3>1. k \in Seq(Nat) /\ l \in Seq(Nat)
      BY <2>4
    <3> HIDE DEF IInv
    <3> QED
      BY <3>1, ConcatParts
  <2>6. PICK x \in Seq(Nat) : x = k \o l
    BY <2>5
  <2>7. /\ Len(x) = u + count
        /\ \A i \in 1 .. u : x[i] = chunkBuffer[i]
        /\ \A i \in 1 .. count : x[u + i] = accepted + i
    BY <2>2, <2>4, <2>5, <2>6
  <2> QED
    BY <2>1, <2>3, <2>6, <2>7
<1>6. PICK c \in Seq(Token) : c = Chunk(s)
  BY ChunkTyped
<1>7. unsent' = c
  BY <1>2, <1>5, <1>6
<1>8. TypeOK' /\ unsent' \in Seq(Token)
  <2>1. \A i \in DOMAIN c :
          c[i] \in [kind : {"size", "byte", "crlf", "last", "flush"}, n : Nat]
    BY UnsentTyped
  <2> QED
    BY <1>1, <1>2, <1>7, <2>1 DEF TypeOK
<1>9. Framing' /\ WellFramed' /\ EndKnown' /\ FlushComes'
  BY <1>2, <1>3 DEF Framing, WellFramed, EndKnown, FlushComes
<1>10. ASSUME ~base.broken
       PROVE  u + count \in 0 .. MaxBody /\ InFlight(1, u + count, 1, <<>>)'
  <2>1. PICK g \in Nat : g = reader.got /\ g = reader'.got
    BY <1>2, ReaderTyped DEF Readers
  <2>2. /\ accepted = g + u
        /\ \A i \in 1 .. u : chunkBuffer[i] = g + i
        /\ reader.expects = "size"
    BY <1>2, <1>3, <1>4, <1>10, <2>1, IdleState
  <2>3. ASSUME NEW i \in 1 .. Len(s) PROVE s[i] = g + i
    <3>1. CASE i <= u
      BY <1>5, <2>2, <3>1
    <3>2. CASE i > u
      <4>1. i - u \in 1 .. count /\ u + (i - u) = i /\ accepted + (i - u) = g + i
        BY <1>1, <1>5, <2>2, <3>2
      <4> QED
        BY <1>5, <4>1
    <3> QED
      BY <3>1, <3>2
  <2>4. Message(c, g, 1, u + count, 1, <<>>)
    <3>1. Message(Chunk(s) \o <<>>, g, 1, Len(s), 1, <<>>)
      <4>1. <<>> \in Tails
        BY DEF Tails
      <4> QED
        BY <2>3, <4>1, ChunkMessage
    <3>2. c \o <<>> = c
      BY ConcatEmptySeq
    <3> QED
      BY <1>5, <1>6, <3>1, <3>2
  <2>5. u + count \in 1 .. MaxChunk /\ u + count \in 0 .. MaxBody
    <3>1. MaxChunk \in Nat /\ MaxWrite \in Nat
      BY SizesAssumption DEF SizesAssumption
    <3>2. u + count <= ChunkBufferSize + MaxWrite
      BY <1>1, <3>1
    <3>3. ChunkBufferSize + MaxWrite <= MaxChunk
      BY DEF SizesPrintable
    <3>4. accepted + count = g + (u + count)
      BY <1>1, <2>2
    <3> HIDE DEF IInv
    <3>5. u + count >= 1 /\ u + count <= MaxChunk /\ u + count \in Nat
      BY <1>1, <3>1, <3>2, <3>3
    <3>6. u + count <= MaxBody
      BY <1>1, <3>4, <3>5
    <3> QED
      BY <1>1, <3>1, <3>5, <3>6
  <2>6. ChunkReader(1, u + count, 1, <<>>)'
    BY <1>2, <2>2, <2>5 DEF ChunkReader, EndsBody
  <2>7. /\ accepted' = g + (u + count) + (ChunkBufferSize - remaining')
        /\ 1 .. ChunkBufferSize - remaining' = {}
    BY <1>1, <1>2, <2>2
  <2>8. BufferContinues(reader.got + (u + count))'
    BY <2>7 DEF BufferContinues
  <2> QED
    BY <1>2, <1>3, <1>7, <2>1, <2>4, <2>5, <2>6, <2>7, <2>8 DEF InFlight
<1>11. ~base'.broken => OnItsWay'
  <2>1. 1 \in 0 .. 1 /\ <<>> \in Tails
    BY DEF Tails
  <2> QED
    BY <1>2, <1>10, <2>1 DEF OnItsWay
<1> QED
  BY <1>8, <1>9, <1>11

(* xsputnLength(): no byte above the content length.                        *)
LEMMA PutLengthKeeps ==
    ASSUME IInv, NEW count \in 1 .. Lesser(MaxWrite, MaxBody - accepted), PutLength(count)
    PROVE  IInv'
<1> USE DEF IInv
<1>1. /\ count \in Nat /\ count > 0 /\ accepted + count \in 0 .. MaxBody
      /\ remaining \in Nat /\ accepted \in 0 .. MaxBody /\ MaxBody \in Nat
  BY PutCount, ReaderTyped
<1>2. PICK k : k = Lesser(count, remaining)
  OBVIOUS
<1>3. PICK t : t = IF k = remaining THEN <<Flush, Flush>> ELSE <<>>
  OBVIOUS
<1>4. /\ unsent = <<>> /\ ~chunked
      /\ unsent' = Bytes(Given(k)) \o t
      /\ remaining' = remaining - k /\ accepted' = accepted + k
      /\ UNCHANGED <<chunked, chunkBuffer, phase, base, reader>>
  BY <1>2, <1>3 DEF PutLength, Idle
<1>5. /\ k \in Nat /\ k <= remaining /\ accepted + k \in 0 .. MaxBody
      /\ remaining = 0 => k = 0
  BY <1>1, <1>2 DEF Lesser
<1>6. /\ t \in Tails /\ ~EndsBody(t)
      /\ k = remaining => t = <<Flush, Flush>>
  <2>1. <<Flush, Flush>> \in Tails /\ <<>> \in Tails
    BY DEF Tails
  <2>2. ~EndsBody(<<>>) /\ ~EndsBody(<<Flush, Flush>>)
    BY Parts DEF EndsBody
  <2> QED
    BY <1>3, <2>1, <2>2
<1>7. PICK q : q = unsent'
  OBVIOUS
<1>8. Message(q, accepted, 0, k, 0, t)
  <2>1. PICK g \in Nat : g = accepted
    BY <1>1
  <2>2. q = Bytes([i \in 1 .. k |-> g + i]) \o t
    BY <1>4, <1>7, <2>1 DEF Given
  <2>3. Message(Bytes([i \in 1 .. k |-> g + i]) \o t, g, 0, k, 0, t)
    BY <1>5, <1>6, BytesMessage
  <2> QED
    BY <2>1, <2>2, <2>3
<1>9. q \in Seq(Token)
  BY <1>8 DEF Message
<1>10. TypeOK' /\ unsent' \in Seq(Token)
  <2>1. \A i \in DOMAIN q :
          q[i] \in [kind : {"size", "byte", "crlf", "last", "flush"}, n : Nat]
    BY <1>9, UnsentTyped
  <2>2. remaining - k \in Nat
    BY <1>1, <1>5
  <2> QED
    BY <1>4, <1>5, <1>7, <1>9, <2>1, <2>2 DEF TypeOK
<1>11. k = remaining => unsent' # <<>>
  <2>1. ASSUME k = remaining, q = <<>> PROVE FALSE
    <3>1. Len(q) = 0 + k + 0 + Len(t) /\ Len(q) = 0
      BY <1>8, <2>1 DEF Message
    <3>2. Len(t) = 2
      BY <1>6, <2>1
    <3> QED
      BY <1>5, <3>1, <3>2
  <2> QED
    BY <1>7, <2>1
<1>12. Framing' /\ WellFramed' /\ EndKnown' /\ FlushComes'
  <2>1. Framing'
    BY <1>1, <1>4, <1>5 DEF Framing
  <2>2. EndKnown'
    BY <1>1, <1>4, <1>5 DEF EndKnown
  <2>3. FlushComes'
    BY <1>4, <1>5, <1>11 DEF EndKnown, FlushComes
  <2> QED
    BY <1>4, <2>1, <2>2, <2>3 DEF WellFramed
<1>13. ASSUME ~base.broken PROVE InFlight(0, k, 0, t)'
  <2>1. PICK g \in Nat : g = reader.got /\ g = reader'.got
    BY <1>4, ReaderTyped DEF Readers
  <2>2. /\ accepted = g
        /\ reader.sized => /\ reader.need = remaining
                           /\ reader.expects = IF remaining = 0 THEN "end" ELSE "byte"
        /\ ~reader.sized => reader.expects \in {"size", "end"} /\ remaining = 0
    BY <1>1, <1>4, <1>13, <2>1, IdleState DEF Framing
  <2>3. /\ accepted' = g + k + 0 /\ k + remaining' = remaining
    BY <1>1, <1>4, <1>5, <2>2
  <2>4. Message(unsent', g, 0, k, 0, t)
    BY <1>7, <1>8, <2>2
  <2>5. BufferContinues(reader.got + k)'
    BY <1>4 DEF BufferContinues
  <2>6. k > 0 /\ remaining' = 0 => t # <<>>
    <3>1. remaining' = 0 => k = remaining
      BY <1>1, <1>4, <1>5
    <3>2. k = remaining => Len(t) = 2
      BY <1>6
    <3> HIDE DEF IInv
    <3>3. Len(<<>>) = 0
      OBVIOUS
    <3> QED
      BY <3>1, <3>2, <3>3
  <2>7. CASE reader.sized
    <3>1. SizedReader(0, k, 0, t)'
      BY <1>4, <1>6, <2>2, <2>3, <2>6, <2>7 DEF SizedReader
    <3> QED
      BY <1>4, <2>1, <2>3, <2>4, <2>5, <2>7, <3>1 DEF InFlight
  <2>8. CASE ~reader.sized
    <3>1. k = 0
      BY <1>5, <2>2, <2>8
    <3>2. ChunkReader(0, k, 0, t)'
      BY <1>4, <1>6, <2>2, <2>8, <3>1 DEF ChunkReader
    <3> QED
      BY <1>4, <2>1, <2>3, <2>4, <2>5, <2>8, <3>2 DEF InFlight
  <2> QED
    BY <2>7, <2>8
<1>14. ~base'.broken => OnItsWay'
  <2>1. k \in 0 .. MaxBody /\ 0 \in 0 .. 1
    BY <1>1, <1>5
  <2> QED
    BY <1>4, <1>6, <1>13, <2>1 DEF OnItsWay
<1> QED
  BY <1>10, <1>12, <1>14

(* overflowLength(): the byte is with the peer at once.                     *)
LEMMA PutCharLengthKeeps ==
    ASSUME IInv, PutChar PROVE IInv'
<1> USE DEF IInv
<1>1. /\ unsent = <<>> /\ ~chunked /\ remaining > 0 /\ ~base.broken
      /\ remaining' = remaining - 1 /\ accepted' = accepted + 1
      /\ base' = [base EXCEPT !.dirty = remaining > 1]
      /\ UNCHANGED <<chunked, chunkBuffer, unsent, phase>>
      /\ accepted < MaxBody
  BY DEF PutChar, PutCharLength, Idle
<1>2. /\ remaining \in Nat /\ accepted \in 0 .. MaxBody /\ MaxBody \in Nat
      /\ reader \in Readers /\ base \in [broken : BOOLEAN, dirty : BOOLEAN]
  BY ReaderTyped DEF TypeOK
<1>3. /\ accepted = reader.got /\ reader.sized
      /\ reader.need = remaining /\ reader.expects = "byte"
  <2>1. reader.sized
    BY <1>1, <1>2 DEF Framing
  <2>2. accepted = reader.got + 0
    BY <1>1, IdleState
  <2> QED
    BY <1>1, <1>2, <2>1, <2>2, IdleState DEF Readers
<1>4. PICK b : b = accepted + 1
  OBVIOUS
<1>5. PICK x : x = ReadToken(reader, Byte(b))
  OBVIOUS
<1>6. /\ x \in Readers /\ x.sized
      /\ x.need = remaining - 1 /\ x.got = accepted + 1
      /\ x.expects = IF remaining > 1 THEN "byte" ELSE "end"
  <2>1. b \in {0, reader.got + 1} /\ reader.need > 0 /\ b # 0
    BY <1>1, <1>2, <1>3, <1>4
  <2> QED
    BY <1>2, <1>3, <1>4, <1>5, <2>1, ReadNext
<1>7. reader' = x
  BY <1>4, <1>5 DEF PutChar, PutCharLength
<1>8. base' \in [broken : BOOLEAN, dirty : BOOLEAN] /\ base'.broken = base.broken
      /\ base'.dirty = (remaining > 1)
  <2>0. (remaining > 1) \in BOOLEAN
    BY <1>2
  <2>1. PICK z \in BOOLEAN : z = (remaining > 1)
    BY <2>0, Zenon
  <2>2. base' = [base EXCEPT !.dirty = z]
    BY <1>1, <2>1, Zenon
  <2>3. base' \in [broken : BOOLEAN, dirty : BOOLEAN] /\ base'.broken = base.broken
        /\ base'.dirty = z
    BY <1>2, <2>2
  <2> QED
    BY <2>1, <2>3
<1>9. TypeOK' /\ unsent' \in Seq(Token)
  <2>1. x.got \in 0 .. MaxBody /\ remaining - 1 \in Nat /\ accepted + 1 \in 0 .. MaxBody
    BY <1>1, <1>2, <1>6
  <2>2. x \in [sized : BOOLEAN, need : Nat, got : 0 .. MaxBody,
               expects : {"size", "byte", "crlf", "end", "bad"}]
    BY <1>6, <2>1, ReaderIn
  <2> QED
    BY <1>1, <1>7, <1>8, <2>1, <2>2 DEF TypeOK
<1>10. Framing' /\ WellFramed' /\ EndKnown' /\ FlushComes'
  <2>1. x.expects = "end" => remaining' = 0 /\ ~(remaining > 1)
    BY <1>1, <1>2, <1>6
  <2>2. Framing' /\ WellFramed'
    BY <1>1, <1>3, <1>6, <1>7 DEF Framing, WellFramed
  <2>3. EndKnown'
    BY <1>1, <1>6, <1>7, <2>1 DEF EndKnown
  <2>4. FlushComes'
    BY <1>7, <1>8, <2>1 DEF FlushComes
  <2> QED
    BY <2>2, <2>3, <2>4
<1>11. InFlight(0, 0, 0, <<>>)'
  <2>1. PICK g \in Nat : g = x.got
    BY <1>6 DEF Readers
  <2>2. Message(unsent', g, 0, 0, 0, <<>>)
    BY <1>1, TailMessage DEF Tails
  <2>3. g + 0 = g /\ accepted' = g + 0 + 0 /\ 0 + remaining' = remaining'
        /\ remaining' = remaining - 1 /\ (remaining' = 0 <=> ~(remaining > 1))
    BY <1>1, <1>2, <1>6, <2>1
  <2>4. SizedReader(0, 0, 0, <<>>)'
    <3>1. reader'.need = 0 + remaining'
      BY <1>6, <1>7, <2>3
    <3>2. reader'.expects = IF 0 + remaining' = 0 THEN "end" ELSE "byte"
      BY <1>6, <1>7, <2>3
    <3>3. ~EndsBody(<<>>)
      BY DEF EndsBody
    <3> QED
      BY <3>1, <3>2, <3>3 DEF SizedReader
  <2>5. BufferContinues(reader.got + 0)'
    BY <1>1 DEF BufferContinues
  <2> QED
    BY <1>1, <1>6, <1>7, <2>1, <2>2, <2>3, <2>4, <2>5 DEF InFlight
<1>12. OnItsWay'
  <2>1. 0 \in 0 .. 1 /\ 0 \in 0 .. MaxBody /\ <<>> \in Tails
    BY <1>2 DEF Tails
  <2> QED
    BY <1>11, <2>1 DEF OnItsWay
<1> QED
  BY <1>9, <1>10, <1>12

(* sync() and the first half of done(): what is buffered is on its way.     *)
LEMMA Dumped ==
    ASSUME SizesPrintable, IInv, unsent = <<>>, ~base.broken, phase # "closing",
           NEW f \in {Flush, LastChunk}, f = LastChunk => chunked,
           NEW t, t = <<Flush, f>>
    PROVE  \E a \in 0 .. 1, m \in 0 .. MaxBody :
             /\ Message(Dump \o <<f>>, reader.got, a, m, a, t)
             /\ accepted = reader.got + m
             /\ a = 1 => m \in 1 .. MaxChunk /\ reader.expects = "size"
             /\ a = 0 => m = 0
             /\ chunked => reader.expects = "size"
             /\ reader.sized => a = 0
<1>1. /\ remaining \in Nat /\ accepted \in 0 .. MaxBody /\ MaxBody \in Nat
      /\ reader \in Readers /\ reader.got \in Nat
  BY ReaderTyped DEF IInv, Readers
<1>2. PICK m : m = IF chunked THEN ChunkBufferSize - remaining ELSE 0
  OBVIOUS
<1>3. PICK a \in 0 .. 1 : /\ a = 1 <=> chunked /\ ChunkBufferSize - remaining > 0
                          /\ Message(Dump \o <<f>>, reader.got, a, m, a, t)
  BY <1>2, DumpMessage
<1>4. m \in Nat /\ m <= ChunkBufferSize /\ ChunkBufferSize \in Nat
  BY <1>2, BufferedIs, ReaderTyped DEF IInv
<1>5. accepted = reader.got + m
  BY <1>2, IdleState
<1>6. m \in 0 .. MaxBody
  BY <1>1, <1>4, <1>5
<1>7. a = 0 => m = 0
  BY <1>2, <1>3, <1>4
<1>8. a = 1 => m \in 1 .. MaxChunk
  <2>1. a = 1 => m > 0
    BY <1>2, <1>3
  <2>2. MaxChunk \in Nat /\ MaxWrite \in Nat
    BY SizesAssumption DEF SizesAssumption
  <2>3. ChunkBufferSize + MaxWrite <= MaxChunk
    BY DEF SizesPrintable
  <2> QED
    BY <1>4, <2>1, <2>2, <2>3
<1>9. chunked => reader.expects = "size" /\ ~reader.sized
  BY ChunkedOpen, IdleState
<1> QED
  BY <1>3, <1>5, <1>6, <1>7, <1>8, <1>9

(* sync(), with or without something to dump.                               *)
LEMMA SyncKeeps ==
    ASSUME SizesPrintable, IInv, Sync PROVE IInv'
<1> USE DEF IInv
<1>1. /\ unsent = <<>> /\ phase # "closing" /\ unsent' = Dump \o <<Flush>>
      /\ remaining' = IF chunked THEN ChunkBufferSize ELSE remaining
      /\ UNCHANGED <<chunked, chunkBuffer, phase, base, reader, accepted>>
  BY DEF Sync, Idle
<1>2. /\ remaining \in Nat /\ ChunkBufferSize \in Nat /\ remaining' \in Nat
      /\ chunked => remaining' = ChunkBufferSize
      /\ ~chunked => remaining' = remaining
  BY <1>1, ReaderTyped
<1>3. PICK t : t = <<Flush, Flush>>
  OBVIOUS
<1>4. PICK q \in Seq(Token) : q = Dump \o <<Flush>> /\ q # <<>>
  BY <1>3, DumpMessage, DumpNonempty
<1>5. t \in Tails /\ ~EndsBody(t)
  BY <1>3, Parts DEF Tails, EndsBody
<1>6. TypeOK' /\ unsent' \in Seq(Token)
  <2>1. \A i \in DOMAIN q :
          q[i] \in [kind : {"size", "byte", "crlf", "last", "flush"}, n : Nat]
    BY UnsentTyped
  <2> QED
    BY <1>1, <1>2, <1>4, <2>1 DEF TypeOK
<1>7. Framing' /\ WellFramed' /\ EndKnown' /\ FlushComes'
  BY <1>1, <1>2, <1>4 DEF Framing, WellFramed, EndKnown, FlushComes
<1>8. ~base'.broken => OnItsWay'
  <2> SUFFICES ASSUME ~base'.broken PROVE OnItsWay'
    OBVIOUS
  <2>1. PICK a \in 0 .. 1, m \in 0 .. MaxBody :
          /\ Message(q, reader.got, a, m, a, t)
          /\ accepted = reader.got + m
          /\ a = 1 => m \in 1 .. MaxChunk /\ reader.expects = "size"
          /\ a = 0 => m = 0
          /\ reader.sized => a = 0
    <3>1. ~base.broken
      BY <1>1
    <3>2. Flush \in {Flush, LastChunk} /\ Flush # LastChunk
      BY Parts
    <3> QED
      BY <1>1, <1>3, <1>4, <3>1, <3>2, Dumped
  <2>2. PICK g \in Nat : g = reader.got /\ g = reader'.got
    BY <1>1, ReaderTyped DEF Readers
  <2>3. /\ Message(unsent', g, a, m, a, t)
        /\ accepted' = g + m + (IF chunked THEN ChunkBufferSize - remaining' ELSE 0)
        /\ chunked => 1 .. ChunkBufferSize - remaining' = {}
    BY <1>1, <1>2, <1>4, <2>1, <2>2
  <2>4. BufferContinues(reader.got + m)'
    BY <1>1, <2>3 DEF BufferContinues
  <2>5. /\ reader.sized => /\ reader.need = remaining
                           /\ reader.expects = IF remaining = 0 THEN "end" ELSE "byte"
        /\ ~reader.sized => reader.expects \in {"size", "end"}
    BY <1>1, IdleState
  <2>6. reader.sized => SizedReader(a, m, a, t)'
    <3>1. reader.sized => ~chunked /\ m = 0 /\ a = 0
      BY <2>1 DEF Framing
    <3> QED
      BY <1>1, <1>2, <1>5, <2>5, <3>1 DEF SizedReader
  <2>7. ~reader.sized => ChunkReader(a, m, a, t)'
    BY <1>1, <1>5, <2>1, <2>5 DEF ChunkReader
  <2>8. InFlight(a, m, a, t)'
    BY <1>1, <2>2, <2>3, <2>4, <2>6, <2>7 DEF InFlight
  <2> QED
    BY <1>5, <2>8 DEF OnItsWay
<1> QED
  BY <1>6, <1>7, <1>8

(* done() of a chunked body.                                                *)
LEMMA DoneChunkedKeeps ==
    ASSUME SizesPrintable, IInv, DoneChunked PROVE IInv'
<1> USE DEF IInv
<1>1. /\ unsent = <<>> /\ phase # "closing" /\ chunked
      /\ unsent' = Dump \o <<LastChunk>> /\ remaining' = 0
      /\ chunked' = FALSE /\ phase' = "closing"
      /\ UNCHANGED <<chunkBuffer, base, reader, accepted>>
  BY DEF DoneChunked, Idle
<1>2. ~reader.sized /\ reader.expects # "end"
  BY <1>1, ChunkedOpen
<1>3. PICK t : t = <<Flush, LastChunk>>
  OBVIOUS
<1>4. PICK q \in Seq(Token) : q = Dump \o <<LastChunk>>
  BY <1>3, DumpMessage
<1>5. t \in Tails
  BY <1>3 DEF Tails
<1>6. TypeOK' /\ unsent' \in Seq(Token)
  <2>1. \A i \in DOMAIN q :
          q[i] \in [kind : {"size", "byte", "crlf", "last", "flush"}, n : Nat]
    BY UnsentTyped
  <2> QED
    BY <1>1, <1>4, <2>1 DEF TypeOK
<1>7. Framing' /\ WellFramed' /\ EndKnown' /\ FlushComes'
  BY <1>1, <1>2, <1>4 DEF Framing, WellFramed, EndKnown, FlushComes
<1>8. ~base'.broken => OnItsWay'
  <2> SUFFICES ASSUME ~base'.broken PROVE OnItsWay'
    OBVIOUS
  <2>1. PICK a \in 0 .. 1, m \in 0 .. MaxBody :
          /\ Message(q, reader.got, a, m, a, t)
          /\ accepted = reader.got + m
          /\ a = 1 => m \in 1 .. MaxChunk /\ reader.expects = "size"
          /\ a = 0 => m = 0
          /\ reader.expects = "size"
    <3>1. ~base.broken
      BY <1>1
    <3>2. LastChunk \in {Flush, LastChunk}
      BY Parts
    <3> QED
      BY <1>1, <1>3, <1>4, <3>1, <3>2, Dumped
  <2>2. PICK g \in Nat : g = reader.got /\ g = reader'.got
    BY <1>1, ReaderTyped DEF Readers
  <2>3. Message(unsent', g, a, m, a, t) /\ accepted' = g + m + 0
    BY <1>1, <1>4, <2>1, <2>2
  <2>4. BufferContinues(reader.got + m)'
    BY <1>1 DEF BufferContinues
  <2>5. ChunkReader(a, m, a, t)'
    BY <1>1, <2>1 DEF ChunkReader
  <2>6. InFlight(a, m, a, t)'
    BY <1>1, <1>2, <2>2, <2>3, <2>4, <2>5 DEF InFlight
  <2> QED
    BY <1>5, <2>6 DEF OnItsWay
<1> QED
  BY <1>6, <1>7, <1>8

(* done() of a body with a content length, and its end: nothing is sent.    *)
LEMMA DoneLengthKeeps ==
    ASSUME IInv, DoneLength PROVE IInv'
<1> USE DEF IInv
<1>1. /\ unsent = <<>> /\ phase' = "closing" /\ ~chunked
      /\ UNCHANGED <<chunked, remaining, chunkBuffer, unsent, base, reader, accepted>>
  BY DEF DoneLength, Idle
<1>2. TypeOK' /\ unsent' \in Seq(Token)
  BY <1>1 DEF TypeOK
<1>3. Framing' /\ WellFramed' /\ EndKnown' /\ FlushComes'
  BY <1>1 DEF Framing, WellFramed, EndKnown, FlushComes
<1>4. ~base'.broken => OnItsWay'
  BY <1>1, StillIdle
<1> QED
  BY <1>2, <1>3, <1>4

(* The flush at the end of done().                                          *)
LEMMA FinishDoneKeeps ==
    ASSUME IInv, FinishDone PROVE IInv'
<1> USE DEF IInv
<1>1. /\ phase = "closing" /\ unsent = <<>> /\ remaining = 0 /\ phase' = "closed"
      /\ UNCHANGED <<chunked, remaining, chunkBuffer, unsent, reader, accepted>>
  BY DEF FinishDone
<1>2. ~chunked
  BY <1>1 DEF Framing
<1>3. /\ base' \in [broken : BOOLEAN, dirty : BOOLEAN]
      /\ base'.broken = base.broken
      /\ base'.dirty => base.broken
  <2>1. PICK z \in BOOLEAN : z = (base.dirty /\ base.broken)
    OBVIOUS
  <2>2. base' = [base EXCEPT !.dirty = z]
    BY <2>1, Zenon DEF FinishDone
  <2>3. base \in [broken : BOOLEAN, dirty : BOOLEAN]
    BY DEF TypeOK
  <2>4. base' \in [broken : BOOLEAN, dirty : BOOLEAN] /\ base'.broken = base.broken
        /\ base'.dirty = z
    BY <2>2, <2>3
  <2> QED
    BY <2>1, <2>4
<1>4. TypeOK' /\ unsent' \in Seq(Token)
  BY <1>1, <1>3 DEF TypeOK
<1>5. Framing' /\ WellFramed' /\ EndKnown' /\ FlushComes'
  BY <1>1, <1>2, <1>3 DEF Framing, WellFramed, EndKnown, FlushComes
<1>6. ~base'.broken => OnItsWay'
  BY <1>1, <1>3, StillIdle
<1> QED
  BY <1>4, <1>5, <1>6

(* The padding of a body that is shorter than its content length.           *)
LEMMA FillKeeps ==
    ASSUME IInv, Fill PROVE IInv'
<1> USE DEF IInv
<1>1. /\ remaining \in Nat /\ accepted \in 0 .. MaxBody /\ MaxBody \in Nat
      /\ reader \in Readers /\ base \in [broken : BOOLEAN, dirty : BOOLEAN]
  BY ReaderTyped DEF TypeOK
<1>2. /\ phase = "closing" /\ unsent = <<>> /\ remaining > 0
      /\ UNCHANGED <<chunked, chunkBuffer, unsent, phase, accepted>>
  BY DEF Fill
<1>3. ~chunked /\ reader.sized /\ Len(chunkBuffer) = 1
  <2>1. ~chunked /\ reader.sized /\ chunkBuffer = <<0>>
    BY <1>1, <1>2 DEF Framing
  <2> QED
    BY <2>1
<1>4. Lesser(Len(chunkBuffer), remaining) = 1
  BY <1>1, <1>2, <1>3 DEF Lesser
<1>5. /\ remaining' = remaining - 1 /\ remaining' \in Nat
      /\ base.broken => UNCHANGED <<reader, base>>
      /\ ~base.broken => /\ reader' = ReadToken(reader, Byte(0))
                         /\ base' = [base EXCEPT !.dirty = TRUE]
  BY <1>1, <1>2, <1>4 DEF Fill
<1>6. CASE base.broken
  <2>1. TypeOK' /\ unsent' \in Seq(Token)
    BY <1>2, <1>3, <1>5, <1>6 DEF TypeOK
  <2>2. reader.expects # "end"
    BY <1>1, <1>2 DEF EndKnown
  <2>3. Framing' /\ WellFramed' /\ EndKnown' /\ FlushComes'
    BY <1>2, <1>3, <1>5, <1>6, <2>2 DEF Framing, WellFramed, EndKnown, FlushComes
  <2> QED
    BY <1>5, <1>6, <2>1, <2>3
<1>7. CASE ~base.broken
  <2>1. /\ accepted = reader.got /\ reader.need = remaining /\ reader.expects = "byte"
    <3>1. accepted = reader.got + 0
      BY <1>2, <1>3, <1>7, IdleState
    <3> QED
      BY <1>1, <1>2, <1>3, <1>7, <3>1, IdleState DEF Readers
  <2>2. PICK x : x = ReadToken(reader, Byte(0))
    OBVIOUS
  <2>3. /\ x \in Readers /\ x.sized
        /\ x.need = remaining - 1 /\ x.got = accepted
        /\ x.expects = IF remaining > 1 THEN "byte" ELSE "end"
    <3>1. 0 \in {0, reader.got + 1} /\ reader.need > 0
      BY <1>2, <2>1
    <3> QED
      BY <1>1, <1>3, <2>1, <2>2, <3>1, ReadNext
  <2>4. reader' = x
    BY <1>5, <1>7, <2>2
  <2>5. /\ base' \in [broken : BOOLEAN, dirty : BOOLEAN] /\ base'.broken = base.broken
    BY <1>1, <1>5, <1>7
  <2>6. TypeOK' /\ unsent' \in Seq(Token)
    <3>1. x \in [sized : BOOLEAN, need : Nat, got : 0 .. MaxBody,
                 expects : {"size", "byte", "crlf", "end", "bad"}]
      BY <1>1, <2>3, ReaderIn
    <3> QED
      BY <1>2, <1>3, <1>5, <2>4, <2>5, <3>1 DEF TypeOK
  <2>7. remaining' = 0 <=> ~(remaining > 1)
    BY <1>1, <1>2, <1>5
  <2>8. Framing' /\ WellFramed' /\ EndKnown' /\ FlushComes'
    <3>1. Framing' /\ WellFramed'
      BY <1>2, <1>3, <2>3, <2>4 DEF Framing, WellFramed
    <3>2. EndKnown'
      BY <1>2, <1>3, <2>3, <2>4, <2>7 DEF EndKnown
    <3> QED
      BY <1>2, <3>1, <3>2 DEF FlushComes
  <2>9. InFlight(0, 0, 0, <<>>)'
    <3>1. PICK g \in Nat : g = x.got /\ g = accepted
      BY <2>3 DEF Readers
    <3>2. Message(unsent', g, 0, 0, 0, <<>>)
      BY <1>2, TailMessage DEF Tails
    <3>3. 0 + remaining' = remaining' /\ accepted' = g + 0 + 0
      BY <1>1, <1>2, <1>5, <3>1
    <3>4. SizedReader(0, 0, 0, <<>>)'
      <4>1. reader'.need = 0 + remaining'
        BY <1>5, <2>3, <2>4, <3>3
      <4>2. reader'.expects = IF 0 + remaining' = 0 THEN "end" ELSE "byte"
        BY <2>3, <2>4, <2>7, <3>3
      <4>3. ~EndsBody(<<>>)
        BY DEF EndsBody
      <4> QED
        BY <4>1, <4>2, <4>3 DEF SizedReader
    <3>5. BufferContinues(reader.got + 0)'
      BY <1>2, <1>3 DEF BufferContinues
    <3> QED
      BY <1>2, <1>3, <2>3, <2>4, <3>1, <3>2, <3>3, <3>4, <3>5 DEF InFlight
  <2>10. OnItsWay'
    <3>1. 0 \in 0 .. 1 /\ 0 \in 0 .. MaxBody /\ <<>> \in Tails
      BY <1>1 DEF Tails
    <3> QED
      BY <2>9, <3>1 DEF OnItsWay
  <2> QED
    BY <2>6, <2>8, <2>10
<1> QED
  BY <1>6, <1>7

-----------------------------------------------------------------------------
(* The base stream.                                                         *)

(* What is left of a call is one.                                           *)
LEMMA Rest ==
    ASSUME IInv, unsent # <<>>, NEW q, q = Tail(unsent)
    PROVE  /\ q \in Seq(Token)
           /\ \A i \in DOMAIN q :
                q[i] \in [kind : {"size", "byte", "crlf", "last", "flush"}, n : Nat]
<1>1. PICK u \in Seq(Token) : u = unsent
  BY DEF IInv
<1>2. Tail(u) \in Seq(Token)
  BY <1>1
<1> QED
  BY <1>1, <1>2, UnsentTyped

(* A broken base takes nothing: only its own calls are left out.            *)
LEMMA DropKeeps ==
    ASSUME IInv, Drop PROVE IInv'
<1> USE DEF IInv
<1>1. /\ unsent # <<>> /\ base.broken /\ unsent' = Tail(unsent)
      /\ UNCHANGED <<chunked, remaining, chunkBuffer, phase, base, reader, accepted>>
  BY DEF Drop
<1>2. PICK q : q = Tail(unsent)
  OBVIOUS
<1>3. TypeOK' /\ unsent' \in Seq(Token)
  BY <1>1, <1>2, Rest DEF TypeOK
<1>4. Framing' /\ WellFramed' /\ EndKnown' /\ FlushComes'
  BY <1>1 DEF Framing, WellFramed, EndKnown, FlushComes
<1> QED
  BY <1>1, <1>3, <1>4

(* The connection fails: from then on nothing is promised of the call.      *)
LEMMA BreakKeeps ==
    ASSUME IInv, Break PROVE IInv'
<1> USE DEF IInv
<1>1. /\ base' = [base EXCEPT !.broken = TRUE]
      /\ UNCHANGED <<chunked, remaining, chunkBuffer, unsent, phase, reader, accepted>>
  BY DEF Break
<1>2. base' \in [broken : BOOLEAN, dirty : BOOLEAN] /\ base'.broken
  BY <1>1 DEF TypeOK
<1>3. TypeOK' /\ unsent' \in Seq(Token)
  BY <1>1, <1>2 DEF TypeOK
<1>4. Framing' /\ WellFramed' /\ EndKnown' /\ FlushComes'
  BY <1>1, <1>2 DEF Framing, WellFramed, EndKnown, FlushComes
<1> QED
  BY <1>2, <1>3, <1>4

(* A part reaches the peer, the one it waits for: the size of a chunk, ...  *)
LEMMA TakeSizeKeeps ==
    ASSUME IInv, Take, ~base.broken,
           NEW m \in 0 .. MaxBody, NEW e \in 0 .. 1, NEW t \in Tails, InFlight(1, m, e, t)
    PROVE  IInv'
<1> USE DEF IInv
<1>1. /\ accepted \in 0 .. MaxBody /\ MaxBody \in Nat /\ reader \in Readers
      /\ reader.got \in 0 .. MaxBody /\ m \in Nat
  BY ReaderTyped
<1>2. PICK g \in Nat : g = reader.got
  BY <1>1
<1>3. Message(unsent, g, 1, m, e, t)
  BY <1>2 DEF InFlight
<1>4. /\ Head(unsent) = Size(m) /\ Message(Tail(unsent), g, 0, m, e, t)
      /\ unsent # <<>>
  BY <1>1, <1>3, MessageTail
<1>5. ~reader.sized
  <2>1. reader.sized => SizedReader(1, m, e, t)
    BY DEF InFlight
  <2> QED
    BY <2>1 DEF SizedReader
<1>6. ChunkReader(1, m, e, t)
  BY <1>5 DEF InFlight
<1>7. m \in 1 .. MaxChunk /\ m > 0 /\ e = 1 /\ reader.expects = "size"
  BY <1>6 DEF ChunkReader
<1>8. PICK x : x = ReadToken(reader, Size(m))
  OBVIOUS
<1>9. /\ x \in Readers /\ ~x.sized /\ x.got = g /\ x.need = m /\ x.expects = "byte"
  BY <1>1, <1>2, <1>5, <1>7, <1>8, ReadSize
<1>10. /\ unsent' = Tail(unsent) /\ reader' = x
       /\ base' = [base EXCEPT !.dirty = TRUE]
       /\ UNCHANGED <<chunked, remaining, chunkBuffer, phase, accepted>>
  <2>1. Head(unsent).kind = "size"
    BY <1>4, Parts
  <2> QED
    BY <1>4, <1>8, <2>1 DEF Take
<1>11. base' \in [broken : BOOLEAN, dirty : BOOLEAN]
  BY <1>10 DEF TypeOK
<1>12. TypeOK' /\ unsent' \in Seq(Token)
  <2>1. PICK q : q = Tail(unsent)
    OBVIOUS
  <2>2. x \in [sized : BOOLEAN, need : Nat, got : 0 .. MaxBody,
               expects : {"size", "byte", "crlf", "end", "bad"}]
    BY <1>1, <1>2, <1>9, ReaderIn
  <2> QED
    BY <1>4, <1>10, <1>11, <2>1, <2>2, Rest DEF TypeOK
<1>13. Framing' /\ WellFramed' /\ EndKnown' /\ FlushComes'
  BY <1>5, <1>9, <1>10 DEF Framing, WellFramed, EndKnown, FlushComes
<1>14. InFlight(0, m, e, t)'
  <2>1. ChunkReader(0, m, e, t)'
    BY <1>6, <1>7, <1>9, <1>10 DEF ChunkReader
  <2>2. /\ accepted = g + m + (IF chunked THEN ChunkBufferSize - remaining ELSE 0)
        /\ BufferContinues(g + m)
    BY <1>2 DEF InFlight
  <2>3. BufferContinues(reader.got + m)'
    BY <1>9, <1>10, <2>2 DEF BufferContinues
  <2> QED
    BY <1>4, <1>9, <1>10, <2>1, <2>2, <2>3 DEF InFlight
<1>15. OnItsWay'
  BY <1>14 DEF OnItsWay
<1> QED
  BY <1>12, <1>13, <1>15

(* A byte of the body.                                                      *)
LEMMA TakeByteKeeps ==
    ASSUME IInv, Take, ~base.broken,
           NEW m \in 0 .. MaxBody, NEW e \in 0 .. 1, NEW t \in Tails, m > 0,
           InFlight(0, m, e, t)
    PROVE  IInv'
<1> USE DEF IInv
<1>1. /\ accepted \in 0 .. MaxBody /\ MaxBody \in Nat /\ reader \in Readers
      /\ remaining \in Nat /\ reader.got \in 0 .. MaxBody /\ m \in Nat /\ m - 1 \in Nat
  BY ReaderTyped
<1>2. PICK g \in Nat : g = reader.got
  BY <1>1
<1>3. Message(unsent, g, 0, m, e, t)
  BY <1>2 DEF InFlight
<1>4. /\ Head(unsent) = Byte(g + 1) /\ Message(Tail(unsent), g + 1, 0, m - 1, e, t)
      /\ unsent # <<>>
      /\ Tail(unsent) = <<>> => t = <<>>
  <2>1. /\ Head(unsent) = Byte(g + 1) /\ Message(Tail(unsent), g + 1, 0, m - 1, e, t)
        /\ unsent # <<>>
    BY <1>1, <1>3, MessageTail
  <2>2. PICK q : q = Tail(unsent)
    OBVIOUS
  <2>3. g + 1 \in Nat /\ Message(q, g + 1, 0, m - 1, e, t)
    BY <2>1, <2>2
  <2>4. q = <<>> => t = <<>>
    <3>1. PICK h, n \in Nat : h = g + 1 /\ n = m - 1
      BY <1>1
    <3>2. Message(q, h, 0, n, e, t)
      BY <2>3, <3>1
    <3>3. Len(q) = 0 + n + e + Len(t)
      BY <3>2 DEF Message
    <3>4. t \in Seq(Token) /\ Len(t) \in Nat
      BY TailParts
    <3>5. q = <<>> => Len(q) = 0
      OBVIOUS
    <3> HIDE DEF IInv
    <3>6. q = <<>> => Len(t) = 0
      BY <3>3, <3>4, <3>5
    <3> QED
      BY <3>4, <3>6
  <2> QED
    BY <2>1, <2>2, <2>4
<1>5. /\ reader.sized => SizedReader(0, m, e, t)
      /\ ~reader.sized => ChunkReader(0, m, e, t)
  BY DEF InFlight
<1>6. /\ reader.expects = "byte"
      /\ reader.sized => /\ reader.need = m + remaining /\ e = 0 /\ ~EndsBody(t)
                         /\ remaining = 0 => t # <<>>
      /\ ~reader.sized => e = 1 /\ reader.need = m
  <2>1. m + remaining # 0
    BY <1>1
  <2>2. reader.sized => /\ reader.need = m + remaining /\ e = 0 /\ ~EndsBody(t)
                        /\ remaining = 0 => t # <<>>
                        /\ reader.expects = "byte"
    BY <1>5, <2>1 DEF SizedReader
  <2>3. ~reader.sized => e = 1 /\ reader.need = m /\ reader.expects = "byte"
    BY <1>5 DEF ChunkReader
  <2> QED
    BY <2>2, <2>3
<1>7. PICK n \in Nat : n = reader.need /\ n > 0
  BY <1>1, <1>6
<1>8. PICK x : x = ReadToken(reader, Byte(g + 1))
  OBVIOUS
<1>9. /\ x \in Readers /\ x.sized = reader.sized /\ x.got = g + 1 /\ x.need = n - 1
      /\ x.expects = IF n > 1 THEN "byte" ELSE IF reader.sized THEN "end" ELSE "crlf"
  <2>1. PICK b : b = g + 1
    OBVIOUS
  <2>2. b \in {0, reader.got + 1} /\ b # 0
    BY <1>2, <2>1
  <2> QED
    BY <1>1, <1>2, <1>6, <1>7, <1>8, <2>1, <2>2, ReadNext
<1>10. /\ unsent' = Tail(unsent) /\ reader' = x
       /\ base' = [base EXCEPT !.dirty = TRUE]
       /\ UNCHANGED <<chunked, remaining, chunkBuffer, phase, accepted>>
  <2>1. Head(unsent).kind = "byte"
    BY <1>4, Parts
  <2> QED
    BY <1>4, <1>8, <2>1 DEF Take
<1>11. base' \in [broken : BOOLEAN, dirty : BOOLEAN]
  BY <1>10 DEF TypeOK
<1>12. PICK w : /\ w = IF chunked THEN ChunkBufferSize - remaining ELSE 0
                /\ w \in Nat /\ accepted = g + m + w
  <2>1. PICK w : w = IF chunked THEN ChunkBufferSize - remaining ELSE 0
    OBVIOUS
  <2>2. w \in Nat
    BY <2>1, BufferedIs
  <2>3. accepted = g + m + w
    BY <1>2, <2>1 DEF InFlight
  <2> QED
    BY <2>1, <2>2, <2>3
<1>13. TypeOK' /\ unsent' \in Seq(Token)
  <2>1. PICK q : q = Tail(unsent)
    OBVIOUS
  <2>2. x.got \in 0 .. MaxBody
    BY <1>1, <1>9, <1>12
  <2>3. x \in [sized : BOOLEAN, need : Nat, got : 0 .. MaxBody,
               expects : {"size", "byte", "crlf", "end", "bad"}]
    BY <1>9, <2>2, ReaderIn
  <2> QED
    BY <1>4, <1>10, <1>11, <2>1, <2>3, Rest DEF TypeOK
<1>14. x.expects = "end" => reader.sized /\ m = 1 /\ remaining = 0 /\ t # <<>>
  BY <1>1, <1>6, <1>7, <1>9
<1>15. Framing' /\ WellFramed' /\ EndKnown' /\ FlushComes'
  <2>1. Framing' /\ WellFramed'
    BY <1>9, <1>10 DEF Framing, WellFramed
  <2>2. EndKnown'
    <3>1. reader.sized => ~chunked
      BY DEF Framing
    <3>2. reader.sized => w = 0
      BY <1>12, <3>1
    <3>3. x.expects = "end" => x.got = accepted
      BY <1>9, <1>12, <1>14, <3>2
    <3> QED
      BY <1>10, <1>14, <3>1, <3>3 DEF EndKnown
  <2>3. FlushComes'
    BY <1>4, <1>10, <1>14 DEF FlushComes
  <2> QED
    BY <2>1, <2>2, <2>3
<1>16. InFlight(0, m - 1, e, t)'
  <2>1. accepted' = (g + 1) + (m - 1) + (IF chunked THEN ChunkBufferSize - remaining ELSE 0)'
    BY <1>1, <1>10, <1>12
  <2>2. BufferContinues(reader.got + (m - 1))'
    <3>1. BufferContinues(g + m)
      BY <1>2 DEF InFlight
    <3>2. (g + 1) + (m - 1) = g + m
      BY <1>1
    <3> QED
      BY <1>9, <1>10, <3>1, <3>2 DEF BufferContinues
  <2>3. Message(unsent', g + 1, 0, m - 1, e, t)
    BY <1>4, <1>10
  <2>4. CASE reader.sized
    <3>1. reader'.need = (m - 1) + remaining'
      BY <1>1, <1>6, <1>7, <1>9, <1>10, <2>4
    <3>2. reader'.expects = IF (m - 1) + remaining' = 0 THEN "end" ELSE "byte"
      <4>1. n = m + remaining
        BY <1>6, <1>7, <2>4
      <4>2. n > 1 <=> (m - 1) + remaining # 0
        BY <1>1, <4>1
      <4> QED
        BY <1>9, <1>10, <2>4, <4>2
    <3>3. SizedReader(0, m - 1, e, t)'
      BY <1>6, <1>10, <2>4, <3>1, <3>2 DEF SizedReader
    <3> QED
      BY <1>9, <1>10, <2>1, <2>2, <2>3, <2>4, <3>3 DEF InFlight
  <2>5. CASE ~reader.sized
    <3>1. ChunkReader(0, m, e, t)
      BY <1>5, <2>5
    <3>2. ChunkReader(0, m - 1, e, t)'
      <4>1. e = 1 /\ n = m
        BY <1>6, <1>7, <2>5
      <4>2. m - 1 > 0 => x.expects = "byte" /\ x.need = m - 1
        BY <1>1, <1>9, <2>5, <4>1
      <4>3. m - 1 = 0 => x.expects = "crlf"
        BY <1>1, <1>9, <2>5, <4>1
      <4>4. x.expects # "end"
        BY <1>9, <2>5
      <4>5. EndsBody(t) => phase = "closing"
        BY <3>1 DEF ChunkReader
      <4> QED
        BY <1>10, <4>1, <4>2, <4>3, <4>4, <4>5 DEF ChunkReader
    <3> QED
      BY <1>9, <1>10, <2>1, <2>2, <2>3, <2>5, <3>2 DEF InFlight
  <2> QED
    BY <2>4, <2>5
<1>17. OnItsWay'
  <2>1. m - 1 \in 0 .. MaxBody /\ 0 \in 0 .. 1
    BY <1>1
  <2> QED
    BY <1>16, <2>1 DEF OnItsWay
<1> QED
  BY <1>13, <1>15, <1>17

(* The end of a chunk, a flush, or the last chunk.                          *)
LEMMA TakeEndKeeps ==
    ASSUME IInv, Take, ~base.broken,
           NEW e \in 0 .. 1, NEW t \in Tails, InFlight(0, 0, e, t)
    PROVE  IInv'
<1> USE DEF IInv
<1>1. /\ accepted \in 0 .. MaxBody /\ MaxBody \in Nat /\ reader \in Readers
      /\ remaining \in Nat /\ reader.got \in 0 .. MaxBody
      /\ base \in [broken : BOOLEAN, dirty : BOOLEAN]
  BY ReaderTyped DEF TypeOK
<1>2. PICK g \in Nat : g = reader.got
  BY <1>1
<1>3. Message(unsent, g, 0, 0, e, t)
  BY <1>2 DEF InFlight
<1>4. /\ unsent # <<>> /\ unsent' = Tail(unsent)
      /\ UNCHANGED <<chunked, remaining, chunkBuffer, phase, accepted>>
  BY DEF Take
<1>5. /\ e = 1 => Head(unsent) = Crlf /\ Message(Tail(unsent), g, 0, 0, 0, t)
      /\ e = 0 => /\ t # <<>> /\ Head(unsent) = Head(t)
                  /\ Message(Tail(unsent), g, 0, 0, 0, Tail(t))
  <2>1. e = 0 => t # <<>>
    BY <1>3, <1>4, MessageTail
  <2> QED
    BY <1>3, <2>1, MessageTail
<1>6. /\ reader.sized => SizedReader(0, 0, e, t)
      /\ ~reader.sized => ChunkReader(0, 0, e, t)
      /\ accepted = g + 0 + (IF chunked THEN ChunkBufferSize - remaining ELSE 0)
      /\ BufferContinues(g + 0)
  BY <1>2 DEF InFlight
<1>7. unsent' \in Seq(Token) /\ \A i \in DOMAIN unsent' :
        unsent'[i] \in [kind : {"size", "byte", "crlf", "last", "flush"}, n : Nat]
  <2>1. PICK q : q = Tail(unsent)
    OBVIOUS
  <2> QED
    BY <1>4, <2>1, Rest
<1>8. CASE e = 1
  <2>1. ~reader.sized /\ reader.expects = "crlf" /\ (EndsBody(t) => phase = "closing")
    BY <1>6, <1>8 DEF SizedReader, ChunkReader
  <2>2. PICK x : x = ReadToken(reader, Crlf)
    OBVIOUS
  <2>3. x \in Readers /\ ~x.sized /\ x.got = g /\ x.expects = "size"
    BY <1>1, <1>2, <2>1, <2>2, ReadEnds
  <2>4. reader' = x /\ base' = [base EXCEPT !.dirty = TRUE]
    <3>1. Head(unsent) = Crlf /\ Crlf.kind = "crlf"
      BY <1>5, <1>8, Parts
    <3> QED
      BY <2>2, <3>1 DEF Take
  <2>5. base' \in [broken : BOOLEAN, dirty : BOOLEAN]
    BY <1>1, <2>4
  <2>6. TypeOK' /\ unsent' \in Seq(Token)
    <3>1. x \in [sized : BOOLEAN, need : Nat, got : 0 .. MaxBody,
                 expects : {"size", "byte", "crlf", "end", "bad"}]
      BY <1>1, <1>2, <2>3, ReaderIn
    <3> QED
      BY <1>4, <1>7, <2>4, <2>5, <3>1 DEF TypeOK
  <2>7. Framing' /\ WellFramed' /\ EndKnown' /\ FlushComes'
    BY <1>4, <2>1, <2>3, <2>4 DEF Framing, WellFramed, EndKnown, FlushComes
  <2>8. InFlight(0, 0, 0, t)'
    <3>1. ChunkReader(0, 0, 0, t)'
      BY <1>4, <2>1, <2>3, <2>4 DEF ChunkReader
    <3>2. BufferContinues(reader.got + 0)'
      BY <1>4, <1>6, <2>3, <2>4 DEF BufferContinues
    <3> QED
      BY <1>4, <1>5, <1>6, <1>8, <2>3, <2>4, <3>1, <3>2 DEF InFlight
  <2>9. OnItsWay'
    <3>1. 0 \in 0 .. 1 /\ 0 \in 0 .. MaxBody
      BY <1>1
    <3> QED
      BY <2>8, <3>1 DEF OnItsWay
  <2> QED
    BY <2>6, <2>7, <2>9
<1>9. CASE e = 0 /\ Head(t) = Flush
  <2>1. Tail(t) \in Tails /\ (EndsBody(Tail(t)) <=> EndsBody(t))
    BY <1>5, <1>9, TailParts
  <2>2. UNCHANGED reader /\ base' = [base EXCEPT !.dirty = FALSE]
    <3>1. Head(unsent) = Flush /\ Flush.kind = "flush"
      BY <1>5, <1>9, Parts
    <3> QED
      BY <3>1 DEF Take
  <2>3. base' \in [broken : BOOLEAN, dirty : BOOLEAN] /\ ~base'.dirty
    BY <1>1, <2>2
  <2>4. TypeOK' /\ unsent' \in Seq(Token)
    BY <1>4, <1>7, <2>2, <2>3 DEF TypeOK
  <2>5. Framing' /\ WellFramed' /\ EndKnown' /\ FlushComes'
    BY <1>4, <2>2, <2>3 DEF Framing, WellFramed, EndKnown, FlushComes
  <2>6. PICK r \in Tails : r = Tail(t)
    BY <2>1
  <2>7. InFlight(0, 0, 0, r)'
    <3>1. reader.sized => SizedReader(0, 0, 0, r)'
      BY <1>4, <1>6, <2>1, <2>2, <2>6 DEF SizedReader
    <3>2. ~reader.sized => ChunkReader(0, 0, 0, r)'
      BY <1>4, <1>6, <1>9, <2>1, <2>2, <2>6 DEF ChunkReader
    <3>3. BufferContinues(reader.got + 0)'
      BY <1>2, <1>4, <1>6, <2>2 DEF BufferContinues
    <3>4. Message(unsent', g, 0, 0, 0, r)
      BY <1>4, <1>5, <1>9, <2>6
    <3> QED
      BY <1>2, <1>4, <1>6, <2>2, <3>1, <3>2, <3>3, <3>4 DEF InFlight
  <2>8. OnItsWay'
    <3>1. 0 \in 0 .. 1 /\ 0 \in 0 .. MaxBody
      BY <1>1
    <3> QED
      BY <2>7, <3>1 DEF OnItsWay
  <2> QED
    BY <2>4, <2>5, <2>8
<1>10. CASE e = 0 /\ Head(t) # Flush
  <2>1. Head(t) = LastChunk /\ EndsBody(t) /\ Tail(t) = <<>>
    BY <1>5, <1>10, TailParts
  <2>2. ~reader.sized /\ reader.expects = "size" /\ phase = "closing"
    BY <1>6, <1>10, <2>1 DEF SizedReader, ChunkReader
  <2>3. ~chunked /\ remaining = 0 /\ accepted = g
    <3>1. ~chunked
      BY <2>2 DEF Framing
    <3> QED
      BY <1>2, <1>6, <2>2, <3>1 DEF Framing
  <2>4. PICK x : x = ReadToken(reader, LastChunk)
    OBVIOUS
  <2>5. x \in Readers /\ ~x.sized /\ x.got = g /\ x.expects = "end"
    BY <1>1, <1>2, <2>2, <2>4, ReadEnds
  <2>6. reader' = x /\ base' = [base EXCEPT !.dirty = TRUE]
    <3>1. Head(unsent) = LastChunk /\ LastChunk.kind = "last"
      BY <1>5, <1>10, <2>1, Parts
    <3> QED
      BY <2>4, <3>1 DEF Take
  <2>7. base' \in [broken : BOOLEAN, dirty : BOOLEAN]
    BY <1>1, <2>6
  <2>8. TypeOK' /\ unsent' \in Seq(Token)
    <3>1. x \in [sized : BOOLEAN, need : Nat, got : 0 .. MaxBody,
                 expects : {"size", "byte", "crlf", "end", "bad"}]
      BY <1>1, <1>2, <2>5, ReaderIn
    <3> QED
      BY <1>4, <1>7, <2>6, <2>7, <3>1 DEF TypeOK
  <2>9. Framing' /\ WellFramed' /\ EndKnown' /\ FlushComes'
    BY <1>4, <2>2, <2>3, <2>5, <2>6 DEF Framing, WellFramed, EndKnown, FlushComes
  <2>10. InFlight(0, 0, 0, <<>>)'
    <3>1. ChunkReader(0, 0, 0, <<>>)'
      BY <2>5, <2>6 DEF ChunkReader, EndsBody
    <3>2. BufferContinues(reader.got + 0)'
      BY <1>4, <2>3 DEF BufferContinues
    <3>3. accepted' = g + 0 + 0
      BY <1>4, <2>3
    <3> QED
      BY <1>4, <1>5, <1>10, <2>1, <2>3, <2>5, <2>6, <3>1, <3>2, <3>3 DEF InFlight
  <2>11. OnItsWay'
    <3>1. 0 \in 0 .. 1 /\ 0 \in 0 .. MaxBody /\ <<>> \in Tails
      BY <1>1 DEF Tails
    <3> QED
      BY <2>10, <3>1 DEF OnItsWay
  <2> QED
    BY <2>8, <2>9, <2>11
<1> QED
  BY <1>8, <1>9, <1>10

(* What the base takes is one of these.                                     *)
LEMMA TakeKeeps ==
    ASSUME IInv, Take PROVE IInv'
<1>1. ~base.broken
  BY DEF Take
<1>2. PICK a \in 0 .. 1, m \in 0 .. MaxBody, e \in 0 .. 1, t \in Tails :
        InFlight(a, m, e, t)
  BY <1>1 DEF IInv, OnItsWay
<1>3. MaxBody \in Nat
  BY ReaderTyped DEF IInv
<1>4. CASE a = 1
  BY <1>1, <1>2, <1>4, TakeSizeKeeps
<1>5. CASE a = 0 /\ m > 0
  BY <1>1, <1>2, <1>5, TakeByteKeeps
<1>6. CASE a = 0 /\ m = 0
  BY <1>1, <1>2, <1>6, TakeEndKeeps
<1> QED
  BY <1>3, <1>4, <1>5, <1>6

-----------------------------------------------------------------------------
(* The invariant.                                                           *)

(* A new stream is in step with its peer.                                   *)
LEMMA InitIInv ==
    ASSUME Init PROVE IInv
<1>1. /\ unsent = <<>> /\ phase = "open" /\ accepted = 0
      /\ base = [broken |-> FALSE, dirty |-> FALSE]
  BY DEF Init
<1>2. /\ ChunkBufferSize \in Nat \ {0} /\ MaxBody \in Nat /\ Lengths \subseteq Nat
      /\ 0 \in 0 .. MaxBody
  BY SizesAssumption DEF SizesAssumption
<1>3. base \in [broken : BOOLEAN, dirty : BOOLEAN] /\ ~base.dirty
  BY <1>1
<1>4. unsent \in Seq(Token) /\ DOMAIN unsent = {}
  BY <1>1
<1>5. Message(unsent, 0, 0, 0, 0, <<>>)
  BY <1>1, TailMessage DEF Tails
<1>6. 0 \in 0 .. 1 /\ 0 \in 0 .. MaxBody /\ <<>> \in Tails /\ ~EndsBody(<<>>)
  BY <1>2 DEF Tails, EndsBody
<1>7. CASE chunked /\ remaining = ChunkBufferSize /\ reader = Fresh(FALSE, 0)
           /\ chunkBuffer = [i \in 1 .. ChunkBufferSize |-> 0]
  <2>1. reader = [sized |-> FALSE, need |-> 0, got |-> 0, expects |-> "size"]
    BY <1>7 DEF Fresh
  <2>2. chunkBuffer \in Seq(0 .. MaxBody) /\ Len(chunkBuffer) = ChunkBufferSize
    <3>1. PICK S, d : S = 0 .. MaxBody /\ d = [i \in 1 .. ChunkBufferSize |-> 0]
      OBVIOUS
    <3>2. d \in [1 .. ChunkBufferSize -> S]
      BY <1>2, <3>1
    <3>3. d \in Seq(S)
      BY <1>2, <3>2, SeqDef
    <3>4. Len(d) = ChunkBufferSize
      BY <1>2, <3>2, <3>3, LenProperties
    <3> QED
      BY <1>7, <3>1, <3>3, <3>4
  <2>3. /\ reader \in [sized : BOOLEAN, need : Nat, got : 0 .. MaxBody,
                       expects : {"size", "byte", "crlf", "end", "bad"}]
        /\ ~reader.sized /\ reader.got = 0 /\ reader.expects = "size"
    BY <1>2, <2>1
  <2>4. chunked \in BOOLEAN /\ chunked /\ remaining = ChunkBufferSize /\ remaining \in Nat
    BY <1>2, <1>7
  <2>5. TypeOK
    BY <1>1, <1>2, <1>3, <1>4, <2>2, <2>3, <2>4 DEF TypeOK
  <2>6. Framing /\ WellFramed /\ EndKnown /\ FlushComes
    BY <1>1, <1>3, <2>3, <2>4 DEF Framing, WellFramed, EndKnown, FlushComes
  <2>7. InFlight(0, 0, 0, <<>>)
    <3>1. ChunkReader(0, 0, 0, <<>>)
      BY <1>6, <2>3 DEF ChunkReader
    <3>2. ChunkBufferSize - remaining = 0 /\ 1 .. 0 = {} /\ 0 + 0 = 0 /\ 0 + 0 + 0 = 0
      BY <2>4, <1>2
    <3>3. BufferContinues(reader.got + 0)
      BY <3>2 DEF BufferContinues
    <3> QED
      BY <1>1, <1>5, <2>3, <2>4, <3>1, <3>2, <3>3 DEF InFlight
  <2> QED
    BY <1>3, <1>4, <1>6, <2>5, <2>6, <2>7 DEF IInv, OnItsWay
<1>8. CASE chunked = FALSE /\ remaining \in Lengths /\ chunkBuffer = <<0>>
           /\ reader = Fresh(TRUE, remaining)
  <2>1. /\ reader = [sized |-> TRUE, need |-> remaining, got |-> 0,
                     expects |-> IF remaining = 0 THEN "end" ELSE "byte"]
        /\ remaining \in Nat
    BY <1>2, <1>8 DEF Fresh
  <2>2. chunkBuffer \in Seq(0 .. MaxBody)
    BY <1>2, <1>8
  <2>3. /\ reader \in [sized : BOOLEAN, need : Nat, got : 0 .. MaxBody,
                       expects : {"size", "byte", "crlf", "end", "bad"}]
        /\ reader.sized /\ reader.got = 0 /\ reader.need = remaining
        /\ reader.expects = IF remaining = 0 THEN "end" ELSE "byte"
    BY <1>2, <2>1
  <2>4. chunked \in BOOLEAN /\ ~chunked /\ chunkBuffer = <<0>>
    BY <1>8
  <2>5. TypeOK
    BY <1>1, <1>2, <1>3, <1>4, <2>1, <2>2, <2>3, <2>4 DEF TypeOK
  <2>6. Framing /\ WellFramed /\ EndKnown /\ FlushComes
    BY <1>1, <1>3, <2>1, <2>3, <2>4 DEF Framing, WellFramed, EndKnown, FlushComes
  <2>7. InFlight(0, 0, 0, <<>>)
    <3>1. 0 + remaining = remaining
      BY <2>1
    <3>2. SizedReader(0, 0, 0, <<>>)
      BY <1>6, <2>3, <3>1 DEF SizedReader
    <3>3. BufferContinues(reader.got + 0)
      BY <2>4 DEF BufferContinues
    <3> QED
      BY <1>1, <1>5, <2>3, <2>4, <3>2, <3>3 DEF InFlight
  <2> QED
    BY <1>3, <1>4, <1>6, <2>5, <2>6, <2>7 DEF IInv, OnItsWay
<1> QED
  BY <1>7, <1>8 DEF Init

(* A step that changes nothing.                                             *)
LEMMA StutterKeeps ==
    ASSUME IInv, UNCHANGED vars PROVE IInv'
<1> USE DEF IInv, vars
<1>1. TypeOK' /\ unsent' \in Seq(Token)
  BY DEF TypeOK
<1>2. Framing' /\ WellFramed' /\ EndKnown' /\ FlushComes'
  BY DEF Framing, WellFramed, EndKnown, FlushComes
<1>3. ~base'.broken => OnItsWay'
  BY DEF OnItsWay, InFlight, BufferContinues, SizedReader, ChunkReader
<1> QED
  BY <1>1, <1>2, <1>3

(* Every step keeps the invariant.                                          *)
LEMMA StepIInv ==
    ASSUME SizesPrintable, IInv, [Next]_vars PROVE IInv'
<1>1. CASE Put
  <2>1. PICK count \in 1 .. Lesser(MaxWrite, MaxBody - accepted) :
          PutBuffered(count) \/ PutChunk(count) \/ PutLength(count)
    BY <1>1 DEF Put
  <2> QED
    BY <2>1, PutBufferedKeeps, PutChunkKeeps, PutLengthKeeps
<1>2. CASE PutChar
  BY <1>2, PutCharLengthKeeps
<1>3. CASE Sync
  BY <1>3, SyncKeeps
<1>4. CASE Done
  BY <1>4, DoneChunkedKeeps, DoneLengthKeeps DEF Done
<1>5. CASE Fill
  BY <1>5, FillKeeps
<1>6. CASE FinishDone
  BY <1>6, FinishDoneKeeps
<1>7. CASE Take
  BY <1>7, TakeKeeps
<1>8. CASE Drop
  BY <1>8, DropKeeps
<1>9. CASE Break
  BY <1>9, BreakKeeps
<1>10. CASE UNCHANGED vars
  BY <1>10, StutterKeeps
<1> QED
  BY <1>1, <1>2, <1>3, <1>4, <1>5, <1>6, <1>7, <1>8, <1>9, <1>10 DEF Next

(* And so it always holds.                                                  *)
LEMMA Invariance ==
    ASSUME SizesPrintable PROVE Spec => []IInv
<1>1. Init => IInv
  BY InitIInv
<1>2. IInv /\ [Next]_vars => IInv'
  BY StepIInv
<1> QED
  BY <1>1, <1>2, PTL DEF Spec

-----------------------------------------------------------------------------
(* The theorems, for every buffer size and all lengths of bodies and of     *)
(* writes, as long as a size can be printed.                                *)

(* The type invariant of StreamBufOutput.                                   *)
THEOREM TypeCorrect ==
    ASSUME SizesPrintable PROVE Spec => []TypeOK
<1>1. IInv => TypeOK
  BY DEF IInv
<1> QED
  BY <1>1, Invariance, PTL

(* The peer never meets a size it cannot read, a byte out of order or a     *)
(* byte behind the end of the body, also when done() is called twice and    *)
(* when the base stream fails between two bytes (xsputnChunked(),           *)
(* dumpBuffer(), done()).                                                   *)
THEOREM PeerReadsOn ==
    ASSUME SizesPrintable PROVE Spec => []WellFramed
<1>1. IInv => WellFramed
  BY DEF IInv
<1> QED
  BY <1>1, Invariance, PTL

(* A byte the writer was told is taken is with the peer, in the call in     *)
(* progress or in chunkBuffer, and in one of them only (xsputn(), sync()).  *)
THEOREM EveryByteOnce ==
    ASSUME SizesPrintable PROVE Spec => []NothingLost
<1>1. ASSUME IInv, ~base.broken
      PROVE  accepted =
               reader.got
                 + Cardinality({i \in DOMAIN unsent : unsent[i].kind = "byte"})
                 + (IF chunked THEN ChunkBufferSize - remaining ELSE 0)
  <2>1. PICK a \in 0 .. 1, m \in 0 .. MaxBody, e \in 0 .. 1, t \in Tails :
          InFlight(a, m, e, t)
    BY <1>1 DEF IInv, OnItsWay
  <2>2. reader.got \in Nat /\ m \in Nat
    BY <1>1, ReaderTyped DEF IInv
  <2>3. Cardinality({i \in DOMAIN unsent : unsent[i].kind = "byte"}) = m
    BY <2>1, <2>2, MessageBytes DEF InFlight
  <2> QED
    BY <2>1, <2>3 DEF InFlight
<1>2. IInv => NothingLost
  BY <1>1 DEF NothingLost
<1> QED
  BY <1>2, Invariance, PTL

(* The peer sees the end of a body only when it has all of it (done() sends *)
(* what is buffered before the last chunk, and no chunk is empty).          *)
THEOREM EndComesLast ==
    ASSUME SizesPrintable PROVE Spec => []EndMeansAll
<1>1. IInv => EndMeansAll
  BY DEF IInv, EndKnown, EndMeansAll
<1> QED
  BY <1>1, Invariance, PTL

(* A body whose end was sent is not left in the buffer of the base stream   *)
(* (xsputnLength(), overflowLength(), done()).                              *)
THEOREM EndLeavesTheBuffer ==
    ASSUME SizesPrintable PROVE Spec => []CompleteIsFlushed
<1>1. IInv => CompleteIsFlushed
  BY DEF IInv, FlushComes, Idle, CompleteIsFlushed
<1> QED
  BY <1>1, Invariance, PTL

=============================================================================
