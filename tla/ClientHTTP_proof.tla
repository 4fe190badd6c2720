-------------------------- MODULE ClientHTTP_proof --------------------------
(***************************************************************************)
(* A client and its server: proofs for any number of calls, attempts and   *)
(* headers.  There is one request on a connection at a time, so that what  *)
(* is on the wire is one response, whole or not, to the request of the     *)
(* call in progress.                                                       *)
(***************************************************************************)
EXTENDS ClientHTTP, SequenceTheorems, TLAPS

Final(s) == s[Len(s)]

(* A response, or the front of one.                                         *)
OneResponse(s) ==
    /\ s # <<>> => s[1].kind = "status"
    /\ \A i \in 1 .. Len(s) - 1 : MayFollow(s[i], s[i + 1])
    /\ \A i \in DOMAIN s : s[i].kind = "end" => i = Len(s)

(* What the handler has sent fits what its Response knows; where the        *)
(* connection is to be closed it has said so.                               *)
ResponseTrue ==
    server = "handling" =>
        /\ ~response.headerSent => wire = <<>> /\ response.body = "none"
        /\ response.headerSent =>
            /\ wire # <<>>
            /\ Final(wire).of = request.id
            /\ Final(wire).kind \in IF response.body = "none"
                                    THEN HeaderName \union {"status"} ELSE {"blank"}
        /\ Result(request) = "Done" => "close" \in Kinds(wire)

(* One request is under way, between send() and processResp() only.         *)
OneRequest ==
    /\ step # "reading" => requests = <<>> /\ wire = <<>> /\ server # "handling"
    /\ requests # <<>> => requests = <<call>> /\ wire = <<>> /\ server = "waiting"
    /\ server = "handling" => request.id = call.id
    /\ \A i \in DOMAIN wire : wire[i].of = call.id
    /\ stream = "bad" => server = "closed" /\ wire = <<>>

(* The end that closes by agreement was announced, and closed keeps it.     *)
Agreed ==
    /\ \A i \in DOMAIN wire :
        wire[i].closes => wire[i].kind = "end" /\ "close" \in Kinds(wire)
    /\ told => closed

(* Before it decides, a call was given a whole header, or sees why not.     *)
Answered ==
    /\ step \in {"reading", "deciding"} => tries < Attempts
    /\ step = "deciding" => seen.header = "whole" \/ stream # "good"
    /\ seen.of \in {0, call.id}

IInv ==
    /\ TypeOK
    /\ OneResponse(wire) /\ ResponseTrue /\ OneRequest /\ Agreed /\ Answered

-----------------------------------------------------------------------------
(* Sequences of tokens.                                                     *)

(* The front of the response to request id: all but its end.                *)
Part(s, id) ==
    /\ s \in Seq(Token) /\ OneResponse(s)
    /\ \A i \in DOMAIN s : s[i].of = id /\ s[i].kind # "end" /\ ~s[i].closes

(* What stands on the wire after another token has been sent.               *)
LEMMA Joined ==
    ASSUME NEW s \in Seq(Token), NEW t \in Token
    PROVE  /\ s \o <<t>> \in Seq(Token) /\ s \o <<t>> # <<>>
           /\ Len(s \o <<t>>) = Len(s) + 1 /\ Final(s \o <<t>>) = t
           /\ \A i \in DOMAIN s : (s \o <<t>>)[i] = s[i]
           /\ DOMAIN (s \o <<t>>) = DOMAIN s \union {Len(s) + 1}
           /\ (s \o <<t>>)[Len(s) + 1] = t
           /\ Kinds(s \o <<t>>) = Kinds(s) \union {t.kind}
<1>1. /\ s \o <<t>> \in Seq(Token) /\ Len(s \o <<t>>) = Len(s) + 1
      /\ \A i \in 1 .. Len(s) : (s \o <<t>>)[i] = s[i]
      /\ (s \o <<t>>)[Len(s) + 1] = t
      /\ Len(s) \in Nat
  OBVIOUS
<1>2. DOMAIN s = 1 .. Len(s) /\ DOMAIN (s \o <<t>>) = 1 .. Len(s) + 1
  BY <1>1, LenProperties
<1>3. DOMAIN (s \o <<t>>) = DOMAIN s \union {Len(s) + 1}
  BY <1>1, <1>2
<1>4. s \o <<t>> # <<>>
  BY <1>1
<1>5. Kinds(s \o <<t>>) = Kinds(s) \union {t.kind}
  BY <1>1, <1>2, <1>3 DEF Kinds
<1> QED
  BY <1>1, <1>2, <1>3, <1>4, <1>5 DEF Final

(* A line more of the front.                                                *)
LEMMA Grow ==
    ASSUME NEW s, NEW id, Part(s, id), NEW t \in Token,
           t.of = id, t.kind # "end", ~t.closes,
           s = <<>> => t.kind = "status",
           s # <<>> => t.kind \in Follows(Final(s).kind)
    PROVE  Part(s \o <<t>>, id)
<1> DEFINE u == s \o <<t>>
<1>1. /\ s \in Seq(Token) /\ Len(s) \in Nat /\ DOMAIN s = 1 .. Len(s)
      /\ s # <<>> => Len(s) >= 1
  BY LenProperties, EmptySeq DEF Part
<1>2. /\ u \in Seq(Token) /\ Len(u) = Len(s) + 1 /\ u[Len(s) + 1] = t
      /\ \A i \in 1 .. Len(s) : u[i] = s[i]
      /\ DOMAIN u = 1 .. Len(s) + 1
  BY <1>1, Joined
<1>3. u[1].kind = "status"
  BY <1>1, <1>2 DEF Part, OneResponse
<1>4. ASSUME NEW i \in 1 .. Len(u) - 1 PROVE MayFollow(u[i], u[i + 1])
  <2>1. CASE i = Len(s)
    <3>1. s # <<>> /\ u[i] = Final(s) /\ u[i + 1] = t /\ Final(s).of = id
      BY <1>1, <1>2, <2>1 DEF Final, Part
    <3> QED
      BY <3>1 DEF MayFollow
  <2>2. CASE i # Len(s)
    <3>1. i \in 1 .. Len(s) - 1 /\ u[i] = s[i] /\ u[i + 1] = s[i + 1]
      BY <1>1, <1>2, <2>2
    <3> QED
      BY <3>1 DEF Part, OneResponse
  <2> QED
    BY <2>1, <2>2
<1>5. \A i \in DOMAIN u : u[i].of = id /\ u[i].kind # "end" /\ ~u[i].closes
  BY <1>1, <1>2 DEF Part
<1> QED
  BY <1>2, <1>3, <1>4, <1>5 DEF Part, OneResponse

(* The end behind the front.                                                *)
LEMMA Complete ==
    ASSUME NEW s, NEW id, Part(s, id), NEW t \in Token,
           t.of = id, t.kind = "end", s # <<>>, Final(s).kind = "blank"
    PROVE  /\ s \o <<t>> \in Seq(Token) /\ OneResponse(s \o <<t>>)
           /\ \A i \in DOMAIN (s \o <<t>>) :
                /\ (s \o <<t>>)[i].of = id
                /\ (s \o <<t>>)[i].closes =>
                        (s \o <<t>>)[i].kind = "end" /\ t.closes
<1> DEFINE u == s \o <<t>>
<1>1. /\ s \in Seq(Token) /\ Len(s) \in Nat /\ DOMAIN s = 1 .. Len(s) /\ Len(s) >= 1
  BY LenProperties, EmptySeq DEF Part
<1>2. /\ u \in Seq(Token) /\ Len(u) = Len(s) + 1 /\ u[Len(s) + 1] = t
      /\ \A i \in 1 .. Len(s) : u[i] = s[i]
      /\ DOMAIN u = 1 .. Len(s) + 1
  BY <1>1, Joined
<1>3. u[1].kind = "status"
  BY <1>1, <1>2 DEF Part, OneResponse
<1>4. ASSUME NEW i \in 1 .. Len(u) - 1 PROVE MayFollow(u[i], u[i + 1])
  <2>1. CASE i = Len(s)
    <3>1. u[i] = Final(s) /\ u[i + 1] = t /\ Final(s).of = id
      BY <1>1, <1>2, <2>1 DEF Final, Part
    <3> QED
      BY <3>1 DEF MayFollow, Follows, HeaderName
  <2>2. CASE i # Len(s)
    <3>1. i \in 1 .. Len(s) - 1 /\ u[i] = s[i] /\ u[i + 1] = s[i + 1]
      BY <1>1, <1>2, <2>2
    <3> QED
      BY <3>1 DEF Part, OneResponse
  <2> QED
    BY <2>1, <2>2
<1>5. \A i \in DOMAIN u : u[i].of = id /\ (u[i].closes => u[i].kind = "end" /\ t.closes)
  BY <1>1, <1>2 DEF Part
<1>6. \A i \in DOMAIN u : u[i].kind = "end" => i = Len(u)
  BY <1>1, <1>2 DEF Part
<1> QED
  BY <1>2, <1>3, <1>4, <1>5, <1>6 DEF OneResponse

(* Several lines at once are one after the other.                           *)
LEMMA TwoByTwo ==
    ASSUME NEW s \in Seq(Token), NEW a \in Token, NEW b \in Token
    PROVE  s \o <<a, b>> = (s \o <<a>>) \o <<b>>
<1>1. <<a>> \in Seq(Token) /\ <<b>> \in Seq(Token)
  OBVIOUS
<1>2. <<a, b>> = <<a>> \o <<b>>
  <2>1. <<a, b>> = Append(<<a>>, b)
    OBVIOUS
  <2> QED
    BY <1>1, <2>1, AppendIsConcat, Zenon
<1>3. (s \o <<a>>) \o <<b>> = s \o (<<a>> \o <<b>>)
  BY <1>1, ConcatAssociative
<1> QED
  BY <1>2, <1>3, Zenon

-----------------------------------------------------------------------------
(* The server.                                                              *)

LEMMA CodesAreNat == Code \union {200} \subseteq Nat
BY BoundsAssumption

(* What the server may write while it handles the request of the call.      *)
LEMMA Written ==
    ASSUME IInv, server = "handling", UNCHANGED clientVars,
           UNCHANGED <<requests, request>>,
           server' \in {"waiting", "handling", "closed"}, response' \in Response,
           wire' \in Seq(Token), OneResponse(wire'),
           \A i \in DOMAIN wire' :
                /\ wire'[i].of = request.id
                /\ wire'[i].closes => wire'[i].kind = "end" /\ "close" \in Kinds(wire'),
           ResponseTrue'
    PROVE  IInv'
<1>1. step = "reading" /\ requests = <<>> /\ request.id = call.id /\ stream # "bad"
  BY DEF IInv, OneRequest
<1>2. TypeOK'
  BY DEF IInv, TypeOK, clientVars
<1>3. OneRequest'
  BY <1>1 DEF OneRequest, clientVars
<1>4. Agreed' /\ Answered'
  BY DEF IInv, Agreed, Answered, clientVars
<1> QED
  BY <1>2, <1>3, <1>4 DEF IInv

(* The wire while a request is handled is the front of its response.        *)
LEMMA FrontOfResponse ==
    ASSUME IInv, server = "handling"
    PROVE  /\ Part(wire, request.id) /\ request.id \in Nat
           /\ ~response.headerSent => wire = <<>>
           /\ response.headerSent => wire # <<>>
<1>1. wire \in Seq(Token) /\ request.id \in Nat /\ Len(wire) \in Nat
      /\ DOMAIN wire = 1 .. Len(wire)
  BY LenProperties DEF IInv, TypeOK, Request
<1>2. wire # <<>> => Final(wire).kind # "end" /\ Len(wire) \in DOMAIN wire
  <2>2. wire # <<>> => Final(wire).kind \in HeaderName \union {"status"}
                       \/ Final(wire).kind \in {"blank"}
    BY DEF IInv, ResponseTrue
  <2>3. wire # <<>> => Final(wire).kind # "end"
    BY <2>2 DEF HeaderName
  <2> QED
    BY <1>1, <2>3, EmptySeq
<1>3. \A i \in DOMAIN wire : wire[i].kind # "end"
  BY <1>1, <1>2 DEF IInv, OneResponse, Final
<1>4. \A i \in DOMAIN wire : wire[i].of = request.id /\ ~wire[i].closes
  BY <1>3 DEF IInv, OneRequest, Agreed
<1>5. Part(wire, request.id)
  BY <1>1, <1>3, <1>4 DEF Part, IInv
<1> QED
  BY <1>1, <1>5 DEF IInv, ResponseTrue

(* sendHeaderIfNotSent(): afterwards there is a status line.                *)
LEMMA StatusSent ==
    ASSUME IInv, server = "handling", response.body = "none"
    PROVE  /\ StatusLine \in Seq(Token)
           /\ Part(wire \o StatusLine, request.id)
           /\ wire \o StatusLine # <<>>
           /\ Final(wire \o StatusLine).kind \in HeaderName \union {"status"}
           /\ Kinds(wire) \subseteq Kinds(wire \o StatusLine)
<1>1. /\ Part(wire, request.id) /\ request.id \in Nat /\ wire \in Seq(Token)
      /\ ~response.headerSent => wire = <<>>
      /\ response.headerSent => wire # <<>>
  BY FrontOfResponse DEF Part
<1>2. CASE response.headerSent
  <2>1. StatusLine = <<>> /\ wire \o StatusLine = wire
    BY <1>1, <1>2, ConcatEmptySeq DEF StatusLine
  <2>2. StatusLine \in Seq(Token)
    BY <2>1, EmptySeq
  <2> QED
    BY <1>1, <1>2, <2>1, <2>2 DEF IInv, ResponseTrue
<1>3. CASE ~response.headerSent
  <2> DEFINE t == Status(request.id, response.status)
  <2>0. response.status \in Nat
    BY CodesAreNat DEF IInv, TypeOK, Response
  <2>1. t \in Token /\ t.of = request.id /\ t.kind = "status" /\ ~t.closes
    BY <1>1, <2>0 DEF Status, Token
  <2>2. StatusLine = <<t>>
    BY <1>3 DEF StatusLine
  <2>3. Part(wire \o <<t>>, request.id)
    BY <1>1, <1>3, <2>1, Grow
  <2>4. /\ wire \o <<t>> # <<>> /\ Final(wire \o <<t>>) = t
        /\ Kinds(wire \o <<t>>) = Kinds(wire) \union {t.kind}
    BY <1>1, <2>1, Joined
  <2>5. <<t>> \in Seq(Token)
    BY <2>1
  <2> QED
    BY <2>1, <2>2, <2>3, <2>4, <2>5
<1> QED
  BY <1>1, <1>2, <1>3 DEF IInv, TypeOK, Response

LEMMA LineIsToken ==
    ASSUME NEW kind \in {"header", "close", "keep-alive", "counted", "chunked", "blank"},
           NEW id \in Nat
    PROVE  /\ Line(kind, id) \in Token
           /\ Line(kind, id).kind = kind /\ Line(kind, id).of = id
           /\ ~Line(kind, id).closes
BY DEF Line, Token

(* A header line.                                                           *)
LEMMA HeaderStep ==
    ASSUME IInv, NEW name \in HeaderName, addHeader(name), UNCHANGED clientVars
    PROVE  IInv'
<1> DEFINE s == wire \o StatusLine
           t == Line(name, request.id)
           u == s \o <<t>>
<1>1. /\ server = "handling" /\ response.body = "none"
      /\ UNCHANGED <<requests, request, server>> /\ wire' = u
      /\ response' = [response EXCEPT !.headerSent = TRUE, !.headers = @ + 1]
      /\ response.headers < MaxHeaders
  BY DEF addHeader, Handling
<1>2. /\ Part(s, request.id) /\ s # <<>> /\ s \in Seq(Token)
      /\ Final(s).kind \in HeaderName \union {"status"} /\ Kinds(wire) \subseteq Kinds(s)
      /\ request.id \in Nat
  BY <1>1, StatusSent, FrontOfResponse DEF Part
<1>3. t \in Token /\ t.kind = name /\ t.of = request.id /\ ~t.closes
  BY <1>2, LineIsToken DEF HeaderName
<1>4. name \in Follows(Final(s).kind)
  BY <1>2 DEF Follows, Headers, HeaderName
<1>5. Part(u, request.id)
  BY <1>2, <1>3, <1>4, Grow DEF HeaderName
<1>6. u # <<>> /\ Final(u) = t /\ Kinds(u) = Kinds(s) \union {t.kind}
  <2> HIDE DEF s, t
  <2> QED
    BY <1>2, <1>3, Joined
<1>7. response' \in Response /\ response'.headerSent /\ response'.body = "none"
  <2>1. response \in Response /\ response.headers + 1 \in 0 .. MaxHeaders
    <3>1. response \in Response
      BY DEF IInv, TypeOK
    <3>2. response.headers \in 0 .. MaxHeaders
      BY <3>1 DEF Response
    <3> QED
      BY <1>1, <3>1, <3>2, BoundsAssumption
  <2> QED
    BY <1>1, <2>1 DEF Response
<1>8. ResponseTrue'
  BY <1>1, <1>2, <1>3, <1>6, <1>7 DEF ResponseTrue, IInv
<1> QED
  BY <1>1, <1>5, <1>7, <1>8, Written DEF Part

(* The framing and the empty line.                                          *)
LEMMA Framed ==
    ASSUME IInv, server = "handling", response.body = "none",
           NEW encoding \in {"counted", "chunked"}
    PROVE  LET u == ((wire \o StatusLine) \o <<Line(encoding, request.id)>>)
                        \o <<Line("blank", request.id)>>
           IN  /\ Part(u, request.id) /\ u # <<>>
               /\ Final(u) = Line("blank", request.id) /\ Kinds(wire) \subseteq Kinds(u)
<1> DEFINE s == wire \o StatusLine
           t == Line(encoding, request.id)
           b == Line("blank", request.id)
<1>1. /\ Part(s, request.id) /\ s # <<>> /\ s \in Seq(Token)
      /\ Final(s).kind \in HeaderName \union {"status"} /\ Kinds(wire) \subseteq Kinds(s)
      /\ request.id \in Nat
  BY StatusSent, FrontOfResponse DEF Part
<1>2. /\ t \in Token /\ t.kind = encoding /\ t.of = request.id /\ ~t.closes
      /\ b \in Token /\ b.kind = "blank" /\ b.of = request.id /\ ~b.closes
  BY <1>1, LineIsToken
<1>3. encoding \in Follows(Final(s).kind)
  BY <1>1 DEF Follows, Headers, HeaderName
<1>4. Part(s \o <<t>>, request.id)
  BY <1>1, <1>2, <1>3, Grow
<1>5. /\ s \o <<t>> # <<>> /\ Final(s \o <<t>>) = t /\ s \o <<t>> \in Seq(Token)
      /\ Kinds(s) \subseteq Kinds(s \o <<t>>)
  <2> HIDE DEF s, t, b
  <2>1. Kinds(s \o <<t>>) = Kinds(s) \union {t.kind}
    BY <1>1, <1>2, Joined
  <2> QED
    BY <1>1, <1>2, <2>1, Joined
<1>6. "blank" \in Follows(encoding)
  BY DEF Follows, Headers, HeaderName
<1>7. Part((s \o <<t>>) \o <<b>>, request.id)
  BY <1>2, <1>4, <1>5, <1>6, Grow
<1>8. /\ (s \o <<t>>) \o <<b>> # <<>> /\ Final((s \o <<t>>) \o <<b>>) = b
      /\ Kinds(s \o <<t>>) \subseteq Kinds((s \o <<t>>) \o <<b>>)
  <2>1. PICK v \in Seq(Token) : v = s \o <<t>>
    BY <1>5
  <2> HIDE DEF s, t, b
  <2>2. /\ v \o <<b>> # <<>> /\ Final(v \o <<b>>) = b
        /\ Kinds(v \o <<b>>) = Kinds(v) \union {b.kind}
    BY <1>2, Joined
  <2> QED
    BY <2>1, <2>2
<1> QED
  BY <1>1, <1>5, <1>7, <1>8

LEMMA BodyStep ==
    ASSUME IInv, NEW encoding \in {"counted", "chunked"}, body(encoding),
           UNCHANGED clientVars
    PROVE  IInv'
<1>1. /\ server = "handling" /\ response.body = "none"
      /\ UNCHANGED <<requests, request, server>>
      /\ wire' = (wire \o StatusLine)
                    \o <<Line(encoding, request.id), Line("blank", request.id)>>
      /\ response' = [response EXCEPT !.headerSent = TRUE, !.body = encoding]
  BY DEF body, Handling
<1>2. /\ wire \o StatusLine \in Seq(Token) /\ request.id \in Nat
      /\ Line(encoding, request.id) \in Token /\ Line("blank", request.id) \in Token
  BY <1>1, StatusSent, FrontOfResponse, LineIsToken DEF Part
<1>3. wire' = ((wire \o StatusLine) \o <<Line(encoding, request.id)>>)
                \o <<Line("blank", request.id)>>
  BY <1>1, <1>2, TwoByTwo
<1>4. /\ Part(wire', request.id) /\ wire' # <<>>
      /\ Final(wire') = Line("blank", request.id) /\ Kinds(wire) \subseteq Kinds(wire')
  BY <1>1, <1>3, Framed
<1>5. response' \in Response /\ response'.headerSent /\ response'.body # "none"
  BY <1>1 DEF Response, IInv, TypeOK
<1>6. ResponseTrue'
  <2>1. Final(wire').of = request.id /\ Final(wire').kind = "blank"
    BY <1>2, <1>4, LineIsToken
  <2>2. Result(request) = "Done" => "close" \in Kinds(wire')
    BY <1>1, <1>4 DEF ResponseTrue, IInv
  <2> QED
    BY <1>1, <1>4, <1>5, <2>1, <2>2 DEF ResponseTrue
<1> QED
  BY <1>1, <1>4, <1>5, <1>6, Written DEF Part

(* ~Response(): whatever was sent, it ends as one response.                 *)
LEMMA DestroyedStep ==
    ASSUME IInv, server = "handling", NEW meant \in Code \union {200},
           wire' = wire \o Destroyed(meant), server' \in {"waiting", "closed"},
           UNCHANGED <<requests, request, response>>, UNCHANGED clientVars
    PROVE  IInv'
<1> DEFINE e == End(request.id, meant, Result(request) = "Done")
<1>1. /\ Part(wire, request.id) /\ request.id \in Nat /\ wire \in Seq(Token)
  BY FrontOfResponse DEF Part
<1>2. e \in Token /\ e.of = request.id /\ e.kind = "end"
      /\ (e.closes => Result(request) = "Done")
  <2>1. meant \in Nat
    BY CodesAreNat
  <2>2. e = [kind |-> "end", of |-> request.id, code |-> meant,
             closes |-> (Result(request) = "Done")]
    BY DEF End
  <2>3. (Result(request) = "Done") \in BOOLEAN
    OBVIOUS
  <2>4. e.closes = (Result(request) = "Done")
    BY <2>2
  <2> HIDE DEF e
  <2>5. e \in Token
    BY <1>1, <2>1, <2>2, <2>3, Zenon DEF Token
  <2> QED
    BY <2>2, <2>4, <2>5
<1> HIDE DEF e
<1>3. PICK u : /\ Part(u, request.id) /\ u # <<>> /\ Final(u).kind = "blank"
               /\ wire' = u \o <<e>> /\ Kinds(wire) \subseteq Kinds(u)
  <2>1. CASE response.body = "none"
    <3> DEFINE t == Line("counted", request.id)
               b == Line("blank", request.id)
               v == ((wire \o StatusLine) \o <<t>>) \o <<b>>
    <3>1. t \in Token /\ b \in Token /\ b.kind = "blank" /\ StatusLine \in Seq(Token)
      BY <1>1, <2>1, StatusSent, LineIsToken
    <3>2. wire' = wire \o ((StatusLine \o <<t, b>>) \o <<e>>)
      BY <2>1 DEF Destroyed, e
    <3>3. /\ Part(v, request.id) /\ v # <<>> /\ Final(v) = b
          /\ Kinds(wire) \subseteq Kinds(v)
      BY <2>1, Framed
    <3>4. wire' = v \o <<e>>
      <4> HIDE DEF t, b, v
      <4>1. /\ <<t, b>> \in Seq(Token) /\ <<e>> \in Seq(Token)
            /\ wire \o StatusLine \in Seq(Token) /\ StatusLine \o <<t, b>> \in Seq(Token)
        BY <1>1, <1>2, <3>1, ConcatProperties
      <4>2. wire \o ((StatusLine \o <<t, b>>) \o <<e>>)
                = (wire \o (StatusLine \o <<t, b>>)) \o <<e>>
        BY <1>1, <4>1, ConcatAssociative
      <4>3. wire \o (StatusLine \o <<t, b>>) = (wire \o StatusLine) \o <<t, b>>
        <5>1. PICK x \in Seq(Token), y \in Seq(Token) : x = wire /\ y = StatusLine
          BY <1>1, <3>1
        <5>2. PICK z \in Seq(Token) : z = <<t, b>>
          BY <4>1
        <5>3. (x \o y) \o z = x \o (y \o z)
          BY ConcatAssociative
        <5> QED
          BY <5>1, <5>2, <5>3
      <4>4. PICK q \in Seq(Token) : q = wire \o StatusLine
        BY <4>1
      <4>5. q \o <<t, b>> = (q \o <<t>>) \o <<b>>
        BY <3>1, TwoByTwo
      <4> QED
        BY <3>2, <4>2, <4>3, <4>4, <4>5 DEF v
    <3> HIDE DEF v, b
    <3> QED
      BY <3>1, <3>3, <3>4, Zenon
  <2>2. CASE response.body # "none"
    <3>1. response.headerSent /\ wire # <<>> /\ Final(wire).kind = "blank"
      BY <2>2 DEF IInv, ResponseTrue, TypeOK, Response
    <3>2. <<>> \o <<e>> = <<e>>
      <4>1. <<e>> \in Seq(Token)
        BY <1>2
      <4> QED
        BY <4>1, ConcatEmptySeq
    <3>3. wire' = wire \o <<e>>
      BY <2>2, <3>2 DEF Destroyed, e
    <3> QED
      BY <1>1, <3>1, <3>3
  <2> QED
    BY <2>1, <2>2
<1>4. /\ wire' \in Seq(Token) /\ OneResponse(wire')
      /\ \A i \in DOMAIN wire' : /\ wire'[i].of = request.id
                                 /\ wire'[i].closes => wire'[i].kind = "end" /\ e.closes
  BY <1>2, <1>3, Complete
<1>5. Kinds(wire) \subseteq Kinds(wire')
  BY <1>2, <1>3, Joined DEF Part
<1>6. e.closes => "close" \in Kinds(wire')
  BY <1>2, <1>5 DEF IInv, ResponseTrue
<1>7. ResponseTrue'
  BY DEF ResponseTrue
<1>8. response' \in Response
  BY DEF IInv, TypeOK
<1> QED
  BY <1>4, <1>6, <1>7, <1>8, Written

(* A request is read: it is the one of the call, on an empty wire.          *)
LEMMA RequestRead ==
    ASSUME IInv, Reads
    PROVE  /\ Head(requests) = call /\ requests' = <<>> /\ wire = <<>>
           /\ step = "reading" /\ call.id \in Nat /\ stream # "bad"
<1>1. requests = <<call>> /\ wire = <<>> /\ step = "reading" /\ server = "waiting"
  BY DEF Reads, IInv, OneRequest
<1>2. Head(requests) = call /\ requests' = <<>>
  <2>1. Head(<<call>>) = call /\ Tail(<<call>>) = <<>>
    OBVIOUS
  <2> QED
    BY <1>1, <2>1 DEF Reads
<1>3. call.id \in Nat
  BY DEF IInv, TypeOK, Request
<1> QED
  BY <1>1, <1>2, <1>3 DEF IInv, OneRequest

LEMMA StatusIsToken ==
    ASSUME NEW id \in Nat, NEW code \in Nat
    PROVE  /\ Status(id, code) \in Token /\ Status(id, code).kind = "status"
           /\ Status(id, code).of = id /\ ~Status(id, code).closes
           /\ Part(<<Status(id, code)>>, id)
<1> DEFINE t == Status(id, code)
<1>1. t \in Token /\ t.kind = "status" /\ t.of = id /\ ~t.closes
  BY DEF Status, Token
<1> HIDE DEF t
<1>2. /\ <<t>> \in Seq(Token) /\ Len(<<t>>) = 1 /\ DOMAIN <<t>> = {1} /\ <<t>>[1] = t
  BY <1>1
<1>3. OneResponse(<<t>>)
  BY <1>1, <1>2 DEF OneResponse
<1>4. Part(<<t>>, id)
  BY <1>1, <1>2, <1>3 DEF Part
<1> QED
  BY <1>1, <1>4 DEF t

LEMMA RejectStep == ASSUME IInv, RejectRequest, UNCHANGED clientVars PROVE IInv'
<1> DEFINE id == call.id
           first == Status(id, 400)
           h == Line("header", id)
           t == Line("counted", id)
           b == Line("blank", id)
           e == End(id, 400, FALSE)
           v == IF call.fault = "headers" THEN <<first>> ELSE <<first>> \o <<h>>
<1>1. /\ Head(requests) = call /\ requests' = <<>> /\ wire = <<>>
      /\ step = "reading" /\ id \in Nat /\ stream # "bad"
      /\ wire' = wire \o Rejection(call) /\ server' = "closed"
      /\ UNCHANGED <<request, response>>
  BY RequestRead DEF RejectRequest, Reads
<1>2. /\ first \in Token /\ first.kind = "status" /\ Part(<<first>>, id)
      /\ h \in Token /\ h.kind = "header" /\ h.of = id /\ ~h.closes
      /\ t \in Token /\ t.kind = "counted" /\ t.of = id /\ ~t.closes
      /\ b \in Token /\ b.kind = "blank" /\ b.of = id /\ ~b.closes
  BY <1>1, StatusIsToken, LineIsToken
<1>3. e \in Token /\ e.kind = "end" /\ e.of = id /\ ~e.closes
  BY <1>1 DEF End, Token
<1>4. Rejection(call) = v \o <<t, b, e>>
  <2>1. <<first>> \o <<>> = <<first>>
    BY <1>2, ConcatEmptySeq DEF Part
  <2> QED
    BY <2>1 DEF Rejection
<1> HIDE DEF id, first, h, t, b, e
<1>5. Part(v, id) /\ v # <<>> /\ Final(v).kind \in {"status", "header"}
  <2>1. <<first>> \in Seq(Token) /\ <<first>> # <<>> /\ Final(<<first>>) = first
    BY <1>2 DEF Final
  <2>2. "header" \in Follows("status")
    BY DEF Follows, Headers, HeaderName
  <2>3. Part(<<first>> \o <<h>>, id)
    BY <1>2, <2>1, <2>2, Grow
  <2>4. <<first>> \o <<h>> # <<>> /\ Final(<<first>> \o <<h>>) = h
    BY <1>2, <2>1, Joined
  <2> QED
    BY <1>2, <2>1, <2>3, <2>4
<1> HIDE DEF v
<1>6. Part(v \o <<t>>, id) /\ v \o <<t>> # <<>> /\ Final(v \o <<t>>) = t
  <2>1. "counted" \in Follows(Final(v).kind)
    BY <1>5 DEF Follows, Headers, HeaderName
  <2>2. Part(v \o <<t>>, id)
    BY <1>2, <1>5, <2>1, Grow
  <2>3. v \in Seq(Token)
    BY <1>5 DEF Part
  <2> QED
    BY <1>2, <2>2, <2>3, Joined
<1>7. PICK x : /\ x = (v \o <<t>>) \o <<b>> /\ Part(x, id) /\ x # <<>>
               /\ Final(x).kind = "blank"
  <2>1. "blank" \in Follows("counted")
    BY DEF Follows, Headers, HeaderName
  <2>2. Part((v \o <<t>>) \o <<b>>, id)
    BY <1>2, <1>6, <2>1, Grow
  <2>3. (v \o <<t>>) \o <<b>> # <<>> /\ Final((v \o <<t>>) \o <<b>>) = b
    BY <1>2, <1>6, Joined DEF Part
  <2> QED
    BY <1>2, <2>2, <2>3
<1>8. wire' = x \o <<e>>
  <2>1. PICK q \in Seq(Token) : q = v
    BY <1>5 DEF Part
  <2>2. q \o <<t, b, e>> = ((q \o <<t>>) \o <<b>>) \o <<e>>
    <3>1. <<t, b>> \in Seq(Token) /\ <<e>> \in Seq(Token)
      BY <1>2, <1>3
    <3>2. <<t, b, e>> = <<t, b>> \o <<e>>
      <4>1. <<t, b, e>> = Append(<<t, b>>, e)
        OBVIOUS
      <4> QED
        BY <1>3, <3>1, <4>1, AppendIsConcat, Zenon
    <3>3. (q \o <<t, b>>) \o <<e>> = q \o (<<t, b>> \o <<e>>)
      BY <3>1, ConcatAssociative
    <3>4. q \o <<t, b>> = (q \o <<t>>) \o <<b>>
      BY <1>2, TwoByTwo
    <3> QED
      BY <3>2, <3>3, <3>4, Zenon
  <2>3. q \o <<t, b, e>> \in Seq(Token)
    <3>1. <<t, b, e>> \in Seq(Token)
      BY <1>2, <1>3
    <3> QED
      BY <3>1, ConcatProperties
  <2>4. wire' = q \o <<t, b, e>>
    BY <1>1, <1>4, <2>1, <2>3, ConcatEmptySeq
  <2> QED
    BY <1>7, <2>1, <2>2, <2>4
<1>9. /\ wire' \in Seq(Token) /\ OneResponse(wire')
      /\ \A i \in DOMAIN wire' : wire'[i].of = id /\ ~wire'[i].closes
  <2>1. Part(x, id) /\ x # <<>> /\ Final(x).kind = "blank"
    BY <1>7
  <2>2. /\ x \o <<e>> \in Seq(Token) /\ OneResponse(x \o <<e>>)
        /\ \A i \in DOMAIN (x \o <<e>>) :
                /\ (x \o <<e>>)[i].of = id
                /\ (x \o <<e>>)[i].closes =>
                        (x \o <<e>>)[i].kind = "end" /\ e.closes
    BY <1>3, <2>1, Complete
  <2> QED
    BY <1>3, <1>8, <2>2
<1>10. TypeOK'
  BY <1>1, <1>9, EmptySeq DEF IInv, TypeOK, clientVars
<1>11. OneRequest'
  BY <1>1, <1>9 DEF OneRequest, clientVars, id
<1>12. Agreed' /\ Answered' /\ ResponseTrue'
  BY <1>1, <1>9 DEF IInv, Agreed, Answered, ResponseTrue, clientVars
<1> QED
  BY <1>9, <1>10, <1>11, <1>12 DEF IInv

(* The handler is called, with a client that knows whether it closes.       *)
LEMMA HandleStep == ASSUME IInv, handleRequest, UNCHANGED clientVars PROVE IInv'
<1> DEFINE id == call.id
           closing == Result(call) = "Done"
           first == Status(id, 200)
           h == Line("close", id)
<1>1. /\ Head(requests) = call /\ requests' = <<>> /\ wire = <<>>
      /\ step = "reading" /\ id \in Nat /\ stream # "bad"
      /\ request' = call /\ server' = "handling"
      /\ response' = [NewResponse EXCEPT !.headerSent = closing]
      /\ wire' = IF closing THEN wire \o <<first, h>> ELSE wire
  BY RequestRead DEF handleRequest, Reads
<1>2. /\ first \in Token /\ first.kind = "status" /\ Part(<<first>>, id)
      /\ h \in Token /\ h.kind = "close" /\ h.of = id /\ ~h.closes
  BY <1>1, StatusIsToken, LineIsToken
<1>3. /\ response' \in Response /\ response'.headerSent = closing
      /\ response'.body = "none"
  <2>1. NewResponse \in Response
    BY BoundsAssumption DEF NewResponse, Response
  <2>2. closing \in BOOLEAN /\ NewResponse.body = "none"
    BY DEF NewResponse
  <2> HIDE DEF closing
  <2> QED
    BY <1>1, <2>1, <2>2 DEF Response
<1>4. /\ Part(wire', id)
      /\ ~closing => wire' = <<>>
      /\ closing => /\ wire' # <<>> /\ Final(wire') = h /\ "close" \in Kinds(wire')
  <2>1. CASE closing
    <3> HIDE DEF first, h
    <3>1. <<first>> \in Seq(Token) /\ <<first>> # <<>> /\ Final(<<first>>) = first
      BY <1>2 DEF Final
    <3>2. "close" \in Follows("status")
      BY DEF Follows, Headers, HeaderName
    <3>3. Part(<<first>> \o <<h>>, id)
      BY <1>2, <3>1, <3>2, Grow
    <3>4. /\ <<first>> \o <<h>> # <<>> /\ Final(<<first>> \o <<h>>) = h
          /\ Kinds(<<first>> \o <<h>>) = Kinds(<<first>>) \union {h.kind}
      BY <1>2, <3>1, Joined
    <3>5. wire' = <<first>> \o <<h>>
      <4>1. <<>> \in Seq(Token) /\ <<>> \o <<first>> = <<first>>
        BY <3>1, EmptySeq, ConcatEmptySeq
      <4>2. <<>> \o <<first, h>> = (<<>> \o <<first>>) \o <<h>>
        BY <1>2, <4>1, TwoByTwo
      <4> QED
        BY <1>1, <2>1, <4>1, <4>2
    <3> QED
      BY <1>2, <2>1, <3>3, <3>4, <3>5
  <2>2. CASE ~closing
    <3>1. Part(<<>>, id)
      BY EmptySeq DEF Part, OneResponse
    <3> QED
      BY <1>1, <2>2, <3>1
  <2> QED
    BY <2>1, <2>2
<1> HIDE DEF first, h
<1>5. TypeOK'
  BY <1>1, <1>3, <1>4, EmptySeq DEF IInv, TypeOK, clientVars, Part
<1>6. OneRequest'
  BY <1>1, <1>4 DEF OneRequest, clientVars, Part
<1>7. Agreed' /\ Answered'
  BY <1>1, <1>4 DEF IInv, Agreed, Answered, clientVars, Part
<1>8. ResponseTrue'
  BY <1>1, <1>2, <1>3, <1>4 DEF ResponseTrue, HeaderName
<1> QED
  BY <1>4, <1>5, <1>6, <1>7, <1>8 DEF IInv, Part

LEMMA StatusStep ==
    ASSUME IInv, NEW code \in Code, setStatus(code), UNCHANGED clientVars
    PROVE  IInv'
<1>1. /\ server = "handling" /\ server' = "handling"
      /\ UNCHANGED <<wire, requests, request>>
      /\ response' = [response EXCEPT !.status = code, !.meant = code]
  BY DEF setStatus, Handling
<1>2. response \in Response
  BY DEF IInv, TypeOK
<1>3. /\ response' \in Response /\ response'.headerSent = response.headerSent
      /\ response'.body = response.body
  BY <1>1, <1>2 DEF Response
<1>4. ResponseTrue'
  BY <1>1, <1>3 DEF IInv, ResponseTrue
<1>5. /\ wire' \in Seq(Token) /\ OneResponse(wire')
      /\ \A i \in DOMAIN wire' : wire'[i].of = request.id /\ ~wire'[i].closes
  BY <1>1, FrontOfResponse DEF Part
<1> QED
  BY <1>1, <1>3, <1>4, <1>5, Written

(* The connection is lost with what is on its way.                          *)
LEMMA BreakStep == ASSUME IInv, Breaks, UNCHANGED clientVars PROVE IInv'
<1>1. PICK n \in 0 .. Len(wire) : wire' = SubSeq(wire, 1, n)
  BY DEF Breaks
<1>2. /\ server' = "closed" /\ requests' = <<>> /\ UNCHANGED <<request, response>>
  BY DEF Breaks
<1>3. wire \in Seq(Token) /\ Len(wire) \in Nat /\ DOMAIN wire = 1 .. Len(wire)
  BY LenProperties DEF IInv, TypeOK
<1>4. /\ wire' \in Seq(Token) /\ Len(wire') = n /\ DOMAIN wire' = 1 .. n
      /\ \A i \in 1 .. n : wire'[i] = wire[i]
  <2>1. \A i \in 1 .. n : wire[i] \in Token
    BY <1>3
  <2> QED
    BY <1>1, <1>3, <2>1, SubSeqProperties, LenProperties
<1>5. wire' # <<>> => (wire[1].kind = "status" /\ wire'[1] = wire[1])
  <2>1. wire' # <<>> => n > 0
    BY <1>4, EmptySeq
  <2>2. n > 0 => wire # <<>>
    BY <1>3, EmptySeq
  <2> QED
    BY <1>4, <2>1, <2>2 DEF IInv, OneResponse
<1>6. OneResponse(wire')
  <2>1. \A i \in 1 .. n - 1 : MayFollow(wire'[i], wire'[i + 1])
    <3> SUFFICES ASSUME NEW i \in 1 .. n - 1 PROVE MayFollow(wire'[i], wire'[i + 1])
      OBVIOUS
    <3>1. i \in 1 .. Len(wire) - 1 /\ wire'[i] = wire[i] /\ wire'[i + 1] = wire[i + 1]
      BY <1>3, <1>4
    <3> QED
      BY <3>1 DEF IInv, OneResponse
  <2>2. \A i \in 1 .. n : wire'[i].kind = "end" => i = n
    BY <1>3, <1>4 DEF IInv, OneResponse
  <2> QED
    BY <1>4, <1>5, <2>1, <2>2 DEF OneResponse
<1>7. ASSUME NEW i \in DOMAIN wire', wire'[i].closes
      PROVE  wire'[i].kind = "end" /\ "close" \in Kinds(wire')
  <2>1. i \in DOMAIN wire /\ wire'[i] = wire[i]
    BY <1>3, <1>4
  <2>2. wire[i].kind = "end" /\ "close" \in Kinds(wire) /\ i = Len(wire)
    BY <1>7, <2>1 DEF IInv, Agreed, OneResponse
  <2>3. n = Len(wire)
    <3>1. i \in 1 .. n /\ i = Len(wire) /\ n \in 0 .. Len(wire) /\ Len(wire) \in Nat
      BY <1>3, <1>4, <2>2, Zenon
    <3> QED
      BY <3>1
  <2>4. SubSeq(wire, 1, Len(wire)) = wire
    BY <1>3, SubSeqFull
  <2>5. wire' = wire
    BY <1>1, <2>3, <2>4
  <2> QED
    BY <2>1, <2>2, <2>5
<1>8. TypeOK'
  BY <1>2, <1>4, EmptySeq DEF IInv, TypeOK, clientVars
<1>9. wire = <<>> => wire' = <<>>
  BY <1>3, <1>4, EmptySeq
<1>10. OneRequest'
  BY <1>2, <1>3, <1>4, <1>9 DEF IInv, OneRequest, clientVars
<1>11. Agreed' /\ Answered' /\ ResponseTrue'
  BY <1>2, <1>7 DEF IInv, Agreed, Answered, ResponseTrue, clientVars
<1> QED
  BY <1>6, <1>8, <1>10, <1>11 DEF IInv

(* What the server and the network do.                                      *)
LEMMA ServerStep ==
    ASSUME IInv, ServerSteps \/ Breaks, UNCHANGED clientVars PROVE IInv'
<1>1. ASSUME Returns \/ \E meant \in Code \union {200} : Throws(meant) PROVE IInv'
  <2>1. PICK meant \in Code \union {200} : Returns \/ Throws(meant)
    BY <1>1
  <2>2. response.meant \in Code \union {200}
    BY DEF IInv, TypeOK, Response
  <2>3. /\ server = "handling" /\ UNCHANGED <<requests, request, response>>
        /\ server' \in {"waiting", "closed"}
        /\ \E m \in Code \union {200} : wire' = wire \o Destroyed(m)
    BY <2>1, <2>2 DEF Returns, Throws, Handling
  <2> QED
    BY <2>3, DestroyedStep
<1>2. response.meant \in Code \union {200}
  BY DEF IInv, TypeOK, Response
<1>3. ASSUME \/ \E code \in Code : setStatusLate(code)
             \/ addHeaderLate \/ Throws(response.meant)
      PROVE  \E meant \in Code \union {200} : Throws(meant)
  BY <1>2, <1>3 DEF setStatusLate, addHeaderLate
<1> QED
  BY <1>1, <1>3, RejectStep, HandleStep, StatusStep, HeaderStep, BodyStep, BreakStep
     DEF ServerSteps

-----------------------------------------------------------------------------
(* The client.                                                              *)

LEMMA EmptyWire ==
    OneResponse(<<>>) /\ DOMAIN <<>> = {} /\ <<>> \in Seq(Token) /\ <<>> \in Seq(Request)
BY EmptySeq DEF OneResponse

LEMMA CallStep == ASSUME IInv, Call PROVE IInv'
<1>1. /\ step \in {"idle", "thrown"} /\ step' = "sending" /\ tries' = 0
      /\ seen' = Nothing
      /\ UNCHANGED <<serverVars, version, closed, stream, told>>
      /\ \E c \in {"none", "close", "keep-alive"}, f \in {"none", "headers", "framing"} :
           call' = [id |-> call.id + 1, version |-> version, connection |-> c, fault |-> f]
  BY DEF Call
<1>2. requests = <<>> /\ wire = <<>> /\ server # "handling"
  BY <1>1 DEF IInv, OneRequest
<1>3. call' \in Request
  <2>1. call \in Request /\ version \in {"1.0", "1.1"}
    BY DEF IInv, TypeOK
  <2>2. call.id + 1 \in Nat
    BY <2>1 DEF Request
  <2> QED
    BY <1>1, <2>1, <2>2 DEF Request
<1>4. TypeOK'
  <2>1. tries' \in 0 .. Attempts
    BY <1>1, CallsAssumption
  <2>2. Nothing \in [header : {"none", "invalid", "cut off", "whole"}, of : Nat]
    BY DEF Nothing
  <2> QED
    BY <1>1, <1>3, <2>1, <2>2 DEF IInv, TypeOK, serverVars
<1>5. OneResponse(wire') /\ ResponseTrue' /\ OneRequest'
  BY <1>1, <1>2, EmptyWire DEF IInv, ResponseTrue, OneRequest, serverVars
<1>6. Agreed' /\ Answered'
  BY <1>1, <1>2 DEF IInv, Agreed, Answered, serverVars, Nothing
<1> QED
  BY <1>4, <1>5, <1>6 DEF IInv

(* A new connection, with nothing or with the request of the call.          *)
LEMMA ResetStep ==
    ASSUME IInv, NEW queued \in {<<>>, <<call>>}, Reset(queued),
           step' = IF queued = <<>> THEN "sending" ELSE "reading",
           tries' \in 0 .. Attempts, queued # <<>> => tries' < Attempts,
           UNCHANGED <<version, call, seen>>
    PROVE  IInv'
<1>1. /\ requests' = queued /\ wire' = <<>> /\ server' = "waiting"
      /\ request' = NoRequest /\ response' = NewResponse
      /\ closed' = FALSE /\ stream' = "good" /\ told' = FALSE
  BY DEF Reset, Fresh
<1>2. call \in Request /\ queued \in Seq(Request) /\ (queued # <<>> => queued = <<call>>)
  <2>1. call \in Request
    BY DEF IInv, TypeOK
  <2>2. <<>> \in Seq(Request) /\ <<call>> \in Seq(Request)
    BY <2>1, EmptySeq
  <2> QED
    BY <2>1, <2>2
<1>3. NoRequest \in Request /\ NewResponse \in Response
  BY BoundsAssumption DEF NoRequest, Request, NewResponse, Response
<1>4. TypeOK'
  BY <1>1, <1>2, <1>3, EmptyWire DEF IInv, TypeOK
<1>5. OneResponse(wire') /\ ResponseTrue' /\ OneRequest'
  BY <1>1, <1>2, EmptyWire DEF ResponseTrue, OneRequest
<1>6. Agreed' /\ Answered'
  BY <1>1, EmptyWire DEF IInv, Agreed, Answered
<1> QED
  BY <1>4, <1>5, <1>6 DEF IInv

(* A call that is left, with everything where it is.                        *)
LEMMA LeaveStep ==
    ASSUME IInv, step # "reading", step' \in {"idle", "thrown"},
           UNCHANGED <<serverVars, version, closed, stream, tries, call, seen, told>>
    PROVE  IInv'
<1>1. /\ UNCHANGED <<requests, wire, server, request, response>>
      /\ UNCHANGED <<version, closed, stream, tries, call, seen, told>>
  BY DEF serverVars
<1>2. requests = <<>> /\ wire = <<>> /\ server # "handling"
  BY DEF IInv, OneRequest
<1>3. TypeOK'
  BY <1>1 DEF IInv, TypeOK
<1>4. OneResponse(wire') /\ ResponseTrue'
  BY <1>1 DEF IInv, ResponseTrue
<1>5. OneRequest'
  BY <1>1, <1>2, EmptyWire DEF IInv, OneRequest
<1>6. Agreed'
  BY <1>1 DEF IInv, Agreed
<1>7. Answered'
  BY <1>1 DEF IInv, Answered
<1> QED
  BY <1>3, <1>4, <1>5, <1>6, <1>7 DEF IInv

LEMMA ResetFailsStep == ASSUME IInv, step # "reading", ResetFails PROVE IInv'
BY LeaveStep DEF ResetFails

LEMMA SendStep == ASSUME IInv, Send PROVE IInv'
<1>1. /\ step = "sending" /\ requests = <<>> /\ wire = <<>> /\ server # "handling"
      /\ tries < Attempts
  BY DEF Send, IInv, OneRequest
<1>2. CASE (closed \/ stream = "eof") /\ ResetFails
  BY <1>1, <1>2, ResetFailsStep
<1>3. CASE Reset(<<call>>) /\ step' = "reading" /\ UNCHANGED <<version, tries, call, seen>>
  <2>1. tries' \in 0 .. Attempts /\ <<call>> # <<>> /\ tries' < Attempts
    BY <1>1, <1>3 DEF IInv, TypeOK
  <2> QED
    BY <1>3, <2>1, ResetStep
<1>4. CASE /\ requests' = IF stream = "bad" \/ server = "closed" THEN requests
                          ELSE Append(requests, call)
           /\ step' = "reading"
           /\ UNCHANGED <<wire, server, request, response, version, closed, stream,
                          tries, call, seen, told>>
  <2>1. call \in Request
    BY DEF IInv, TypeOK
  <2>2. Append(<<>>, call) = <<call>>
    OBVIOUS
  <2>3. /\ requests' \in {<<>>, <<call>>}
        /\ (requests' # <<>> => (server = "waiting" /\ requests' = <<call>>
                                   /\ stream # "bad"))
    BY <1>1, <1>4, <2>2 DEF IInv, TypeOK
  <2>4. requests' \in Seq(Request)
    <3>1. <<>> \in Seq(Request) /\ <<call>> \in Seq(Request)
      BY <2>1, EmptySeq
    <3> QED
      BY <2>3, <3>1
  <2>5. TypeOK'
    BY <1>4, <2>4 DEF IInv, TypeOK
  <2>6. OneResponse(wire') /\ ResponseTrue' /\ OneRequest'
    BY <1>1, <1>4, <2>3, EmptyWire DEF IInv, ResponseTrue, OneRequest
  <2>7. Agreed' /\ Answered'
    BY <1>1, <1>4 DEF IInv, Agreed, Answered
  <2> QED
    BY <2>5, <2>6, <2>7 DEF IInv
<1> QED
  BY <1>2, <1>3, <1>4 DEF Send

(* What is read is all of the response, and leaves nothing behind.          *)
LEMMA AllRead ==
    ASSUME IInv, NEW n \in ResponseRead
    PROVE  /\ n = Len(wire) /\ SubSeq(wire, 1, n) = wire
           /\ SubSeq(wire, n + 1, Len(wire)) = <<>>
           /\ requests = <<>> /\ server # "handling"
           /\ "end" \notin Kinds(wire) => server = "closed"
<1>1. wire \in Seq(Token) /\ Len(wire) \in Nat /\ DOMAIN wire = 1 .. Len(wire)
  BY LenProperties DEF IInv, TypeOK
<1>2. n = Len(wire) /\ (Ends # {} \/ server = "closed")
  <2>1. CASE Ends # {}
    BY <2>1 DEF ResponseRead, Foremost, Ends, IInv, OneResponse
  <2>2. CASE Ends = {}
    BY <2>2 DEF ResponseRead
  <2> QED
    BY <2>1, <2>2
<1>3. SubSeq(wire, 1, n) = wire
  BY <1>1, <1>2, SubSeqFull
<1>4. SubSeq(wire, n + 1, Len(wire)) = <<>>
  BY <1>1, <1>2, SubSeqEmpty
<1>5. server # "handling"
  <2>1. ASSUME server = "handling" PROVE Ends = {}
    BY <2>1, FrontOfResponse DEF Part, Ends
  <2> QED
    BY <1>2, <2>1
<1>6. requests = <<>>
  <2>1. wire = <<>> => Ends = {}
    BY EmptyWire DEF Ends
  <2> QED
    BY <1>2, <2>1 DEF IInv, OneRequest
<1>7. "end" \notin Kinds(wire) => Ends = {}
  BY DEF Kinds, Ends
<1> QED
  BY <1>2, <1>3, <1>4, <1>5, <1>6, <1>7

LEMMA ReadStep == ASSUME IInv, processResp PROVE IInv'
<1>1. PICK n \in ResponseRead :
        LET tokens == SubSeq(wire, 1, n) IN
        /\ wire' = SubSeq(wire, n + 1, Len(wire))
        /\ stream' \in After(tokens)
        /\ seen' = Given(tokens)
        /\ closed' = Closes(tokens)
        /\ told' = (n > 0 /\ tokens[n].closes)
        /\ Close(tokens)
  BY DEF processResp
<1>2. /\ step = "reading" /\ step' = "deciding"
      /\ UNCHANGED <<request, response, version, tries, call>>
  BY DEF processResp
<1>3. /\ n = Len(wire) /\ SubSeq(wire, 1, n) = wire
      /\ SubSeq(wire, n + 1, Len(wire)) = <<>>
      /\ requests = <<>> /\ server # "handling"
      /\ "end" \notin Kinds(wire) => server = "closed"
  BY AllRead
<1>4. /\ wire' = <<>> /\ stream' \in After(wire) /\ seen' = Given(wire)
      /\ closed' = Closes(wire) /\ told' = (n > 0 /\ wire[n].closes) /\ Close(wire)
  BY <1>1, <1>3
<1>5. /\ requests' = <<>> /\ server' # "handling"
      /\ server' \in {"waiting", "handling", "closed"}
      /\ server = "closed" => server' = "closed"
  BY <1>3, <1>4 DEF Close, IInv, TypeOK
<1>6. /\ wire \in Seq(Token) /\ Len(wire) \in Nat /\ DOMAIN wire = 1 .. Len(wire)
      /\ wire # <<>> => 1 \in DOMAIN wire
  <2>1. wire \in Seq(Token) /\ Len(wire) \in Nat /\ DOMAIN wire = 1 .. Len(wire)
    BY LenProperties DEF IInv, TypeOK
  <2>2. wire # <<>> => Len(wire) # 0
    BY <2>1, EmptySeq
  <2> QED
    BY <2>1, <2>2
<1>7. seen' \in [header : {"none", "invalid", "cut off", "whole"}, of : Nat]
      /\ seen'.of \in {0, call.id}
  <2>1. call.id \in Nat
    BY DEF IInv, TypeOK, Request
  <2>2. wire # <<>> => wire[1].of = call.id
    BY <1>6 DEF IInv, OneRequest
  <2>3. \A h \in {"none", "invalid", "cut off", "whole"}, id \in Nat :
            [header |-> h, of |-> id] \in
                [header : {"none", "invalid", "cut off", "whole"}, of : Nat]
    OBVIOUS
  <2>4. PICK h \in {"invalid", "cut off", "whole"}, id \in {0, call.id} :
            Given(wire) = [header |-> h, of |-> id]
    BY <2>2 DEF Given
  <2>5. seen' = [header |-> h, of |-> id]
    BY <1>4, <2>4
  <2>6. id \in Nat
    <3>1. 0 \in Nat
      OBVIOUS
    <3> QED
      BY <2>1, <3>1, Zenon
  <2>7. seen' \in [header : {"none", "invalid", "cut off", "whole"}, of : Nat]
    BY <2>5, <2>6
  <2>8. seen'.of = id
    BY <2>5
  <2> QED
    BY <2>7, <2>8
<1>8. stream' # "good" \/ seen'.header = "whole"
  <2>1. ASSUME stream' = "good" PROVE "end" \in Kinds(wire) \/ "blank" \in Kinds(wire)
    BY <1>4, <2>1 DEF After
  <2>2. ASSUME "end" \in Kinds(wire) \/ "blank" \in Kinds(wire)
        PROVE  seen'.header = "whole"
    <3>1. wire # <<>>
      BY <2>2, EmptyWire DEF Kinds
    <3>2. wire[1].kind = "status"
      BY <3>1 DEF IInv, OneResponse
    <3> QED
      BY <1>4, <2>2, <3>1, <3>2 DEF Given
  <2> QED
    BY <2>1, <2>2
<1>9. told' => closed'
  <2>1. ASSUME n > 0, wire[n].closes PROVE "close" \in Kinds(wire)
    BY <1>3, <1>6, <2>1 DEF IInv, Agreed
  <2> QED
    BY <1>4, <2>1 DEF Closes
<1>10. stream' = "bad" => server' = "closed"
  BY <1>3, <1>4, <1>5 DEF After
<1>11. stream' \in {"good", "eof", "bad"} /\ closed' \in BOOLEAN /\ told' \in BOOLEAN
  <2>1. told' \in BOOLEAN
    BY <1>4
  <2>2. closed' \in BOOLEAN
    BY <1>4 DEF Closes, IInv, TypeOK
  <2> QED
    BY <1>4, <2>1, <2>2 DEF After
<1>12. TypeOK'
  BY <1>2, <1>4, <1>5, <1>7, <1>11, EmptyWire DEF IInv, TypeOK
<1>13. OneResponse(wire') /\ ResponseTrue' /\ OneRequest'
  BY <1>2, <1>4, <1>5, <1>10, EmptyWire DEF ResponseTrue, OneRequest
<1>14. Agreed' /\ Answered'
  <2>1. tries' < Attempts
    BY <1>2 DEF IInv, Answered
  <2> QED
    BY <1>2, <1>4, <1>7, <1>8, <1>9, <2>1, EmptyWire DEF Agreed, Answered
<1> QED
  BY <1>12, <1>13, <1>14 DEF IInv

LEMMA ReadBadStep == ASSUME IInv, processRespBad PROVE IInv'
<1>1. /\ step = "reading" /\ step' = "deciding" /\ stream = "bad"
      /\ seen' = [header |-> "invalid", of |-> 0] /\ closed' = Closes(<<>>)
      /\ UNCHANGED <<wire, request, response, version, stream, tries, call, told>>
      /\ Close(<<>>)
  BY DEF processRespBad
<1>2. server = "closed" /\ wire = <<>>
  BY <1>1 DEF IInv, OneRequest
<1>3. server' = "closed" /\ requests' = <<>>
  BY <1>1 DEF Close, Given
<1>4. closed' \in BOOLEAN /\ (closed => closed')
  BY <1>1 DEF Closes, IInv, TypeOK
<1>5. TypeOK'
  BY <1>1, <1>3, <1>4, EmptyWire DEF IInv, TypeOK
<1>6. OneResponse(wire') /\ ResponseTrue' /\ OneRequest'
  BY <1>1, <1>2, <1>3, EmptyWire DEF ResponseTrue, OneRequest
<1>7. Agreed' /\ Answered'
  BY <1>1, <1>2, <1>4, EmptyWire DEF IInv, Agreed, Answered
<1> QED
  BY <1>5, <1>6, <1>7 DEF IInv

LEMMA DecideStep == ASSUME IInv, Decide PROVE IInv'
<1>1. CASE ResetFails /\ stream = "eof"
  BY <1>1, ResetFailsStep DEF Decide
<1>2. CASE /\ Reset(<<>>) /\ tries' = tries + 1 /\ step' = "sending"
           /\ UNCHANGED <<version, call, seen>>
  <2>1. tries < Attempts /\ tries \in 0 .. Attempts
    BY DEF Decide, IInv, TypeOK, Answered
  <2>2. tries' \in 0 .. Attempts
    BY <1>2, <2>1, CallsAssumption
  <2> QED
    BY <1>2, <2>2, ResetStep
<1>3. CASE /\ step' = "idle"
           /\ UNCHANGED <<serverVars, version, closed, stream, tries, call, seen, told>>
  BY <1>3, LeaveStep DEF Decide
<1> QED
  BY <1>1, <1>2, <1>3 DEF Decide

LEMMA GiveUpStep == ASSUME IInv, GiveUp PROVE IInv'
BY LeaveStep DEF GiveUp

-----------------------------------------------------------------------------
LEMMA InitIInv == Init => IInv
<1> SUFFICES ASSUME Init PROVE IInv
  OBVIOUS
<1>1. /\ requests = <<>> /\ wire = <<>> /\ server = "waiting"
      /\ request = NoRequest /\ response = NewResponse
      /\ version \in {"1.0", "1.1"} /\ closed = FALSE /\ stream = "good"
      /\ step = "idle" /\ tries = 0 /\ call = NoRequest /\ seen = Nothing
      /\ told = FALSE
  BY DEF Init, InitServer
<1>2. NoRequest \in Request /\ NewResponse \in Response
  BY BoundsAssumption DEF NoRequest, Request, NewResponse, Response
<1>3. Nothing \in [header : {"none", "invalid", "cut off", "whole"}, of : Nat]
  BY DEF Nothing
<1>4. tries \in 0 .. Attempts
  BY <1>1, CallsAssumption
<1>5. TypeOK
  BY <1>1, <1>2, <1>3, <1>4, EmptyWire DEF TypeOK
<1>6. OneResponse(wire) /\ ResponseTrue /\ OneRequest
  BY <1>1, EmptyWire DEF ResponseTrue, OneRequest
<1>7. Agreed /\ Answered
  BY <1>1, EmptyWire DEF Agreed, Answered, Nothing
<1> QED
  BY <1>5, <1>6, <1>7 DEF IInv

LEMMA NextIInv == IInv /\ [Next]_vars => IInv'
<1> SUFFICES ASSUME IInv, [Next]_vars PROVE IInv'
  OBVIOUS
<1>1. CASE Call
  BY <1>1, CallStep
<1>2. CASE ClientSteps
  BY <1>2, SendStep, GiveUpStep, ReadStep, ReadBadStep, DecideStep DEF ClientSteps
<1>3. CASE (ServerSteps \/ Breaks) /\ UNCHANGED clientVars
  BY <1>3, ServerStep
<1>4. CASE UNCHANGED vars
  <2>1. /\ UNCHANGED <<requests, wire, server, request, response>>
        /\ UNCHANGED <<version, closed, stream, step, tries, call, seen, told>>
    BY <1>4 DEF vars, serverVars, clientVars
  <2>2. TypeOK'
    <3>1. TypeOK
      BY DEF IInv
    <3>2. /\ requests' \in Seq(Request) /\ wire' \in Seq(Token)
          /\ server' \in {"waiting", "handling", "closed"}
          /\ request' \in Request /\ call' \in Request /\ response' \in Response
      BY <2>1, <3>1 DEF TypeOK
    <3> QED
      BY <2>1, <3>1, <3>2 DEF TypeOK
  <2>3. OneResponse(wire') /\ ResponseTrue'
    BY <2>1 DEF IInv, ResponseTrue
  <2>4. OneRequest'
    BY <2>1 DEF IInv, OneRequest
  <2>5. Agreed'
    BY <2>1 DEF IInv, Agreed
  <2>6. Answered'
    BY <2>1 DEF IInv, Answered
  <2> QED
    BY <2>2, <2>3, <2>4, <2>5, <2>6 DEF IInv
<1> QED
  BY <1>1, <1>2, <1>3, <1>4 DEF Next, Server

LEMMA Invariance == Spec => []IInv
BY InitIInv, NextIInv, PTL DEF Spec

(* Every variable has its type (the state of ClientHTTP.h:99-113, and what  *)
(* Request and Response of PyntHTTP.h hold).                                *)
THEOREM TypeCorrect == Spec => []TypeOK
<1>1. IInv => TypeOK
  BY DEF IInv
<1> QED
  BY Invariance, <1>1, PTL

(* Whatever handlers call and wherever they throw, for any number of        *)
(* headers and of calls: the server sends well-formed responses             *)
(* (sendHeaderIfNotSent(), addHeader(), body(), ~Response()).               *)
THEOREM SendsWellFormed == Spec => []WellFormed
<1>1. IInv => WellFormed
  BY DEF IInv, OneResponse, WellFormed
<1> QED
  BY Invariance, <1>1, PTL

(* A call is given the response to its own request, whatever was lost,      *)
(* left unread or tried again before (send(), processResp(), resetStream()).*)
THEOREM GivesOwnResponse == Spec => []ResponseBelongs
<1>1. IInv => ResponseBelongs
  BY DEF IInv, Answered, ResponseBelongs
<1> QED
  BY Invariance, <1>1, PTL

(* Nothing is sent on a connection of which the server has said that it     *)
(* closes (closed of processResp(), tested by send()).                      *)
THEOREM ReusesNothingClosed == Spec => NeverReuses
<1>1. IInv /\ [Next]_vars
        => [step = "sending" /\ step' = "reading" /\ told => ~told']_vars
  <2> SUFFICES ASSUME IInv, Next, step = "sending", step' = "reading", told
               PROVE  ~told'
    BY DEF vars
  <2>1. closed
    BY DEF IInv, Agreed
  <2>2. Send
    BY DEF Next, Call, ClientSteps, GiveUp, processResp, processRespBad, Decide,
           Server, clientVars
  <2> QED
    BY <2>1, <2>2 DEF Send, Reset, ResetFails
<1> QED
  BY Invariance, <1>1, PTL DEF Spec, NeverReuses

(* A call that returns has given its caller a whole header, or its stream   *)
(* is bad for good (processes_async()).                                     *)
THEOREM ReturnsAnswered == Spec => AnsweredOnReturn
<1>1. IInv /\ [Next]_vars
        => [step = "deciding" /\ step' = "idle"
              => seen.header = "whole" \/ stream = "bad"]_vars
  <2> SUFFICES ASSUME IInv, Next, step = "deciding", step' = "idle"
               PROVE  seen.header = "whole" \/ stream = "bad"
    BY DEF vars
  <2>1. Decide
    BY DEF Next, Call, ClientSteps, Send, GiveUp, processResp, processRespBad,
           Server, clientVars
  <2>2. stream # "eof"
    BY <2>1 DEF Decide, ResetFails
  <2> QED
    BY <2>2 DEF IInv, TypeOK, Answered
<1> QED
  BY Invariance, <1>1, PTL DEF Spec, AnsweredOnReturn
=============================================================================
