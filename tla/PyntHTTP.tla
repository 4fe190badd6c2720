------------------------------ MODULE PyntHTTP ------------------------------
(***************************************************************************)
(* The server's side of one HTTP connection: PyntHTTP::handleRequest() with *)
(* the Request it reads and the Response it builds.  The handler calls what *)
(* Response offers, in any order, and returns or throws.                    *)
(*                                                                         *)
(* What is sent is a sequence of tokens.  How a body is framed is the       *)
(* subject of StreamOutput: here it is its header and its end, and reading  *)
(* a request's body to its end (StreamInput) is part of reading it.         *)
(***************************************************************************)
EXTENDS Integers, Sequences

CONSTANTS
    Code,           \* the codes a handler passes to setStatus()
    MaxHeaders      \* bound: headers a handler adds to one response

ASSUME BoundsAssumption == MaxHeaders \in Nat /\ Code \subseteq 100 .. 599

VARIABLES
    requests,       \* sent by the client, not read yet
    wire,           \* what the client has not read yet
    server,         \* "waiting" for a request, "handling" it, "closed"
    request,        \* the request that is handled
    response        \* its Response, and the status the handler wants

serverVars == <<requests, wire, server, request, response>>

Request == [id : Nat, version : {"1.0", "1.1"},
            connection : {"none", "close", "keep-alive"},
            fault : {"none", "headers", "framing"}]

Token == [kind : {"status", "header", "close", "keep-alive", "counted", "chunked",
                  "blank", "end"},
          of : Nat, code : Nat, closes : BOOLEAN]

Response == [status : Code \union {200}, headerSent : BOOLEAN,
             body : {"none", "counted", "chunked"}, headers : 0 .. MaxHeaders,
             meant : Code \union {200}]

Status(id, code) == [kind |-> "status", of |-> id, code |-> code, closes |-> FALSE]
Line(kind, id)   == [kind |-> kind, of |-> id, code |-> 0, closes |-> FALSE]
\* where a response ends, with what it should have said and whether the
\* connection is closed by agreement
End(id, meant, closes) ==
    [kind |-> "end", of |-> id, code |-> meant, closes |-> closes]

\* headers a handler adds: of no matter here, or "connection"
HeaderName == {"header", "close", "keep-alive"}

NoRequest == [id |-> 0, version |-> "1.1", connection |-> "none", fault |-> "none"]

\* Response::Response()
NewResponse == [status |-> 200, headerSent |-> FALSE, body |-> "none",
                headers |-> 0, meant |-> 200]

\* sendHeaderIfNotSent()
StatusLine ==
    IF response.headerSent THEN <<>>
    ELSE <<Status(request.id, response.status)>>

(* A connection that has just been accepted.                                *)
Fresh(queued) ==
    /\ requests' = queued
    /\ wire' = <<>>
    /\ server' = "waiting"
    /\ request' = NoRequest
    /\ response' = NewResponse

InitServer ==
    /\ requests = <<>> /\ wire = <<>>
    /\ server = "waiting"
    /\ request = NoRequest
    /\ response = NewResponse

-----------------------------------------------------------------------------
(* HTTP 1.0 closes unless it is asked to keep the connection, 1.1 keeps it. *)
Result(r) ==
    IF r.connection # "close" /\ (r.connection = "keep-alive" \/ r.version # "1.0")
    THEN "More" ELSE "Done"

(* The Response(400) of an invalid request, with the reasons that init()    *)
(* noted: none when the header is too large.                                *)
Rejection(r) ==
    <<Status(r.id, 400)>>
        \o (IF r.fault = "headers" THEN <<>> ELSE <<Line("header", r.id)>>)
        \o <<Line("counted", r.id), Line("blank", r.id), End(r.id, 400, FALSE)>>

Reads ==
    /\ server = "waiting"
    /\ requests # <<>>
    /\ requests' = Tail(requests)

RejectRequest ==
    /\ Reads
    /\ Head(requests).fault # "none"
    /\ wire' = wire \o Rejection(Head(requests))
    /\ server' = "closed"
    /\ UNCHANGED <<request, response>>

(* handleRequest() that does not let the client know.                       *)
handleRequestSilently ==
    LET r == Head(requests) IN
    /\ Reads
    /\ r.fault = "none"
    /\ request' = r
    /\ server' = "handling"
    /\ response' = NewResponse
    /\ UNCHANGED wire

(* On a connection that is to be closed the header, and with it the status  *)
(* line, leaves before the handler is called.                               *)
handleRequest ==
    LET r == Head(requests)
        closing == Result(r) = "Done" IN
    /\ Reads
    /\ r.fault = "none"
    /\ request' = r
    /\ server' = "handling"
    /\ response' = [NewResponse EXCEPT !.headerSent = closing]
    /\ wire' = IF closing
               THEN wire \o <<Status(r.id, 200), Line("close", r.id)>>
               ELSE wire

-----------------------------------------------------------------------------
(* What a handler does with its response.                                   *)

Handling == server = "handling" /\ UNCHANGED <<requests, request>>

setStatus(code) ==
    /\ Handling
    /\ ~response.headerSent
    /\ response' = [response EXCEPT !.status = code, !.meant = code]
    /\ UNCHANGED <<wire, server>>

(* addHeader() that does not look whether the body has been started.        *)
addHeaderAnywhere(name) ==
    /\ Handling
    /\ response.headers < MaxHeaders
    /\ wire' = wire \o StatusLine \o <<Line(name, request.id)>>
    /\ response' = [response EXCEPT !.headerSent = TRUE, !.headers = @ + 1]
    /\ UNCHANGED server

addHeader(name) ==
    /\ Handling
    /\ response.headers < MaxHeaders
    /\ response.body = "none"
    /\ wire' = wire \o StatusLine \o <<Line(name, request.id)>>
    /\ response' = [response EXCEPT !.headerSent = TRUE, !.headers = @ + 1]
    /\ UNCHANGED server

(* An application asks for the body once.                                   *)
body(encoding) ==
    /\ Handling
    /\ response.body = "none"
    /\ wire' = wire \o StatusLine
                    \o <<Line(encoding, request.id), Line("blank", request.id)>>
    /\ response' = [response EXCEPT !.headerSent = TRUE, !.body = encoding]
    /\ UNCHANGED server

(* ~Response(), then that of its body: both also when the handler threw.    *)
Destroyed(meant) ==
    (IF response.body = "none"
     THEN StatusLine \o <<Line("counted", request.id), Line("blank", request.id)>>
     ELSE <<>>)
    \o <<End(request.id, meant, Result(request) = "Done")>>

(* processRequest() returns.                                                *)
Returns ==
    /\ Handling
    /\ wire' = wire \o Destroyed(response.meant)
    /\ server' = IF Result(request) = "More" THEN "waiting" ELSE "closed"
    /\ UNCHANGED response

(* It throws: the connection is removed by the server.                      *)
Throws(meant) ==
    /\ Handling
    /\ wire' = wire \o Destroyed(meant)
    /\ server' = "closed"
    /\ UNCHANGED response

(* setStatus() once the status line has left, such as the 404 of a path     *)
(* that HTTPHandler does not know.                                          *)
setStatusLate(code) == response.headerSent /\ Throws(code)

(* addHeader() once the body has been started.                              *)
addHeaderLate == response.body # "none" /\ Throws(response.meant)

ServerSteps ==
    \/ RejectRequest \/ handleRequest
    \/ \E code \in Code : setStatus(code) \/ setStatusLate(code)
    \/ \E name \in HeaderName : addHeader(name)
    \/ addHeaderLate
    \/ body("counted") \/ body("chunked")
    \/ Returns \/ Throws(response.meant)

(* The server stops or the network fails: what is on its way may be lost.   *)
Breaks ==
    /\ server # "closed"
    /\ server' = "closed"
    /\ requests' = <<>>
    /\ \E n \in 0 .. Len(wire) : wire' = SubSeq(wire, 1, n)
    /\ UNCHANGED <<request, response>>

-----------------------------------------------------------------------------
Headers == HeaderName \union {"counted", "chunked"}

Follows(kind) ==
    CASE kind \in HeaderName \union {"status"} -> Headers
      [] kind \in {"counted", "chunked"} -> {"blank"}
      [] kind = "blank" -> {"end"}
      [] kind = "end" -> {"status"}

(* A token may stand behind another.                                        *)
MayFollow(a, b) == b.kind \in Follows(a.kind) /\ (a.kind # "end" => a.of = b.of)

(* Whatever a handler calls, in whatever order, and wherever it throws, what *)
(* is sent is a sequence of well-formed responses: one status line first,   *)
(* no header behind the empty line, one framing, an end (sendHeaderIfNotSent,*)
(* addHeader(), body(), ~Response()).                                       *)
WellFormed ==
    /\ wire # <<>> => wire[1].kind = "status"
    /\ \A i \in 1 .. Len(wire) - 1 : MayFollow(wire[i], wire[i + 1])

(* Server.h:59-61: "Can't open file for some reason. Then we indicate a     *)
(* 404.": the status that a handler sets is the one its response has.       *)
StatusReaches ==
    \A i, j \in DOMAIN wire :
        wire[i].kind = "status" /\ wire[j].kind = "end" /\ wire[i].of = wire[j].of
            => wire[i].code = wire[j].code
=============================================================================
