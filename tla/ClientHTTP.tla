----------------------------- MODULE ClientHTTP -----------------------------
(***************************************************************************)
(* A ClientHTTP and the server it talks to: the requests of one client, one *)
(* after the other, on a connection that is kept, closed by agreement, or   *)
(* lost at any moment, and opened again.                                    *)
(***************************************************************************)
EXTENDS PyntHTTP

CONSTANTS
    Attempts,       \* how often processes_async() tries
    MaxCalls        \* bound: calls of get() and its like

ASSUME CallsAssumption == Attempts \in Nat \ {0} /\ MaxCalls \in Nat

VARIABLES
    version,        \* ClientHTTPBase::version
    closed,         \* ClientHTTPBase::closed
    stream,         \* "good", "eof" or "bad": the state of *streamPtr
    step,           \* where processes_async() is; it has returned ("idle") or
                    \* thrown when it is not called
    tries,          \* its loop counter
    call,           \* the request of the call, numbered in `id`
    seen,           \* what the caller's action was last given in this call
    told            \* this connection is to be closed by agreement

clientVars == <<version, closed, stream, step, tries, call, seen, told>>
vars == <<serverVars, clientVars>>

Nothing == [header |-> "none", of |-> 0]

Init ==
    /\ InitServer
    /\ version \in {"1.0", "1.1"}
    /\ closed = FALSE /\ stream = "good"
    /\ step = "idle" /\ tries = 0
    /\ call = NoRequest
    /\ seen = Nothing
    /\ told = FALSE

Call ==
    /\ step \in {"idle", "thrown"}
    /\ call.id < MaxCalls
    /\ \E c \in {"none", "close", "keep-alive"}, f \in {"none", "headers", "framing"} :
        call' = [id |-> call.id + 1, version |-> version, connection |-> c, fault |-> f]
    /\ step' = "sending"
    /\ tries' = 0
    /\ seen' = Nothing
    /\ UNCHANGED <<serverVars, version, closed, stream, told>>

(* resetStream(): a new connection replaces the stream.                     *)
Reset(queued) ==
    /\ Fresh(queued)
    /\ closed' = FALSE
    /\ stream' = "good"
    /\ told' = FALSE

(* It cannot be made: the exception leaves the call, the old stream stays.  *)
ResetFails ==
    /\ step' = "thrown"
    /\ UNCHANGED <<serverVars, version, closed, stream, tries, call, seen, told>>

(* What is written to a lost connection, or to a stream that is bad, is     *)
(* lost without a word.                                                     *)
Send ==
    /\ step = "sending"
    /\ tries < Attempts
    /\ \/ /\ closed \/ stream = "eof"
          /\ Reset(<<call>>)
          /\ step' = "reading"
          /\ UNCHANGED <<version, tries, call, seen>>
       \/ (closed \/ stream = "eof") /\ ResetFails
       \/ /\ ~closed /\ stream # "eof"
          /\ requests' = IF stream = "bad" \/ server = "closed" THEN requests
                         ELSE Append(requests, call)
          /\ step' = "reading"
          /\ UNCHANGED <<wire, server, request, response, version, closed, stream,
                         tries, call, seen, told>>

(* Five failures.                                                           *)
GiveUp ==
    /\ step = "sending"
    /\ tries = Attempts
    /\ step' = "thrown"
    /\ UNCHANGED <<serverVars, version, closed, stream, tries, call, seen, told>>

-----------------------------------------------------------------------------
(* ClientHTTPResponse: the status line, the headers, the body to its end.   *)

Ends == {i \in DOMAIN wire : wire[i].kind = "end"}
Kinds(tokens) == {tokens[i].kind : i \in DOMAIN tokens}

Foremost(places) == {n \in places : \A other \in places : n <= other}

(* A body is left for the next response to begin with: ~StreamBufInput()    *)
(* that does not read on.                                                   *)
ResponseUnread ==
    IF wire # <<>> /\ wire[1].kind = "end" THEN {1}
    ELSE IF Ends # {} THEN Foremost({n \in DOMAIN wire : wire[n].kind = "blank"})
    ELSE IF server = "closed" THEN {Len(wire)} ELSE {}

(* How much is read: up to an end, or all there is when the peer has gone.  *)
ResponseRead ==
    IF Ends # {} THEN Foremost(Ends)
    ELSE IF server = "closed" THEN {Len(wire)} ELSE {}

(* The state the stream is left in.  A body with a length that is cut off   *)
(* does not show; one in chunks shows as the end, as an error or not at all,*)
(* by where it is cut off (getNextChunk()).                                 *)
After(tokens) ==
    IF "end" \in Kinds(tokens) THEN {"good"}
    ELSE IF "blank" \notin Kinds(tokens) THEN {"eof"}
    ELSE IF "counted" \in Kinds(tokens) THEN {"good"} ELSE {"good", "eof", "bad"}

Given(tokens) ==
    IF tokens = <<>> \/ tokens[1].kind # "status" THEN [header |-> "invalid", of |-> 0]
    ELSE [header |-> IF Kinds(tokens) \intersect {"blank", "end"} # {}
                     THEN "whole" ELSE "cut off",
          of |-> tokens[1].of]

(* close(): of an invalid response.  What has been read ahead stays.        *)
Close(tokens) ==
    IF Given(tokens).header = "invalid"
    THEN server' = "closed" /\ requests' = <<>> ELSE UNCHANGED <<server, requests>>

\* closed, from the headers that were read
Closes(tokens) ==
    \/ closed
    \/ "close" \in Kinds(tokens)
    \/ version = "1.0" /\ "keep-alive" \notin Kinds(tokens)

(* processResp() with a stream that can be read.                            *)
processResp ==
    /\ step = "reading"
    /\ stream # "bad"
    /\ \E n \in ResponseRead :
        LET tokens == SubSeq(wire, 1, n) IN
        /\ wire' = SubSeq(wire, n + 1, Len(wire))
        /\ stream' \in After(tokens)
        /\ seen' = Given(tokens)
        /\ closed' = Closes(tokens)
        /\ told' = (n > 0 /\ tokens[n].closes)
        /\ Close(tokens)
    /\ step' = "deciding"
    /\ UNCHANGED <<request, response, version, tries, call>>

(* A bad stream gives nothing, and no end either.                           *)
processRespBad ==
    /\ step = "reading"
    /\ stream = "bad"
    /\ seen' = [header |-> "invalid", of |-> 0]
    /\ closed' = Closes(<<>>)
    /\ Close(<<>>)
    /\ step' = "deciding"
    /\ UNCHANGED <<wire, request, response, version, stream, tries, call, told>>

(* processes_async() that returns what it has.                              *)
DecideReturns ==
    /\ step = "deciding"
    /\ step' = "idle"
    /\ UNCHANGED <<serverVars, version, closed, stream, tries, call, seen, told>>

(* processes_async() that begins at 0 again.                                *)
DecideUncounted ==
    /\ step = "deciding"
    /\ \/ /\ stream = "eof"
          /\ Reset(<<>>)
          /\ step' = "sending"
          /\ UNCHANGED <<version, tries, call, seen>>
       \/ stream = "eof" /\ ResetFails
       \/ /\ stream # "eof"
          /\ step' = "idle"
          /\ UNCHANGED <<serverVars, version, closed, stream, tries, call, seen, told>>

(* The end of a turn of the loop: again on a new connection, or return.     *)
Decide ==
    /\ step = "deciding"
    /\ \/ /\ stream = "eof"
          /\ Reset(<<>>)
          /\ tries' = tries + 1
          /\ step' = "sending"
          /\ UNCHANGED <<version, call, seen>>
       \/ stream = "eof" /\ ResetFails
       \/ /\ stream # "eof"
          /\ step' = "idle"
          /\ UNCHANGED <<serverVars, version, closed, stream, tries, call, seen, told>>

-----------------------------------------------------------------------------
ClientSteps == Send \/ GiveUp \/ processResp \/ processRespBad \/ Decide

Server == ServerSteps /\ UNCHANGED clientVars

Next ==
    \/ Call
    \/ ClientSteps
    \/ Server
    \/ Breaks /\ UNCHANGED clientVars

(* A call goes on, requests are read and handlers return.                   *)
Fairness ==
    /\ WF_vars(ClientSteps)
    /\ WF_vars((RejectRequest \/ handleRequest) /\ UNCHANGED clientVars)
    /\ WF_vars(Returns /\ UNCHANGED clientVars)

Spec == Init /\ [][Next]_vars /\ Fairness

-----------------------------------------------------------------------------
(* Every variable has its type.                                             *)
TypeOK ==
    /\ requests \in Seq(Request) /\ wire \in Seq(Token)
    /\ server \in {"waiting", "handling", "closed"}
    /\ request \in Request /\ call \in Request
    /\ response \in Response
    /\ version \in {"1.0", "1.1"}
    /\ closed \in BOOLEAN /\ told \in BOOLEAN
    /\ stream \in {"good", "eof", "bad"}
    /\ step \in {"idle", "thrown", "sending", "reading", "deciding"}
    /\ tries \in 0 .. Attempts
    /\ seen \in [header : {"none", "invalid", "cut off", "whole"}, of : Nat]

(* On a connection that is used again, through responses nobody read to     *)
(* their end, lost connections and retries, the response a call is given is *)
(* the one to its own request.                                              *)
ResponseBelongs == seen.of \in {0, call.id}

(* A client never sends on a connection of which the server has let it know *)
(* that it closes (PyntHTTP.cpp:57): closed is set by processResp(), tested *)
(* by send(), cleared by a reset only.                                      *)
NeverReuses ==
    [][step = "sending" /\ step' = "reading" /\ told => ~told']_vars

(* A call that returns, rather than throws, has given its caller a response *)
(* with a whole header, unless the stream has gone bad, which no retry and  *)
(* no reset cures (send() and processes_async() look for eof() only).       *)
AnsweredOnReturn ==
    [][step = "deciding" /\ step' = "idle"
        => seen.header = "whole" \/ stream = "bad"]_vars

(* A call returns or throws, even when every connection is lost.            *)
CallReturns ==
    (step \in {"sending", "reading", "deciding"}) ~> (step \in {"idle", "thrown"})
=============================================================================
