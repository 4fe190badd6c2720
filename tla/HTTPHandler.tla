---------------------------- MODULE HTTPHandler ----------------------------
(***************************************************************************)
(* An HTTPHandler: the application registers and removes routes while no    *)
(* request is handled; a request is offered to the routes in their order,   *)
(* until one whose path and method fit, and whose action takes it.          *)
(***************************************************************************)
EXTENDS PyntHTTP, PathMatcher

CONSTANTS
    Calls,          \* what the application asks: [op, method, path]
    Targets,        \* what a client asks: [method, path, carries], the latter
                    \* where else it gives a value to a name of a path
    MaxAsked,       \* bound: calls of addPath() and remPath()
    MaxRequests     \* bound: requests

ASSUME HandlerAssumption ==
    /\ MaxAsked \in Nat /\ MaxRequests \in Nat
    /\ \A call \in Calls : call.path \in Seq(STRING)
    /\ \A t \in Targets : t.path \in Seq(STRING)

VARIABLES
    routes,         \* PathMatcher::paths
    asked,          \* the calls so far
    target,         \* what the request asks for
    phase,          \* "idle", "searching" the table, in an "action", "done"
    at,             \* the route that is tried
    declined,       \* those whose action has returned false
    variables,      \* Request::variables(): where the value of a name is from
    formUnread      \* the body of the request has not been read

handlerVars == <<routes, asked, target, phase, at, declined, variables, formUnread>>
vars == <<serverVars, handlerVars>>

NoTarget == [method |-> "none", path |-> <<"/">>, carries |-> {}]

Init ==
    /\ InitServer
    /\ routes = <<>> /\ asked = <<>>
    /\ target = NoTarget
    /\ phase = "idle"
    /\ at = 1 /\ declined = {}
    /\ variables = <<>> /\ formUnread = TRUE

-----------------------------------------------------------------------------
(* The application, while no request is handled.                            *)

Asks(call) ==
    /\ phase = "idle" /\ server = "waiting" /\ requests = <<>>
    /\ Len(asked) < MaxAsked
    /\ asked' = Append(asked, call)
    /\ UNCHANGED <<serverVars, target, phase, at, declined, variables, formUnread>>

Rooted(path) == IF path # <<>> /\ path[1] = "/" THEN path ELSE <<"/">> \o path

(* HTTPHandler::addPath() roots the path, remPath() takes it as it is.      *)
AddPath(call) ==
    /\ call.op = "add"
    /\ routes' = addPath(routes, call.method, Rooted(call.path))
    /\ Asks(call)

(* remPath() of a table that compares the methods only.                     *)
RemPathOfMethod(call) ==
    LET there == {i \in DOMAIN routes : routes[i].method = call.method} IN
    /\ call.op = "remove"
    /\ routes' = IF there = {} THEN routes
                 ELSE [routes EXCEPT ![Min0(there, 0)].live = FALSE]
    /\ Asks(call)

RemPath(call) ==
    /\ call.op = "remove"
    /\ routes' = remPath(routes, call.method, call.path)
    /\ Asks(call)

(* A client sends a request.                                                *)
Arrives ==
    /\ phase = "idle" /\ server = "waiting" /\ requests = <<>>
    /\ request.id < MaxRequests
    /\ target' \in Targets
    /\ \E c \in {"none", "close"} :
        requests' = << [id |-> request.id + 1, version |-> "1.1",
                        connection |-> c, fault |-> "none"] >>
    /\ UNCHANGED <<wire, server, request, response, routes, asked, phase, at,
                   declined, variables, formUnread>>

-----------------------------------------------------------------------------
(* processRequest() and findMatch().                                        *)

Begins ==
    /\ handleRequest
    /\ phase' = "searching"
    /\ at' = 1 /\ declined' = {}
    /\ variables' = <<>> /\ formUnread' = TRUE
    /\ UNCHANGED <<routes, asked, target>>

Fits == checkPathMatch(routes[at], target.method, target.path)

(* The route does not fit, or has been removed.                             *)
NextRoute ==
    /\ phase = "searching"
    /\ at <= Len(routes)
    /\ ~Fits \/ ~routes[at].live
    /\ at' = at + 1
    /\ UNCHANGED <<serverVars, routes, asked, target, phase, declined, variables,
                   formUnread>>

\* addHeaders(), addQueryParam(), addPathMatch(), addFormVariables(): the
\* later one replaces what the earlier ones have left
Over(later, earlier) ==
    [name \in DOMAIN later \union DOMAIN earlier |->
        IF name \in DOMAIN later THEN later[name] ELSE earlier[name]]

Range0(names) == {names[i] : i \in DOMAIN names}
From(names, place) == [name \in names |-> [from |-> place, route |-> at]]
Given(place) ==
    From(IF place \in target.carries THEN {<<"x">>} ELSE {}, place)

WithVariables ==
    Over(From(Range0(routes[at].names), "path"),
         Over(Given("query"), Over(Given("header"), variables)))

WithForm == IF formUnread THEN Over(Given("form"), WithVariables) ELSE WithVariables

(* callUserAction() that reads the query when the path has been read.       *)
callUserActionQueryLast ==
    /\ phase = "searching"
    /\ at <= Len(routes)
    /\ Fits /\ routes[at].live
    /\ variables' = Over(Given("query"), WithForm)
    /\ phase' = "action"
    /\ UNCHANGED <<serverVars, routes, asked, target, at, declined, formUnread>>

(* callUserAction() up to the action; a form is read after the validation.  *)
callUserAction ==
    /\ phase = "searching"
    /\ at <= Len(routes)
    /\ Fits /\ routes[at].live
    /\ \/ /\ setStatus(400) \/ setStatusLate(400)
          /\ variables' = WithVariables
          /\ phase' = "done"
          /\ UNCHANGED formUnread
       \/ /\ variables' = WithForm
          /\ formUnread' = (formUnread /\ "form" \notin target.carries)
          /\ phase' = "action"
          /\ UNCHANGED serverVars
    /\ UNCHANGED <<routes, asked, target, at, declined>>

(* What the action does to the response, before it returns.                 *)
Acts ==
    /\ phase = "action"
    /\ \/ \E code \in Code : setStatus(code)
       \/ \E name \in HeaderName : addHeader(name)
       \/ body("counted")
    /\ UNCHANGED handlerVars

ActionThrows ==
    /\ phase = "action"
    /\ \/ \E code \in Code : setStatusLate(code)
       \/ addHeaderLate
       \/ Throws(response.meant)
    /\ phase' = "done"
    /\ UNCHANGED <<routes, asked, target, at, declined, variables, formUnread>>

ActionHandles ==
    /\ phase = "action"
    /\ phase' = "done"
    /\ UNCHANGED <<serverVars, routes, asked, target, at, declined, variables, formUnread>>

ActionDeclines ==
    /\ phase = "action"
    /\ phase' = "searching"
    /\ at' = at + 1
    /\ declined' = declined \union {at}
    /\ UNCHANGED <<serverVars, routes, asked, target, variables, formUnread>>

NotFound ==
    /\ phase = "searching"
    /\ at > Len(routes)
    /\ setStatus(404) \/ setStatusLate(404)
    /\ phase' = "done"
    /\ UNCHANGED <<routes, asked, target, at, declined, variables, formUnread>>

(* handleRequest() returns, unless it has thrown.                           *)
Finishes ==
    /\ phase = "done"
    /\ Returns
    /\ phase' = "idle"
    /\ UNCHANGED <<routes, asked, target, at, declined, variables, formUnread>>

(* The client reads what it was sent.                                       *)
ClientReads ==
    /\ phase = "idle" /\ wire # <<>>
    /\ wire' = <<>>
    /\ UNCHANGED <<requests, server, request, response, handlerVars>>

Next ==
    \/ \E call \in Calls : AddPath(call) \/ RemPath(call)
    \/ Arrives \/ Begins \/ NextRoute \/ callUserAction
    \/ Acts \/ ActionThrows \/ ActionHandles \/ ActionDeclines \/ NotFound
    \/ Finishes \/ ClientReads

Spec == Init /\ [][Next]_vars

-----------------------------------------------------------------------------
Takes(route, plainly) ==
    /\ route.method \in {"All", target.method}
    /\ \E values \in Instances(route.path, target.path) :
        plainly => Plain(route.path, values)

(* The action that runs is that of the first route, of those that have not  *)
(* been removed and have not declined, whose path the request instantiates; *)
(* a request that no route takes gets past the table's end.  (A value that  *)
(* holds text of the path may be missed: sections are searched from the     *)
(* left, and there is no second try.)                                       *)
RoutedAsDeclared ==
    /\ phase = "action" => routes[at].live /\ Takes(routes[at], FALSE)
    /\ phase = "action" \/ (phase = "searching" /\ at > Len(routes)) =>
        \A i \in 1 .. at - 1 :
            routes[i].live /\ i \notin declined => ~Takes(routes[i], TRUE)

Latest(call) ==
    {i \in DOMAIN asked :
        /\ asked[i].method = call.method /\ Rooted(asked[i].path) = Rooted(call.path)
        /\ asked[i].op = "add" \/ asked[i].path = Rooted(asked[i].path)}

(* What was registered answers until it is removed, and what was removed    *)
(* never answers again before it is registered again, whatever else has     *)
(* been registered and removed in between.  (A path without its "/" can be  *)
(* registered and cannot be removed: remPath() of it is not counted.)       *)
TableAsAsked ==
    \A call \in Calls :
        call.op = "add" /\ Latest(call) # {} /\ buildMatchInfo(Rooted(call.path)).valid =>
            LET last == CHOOSE i \in Latest(call) : \A j \in Latest(call) : j <= i
                there == {i \in DOMAIN routes :
                            /\ routes[i].method = call.method
                            /\ routes[i].path = Rooted(call.path)} IN
            asked[last].op = "add" <=> \E i \in there : routes[i].live

(* An action reads under a name of its own path what is in the path of the  *)
(* request, whatever the routes that declined, the headers and the query    *)
(* have left there.  Only a form may replace it.                            *)
NamesOfRoute ==
    phase = "action" =>
        \A name \in Range0(routes[at].names) :
            variables[name] \in {[from |-> place, route |-> at] : place \in {"path", "form"}}
=============================================================================
