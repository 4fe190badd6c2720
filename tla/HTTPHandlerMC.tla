--------------------------- MODULE HTTPHandlerMC ---------------------------
(* The routes and requests of a small instance.                            *)
EXTENDS HTTPHandler

Ask(op, method, path) == [op |-> op, method |-> method, path |-> path]

X == <<"/", "{", "x", "}">>

MCCalls ==
    { Ask("add", "All", X), Ask("remove", "All", X),
      Ask("add", "GET", <<"/", "a">>), Ask("remove", "GET", <<"/", "a">>),
      Ask("add", "GET", <<"a">>),
      Ask("add", "GET", X \o <<"a">>),
      Ask("add", "All", X \o <<"/", "{", "y", "}", "a">>),
      Ask("add", "All", X \o <<"{", "y", "}">>) }

MCTargets ==
    [method : {"GET"}, carries : {{}},
     path : {<<"/">>, <<"/", "a">>, <<"/", "a", "b">>, <<"/", "b", "/", "b", "a">>}]
    \union [method : {"POST"}, carries : {{"header"}}, path : {<<"/", "a">>}]
    \union [method : {"GET"}, carries : {{"query", "form"}}, path : {<<"/", "a">>}]
=============================================================================
