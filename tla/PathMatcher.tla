---------------------------- MODULE PathMatcher ----------------------------
(***************************************************************************)
(* The routes of an HTTPHandler (PathMatcher.cpp): how a path is parsed     *)
(* into sections and names, how the table of routes changes, and how a path *)
(* of a request is matched.  A string is a sequence of characters; none of  *)
(* them is "%", so decode() changes nothing.                                *)
(***************************************************************************)
EXTENDS Integers, Sequences, FiniteSets

Min0(places, otherwise) ==
    IF places = {} THEN otherwise ELSE CHOOSE p \in places : \A q \in places : p <= q

\* std::string::find() of a character and of a string; positions begin at 0
FindChar(s, c, from) ==
    Min0({p \in from .. Len(s) - 1 : s[p + 1] = c}, Len(s))

Occurs(part, s, p) ==
    p + Len(part) <= Len(s) /\ SubSeq(s, p + 1, p + Len(part)) = part
Places(part, s) == {p \in 0 .. Len(s) - Len(part) : Occurs(part, s, p)}

-----------------------------------------------------------------------------
Invalid == [sections |-> <<>>, names |-> <<>>, valid |-> FALSE]

(* buildMatchInfo(): text, {name}, text, ...; no name is empty, no two are  *)
(* adjacent, every brace is closed.  A path that ends with a name has an    *)
(* empty section behind it.                                                 *)
buildMatchInfo(path) ==
    LET size == Len(path)
        from[prefix \in 0 .. size] ==
            LET nameBeg == FindChar(path, "{", prefix)
                nameEnd == FindChar(path, "}", nameBeg)
                section == SubSeq(path, prefix + 1, nameBeg)
                name == SubSeq(path, nameBeg + 2, nameEnd)
                rest == from[nameEnd + 1]
            IN
            IF prefix = size
            THEN [sections |-> IF size = 0 THEN <<>> ELSE << <<>> >>,
                  names |-> <<>>, valid |-> TRUE]
            ELSE IF prefix # 0 /\ prefix = nameBeg THEN Invalid
            ELSE IF nameBeg = size
            THEN [sections |-> <<section>>, names |-> <<>>, valid |-> TRUE]
            ELSE IF nameEnd = size \/ nameEnd = nameBeg + 1 \/ ~rest.valid THEN Invalid
            ELSE [sections |-> <<section>> \o rest.sections,
                  names |-> <<name>> \o rest.names, valid |-> TRUE]
    IN from[0]

\* MatchBase::operator==
Same(route, method, info) ==
    route.method = method /\ route.sections = info.sections /\ route.names = info.names

Route(method, path, live) ==
    [method |-> method, path |-> path, live |-> live,
     sections |-> buildMatchInfo(path).sections, names |-> buildMatchInfo(path).names]

(* addPath(): a route that is there already is replaced where it is.        *)
addPath(routes, method, path) ==
    LET info == buildMatchInfo(path)
        there == {i \in DOMAIN routes : Same(routes[i], method, info)}
        i == Min0(there, 0) IN
    IF ~info.valid THEN routes
    ELSE IF there # {} THEN [routes EXCEPT ![i] = Route(method, @.path, TRUE)]
    ELSE Append(routes, Route(method, path, TRUE))

(* remPath(): its entry stays, with an action that declines every request.  *)
remPath(routes, method, path) ==
    LET info == buildMatchInfo(path)
        there == {i \in DOMAIN routes : Same(routes[i], method, info)} IN
    IF ~info.valid \/ there = {} THEN routes
    ELSE [routes EXCEPT ![Min0(there, 0)].live = FALSE]

-----------------------------------------------------------------------------
(* A match that takes a path which begins as it should.                    *)
SectionsOfPrefix(sections, path) ==
    LET match[k \in 1 .. Len(sections)] == [p \in 0 .. Len(path) |->
            LET rest == SubSeq(path, p + 1, Len(path))
                found == Places(sections[k], rest)
                at == IF sections[k] = <<>> THEN Len(rest) ELSE Min0(found, 0) IN
            IF sections[k] # <<>> /\ found = {} THEN FALSE
            ELSE IF k = Len(sections) THEN TRUE
            ELSE match[k + 1][p + at + Len(sections[k])]]
    IN Occurs(sections[1], path, 0)
        /\ IF Len(sections) = 1 THEN TRUE ELSE match[2][Len(sections[1])]

(* The match of checkPathMatch(): the first section is a prefix, each other *)
(* one is searched from the left, the empty one takes the rest, and nothing *)
(* is left over.                                                            *)
Sections(sections, path) ==
    LET match[k \in 1 .. Len(sections)] == [p \in 0 .. Len(path) |->
            LET rest == SubSeq(path, p + 1, Len(path))
                found == Places(sections[k], rest)
                at == IF sections[k] = <<>> THEN Len(rest) ELSE Min0(found, 0)
                next == p + at + Len(sections[k]) IN
            IF sections[k] # <<>> /\ found = {} THEN FALSE
            ELSE IF k = Len(sections) THEN next = Len(path)
            ELSE match[k + 1][next]]
    IN Occurs(sections[1], path, 0)
        /\ IF Len(sections) = 1 THEN path = sections[1]
           ELSE match[2][Len(sections[1])]

checkPathMatch(route, method, path) ==
    /\ route.method \in {"All", method}
    /\ Sections(route.sections, path)

-----------------------------------------------------------------------------
(* What a path means, without sections: the names are replaced by values.   *)

Names(path) ==
    LET opens == {i \in DOMAIN path : path[i] = "{"}
    IN {SubSeq(path, b + 1, FindChar(path, "}", b)) : b \in opens}

Fill(path, values) ==
    LET from[i \in 1 .. Len(path) + 1] ==
        IF i > Len(path) THEN <<>>
        ELSE IF path[i] = "{"
             THEN LET e == FindChar(path, "}", i) IN
                  values[SubSeq(path, i + 1, e)] \o from[e + 2]
             ELSE <<path[i]>> \o from[i + 1]
    IN from[1]

Parts(s) == {SubSeq(s, i, j) : i \in 1 .. Len(s) + 1, j \in 0 .. Len(s)}

Instances(path, request) ==
    {values \in [Names(path) -> Parts(request)] : Fill(path, values) = request}

(* None of the values holds a character of the text of the path.            *)
Plain(path, values) ==
    \A name \in DOMAIN values :
        \A i \in DOMAIN values[name] : \A j \in DOMAIN path : values[name][i] # path[j]
=============================================================================
