--------------------------------- MODULE Url ---------------------------------
(* EBUrl: a URL taken apart by setUrl() and put together by toString().  A URL *)
(* is a sequence of symbols, letters and digits one by one, the protocol a      *)
(* word.  A behaviour is a sequence of calls on one object.                     *)
EXTENDS Text

CONSTANTS Urls,       \* the strings given to setUrl()
          Parts,      \* the strings given to the other setters
          MaxCalls    \* bound: how many calls an object gets

VARIABLES object,     \* the members
          input       \* the number of calls, and key and value of the last setArg()

vars == <<object, input>>

\* EBString::toUpper and toLower of a protocol, and its default port.
Words == [http |-> "HTTP", ftp |-> "FTP", urn |-> "URN", unknown |-> "UNKNOWN", h |-> "H"]
Upper(s) == [i \in DOMAIN s |-> IF s[i] \in DOMAIN Words THEN Words[s[i]] ELSE s[i]]
Lower(s) == [i \in DOMAIN s |-> IF s[i] \in Range(Words)
                                THEN CHOOSE w \in DOMAIN Words : Words[w] = s[i] ELSE s[i]]
DefaultPort(protocol) ==
    CASE protocol = <<"HTTP">> -> 80 [] protocol = <<"FTP">> -> 21 [] OTHER -> 0

Before(s, symbol) == mid(s, 0, indexOf(s, <<symbol>>, 0))
Behind(s, symbol) == From(s, indexOf(s, <<symbol>>, 0) + 1)
Has(s, symbol) == contains(s, <<symbol>>)

\* Protocol and default port; the rest is behind the colon.
Protocol(o, url) ==
    IF indexOf(url, <<":">>, 0) > 0
    THEN LET protocol == Upper(Before(url, ":"))
         IN  [o EXCEPT !.protocol = protocol, !.port = DefaultPort(protocol)]
    ELSE [o EXCEPT !.protocol = <<"UNKNOWN">>, !.port = 0]

\* User information without a colon is the name and the password as well.
UserInfo(o, authority) ==
    LET info == Before(authority, "@")
    IN  IF indexOf(authority, <<"@">>, 0) > 0 /\ indexOf(info, <<":">>, 0) # 0
        THEN [o EXCEPT !.username = Before(info, ":"), !.password = Behind(info, ":")]
        ELSE o

\* The host keeps its port, and the number is read from the path at the place
\* the port has in the host.
Authority(o, authority, path) ==
    LET host == IF indexOf(authority, <<"@">>, 0) > 0 THEN Behind(authority, "@")
                ELSE authority
        named == [UserInfo(o, authority) EXCEPT !.host = host]
        colon == indexOf(host, <<":">>, 0)
    IN  IF colon > 0 THEN [named EXCEPT !.port = toInt(From(path, colon + 1))] ELSE named

Argument(q) ==
    IF Has(q, "=") THEN [key |-> Before(q, "="), value |-> Behind(q, "=")]
    ELSE [key |-> <<>>, value |-> q]

\* The arguments are appended to those the object has; a fragment is looked for
\* only behind a query.
Query(o, path) ==
    LET query == Behind(path, "?")
        arguments == split(IF Has(query, "#") THEN Before(query, "#") ELSE query, <<"&">>)
    IN  IF ~Has(path, "?") THEN [o EXCEPT !.path = path]
        ELSE [o EXCEPT !.path = Before(path, "?"),
                       !.fragment = IF Has(query, "#") THEN Behind(query, "#") ELSE <<>>,
                       !.arguments = @ \o [i \in 1 .. Len(arguments) |-> Argument(arguments[i])]]

setUrl(o, url) ==
    LET rest == IF indexOf(url, <<":">>, 0) > 0 THEN Behind(url, ":") ELSE url
        authority == From(rest, 2)
        path == IF Has(authority, "/") THEN From(authority, indexOf(authority, <<"/">>, 0))
                ELSE <<>>
    IN  IF startsWith(rest, <<"/", "/">>)
        THEN Query(Authority(Protocol(o, url),
                             IF Has(authority, "/") THEN Before(authority, "/") ELSE authority,
                             path), path)
        ELSE Query(Protocol(o, url), rest)

getQuery(o) ==
    LET list == FlattenSeq([i \in 1 .. Len(o.arguments) |->
                    LET a == o.arguments[i]
                    IN  (IF a.key # <<>> THEN a.key \o <<"=">> ELSE <<>>) \o a.value \o <<"&">>])
        slash == IF o.host # <<>> /\ ~startsWith(o.path, <<"/">>) THEN <<"/">> ELSE <<>>
    IN  slash \o o.path \o (IF list = <<>> THEN <<>> ELSE <<"?">> \o Front(list))

toString(o) ==
    LET auth == o.username \o (IF o.password # <<>> THEN <<":">> \o o.password ELSE <<>>)
    IN  Lower(o.protocol) \o <<":", "/", "/">>
        \o auth \o (IF auth # <<>> THEN <<"@">> ELSE <<>>) \o o.host
        \o (IF o.port # 0 THEN <<":">> \o Digits(o.port) ELSE <<>>)
        \o getQuery(o) \o o.fragment

Fresh == [protocol |-> <<>>, host |-> <<>>, username |-> <<>>, password |-> <<>>, port |-> 0,
          path |-> <<>>, fragment |-> <<>>, arguments |-> <<>>]

\* The copy constructor: what toString() says, taken apart again.
Copy(o) == setUrl(Fresh, toString(o))

getArg(o, key) ==
    LET places == {i \in DOMAIN o.arguments : o.arguments[i].key = key}
    IN  IF places = {} THEN <<>>
        ELSE o.arguments[CHOOSE i \in places : \A j \in places : i <= j].value

\* The first argument of that key is gone, and the list ends with the new one.
unsetArg(o, key) ==
    LET at == SelectInSeq(o.arguments, LAMBDA a : a.key = key)
    IN  IF at = 0 THEN o ELSE [o EXCEPT !.arguments = RemoveAt(@, at)]

setArg(o, key, value) ==
    [unsetArg(o, key) EXCEPT !.arguments = Append(@, [key |-> key, value |-> value])]

-----------------------------------------------------------------------------
Init == object = Fresh /\ input = [calls |-> 0, arg |-> <<>>]

Becomes(o, arg) ==
    /\ input.calls < MaxCalls
    /\ object' = o
    /\ input' = [calls |-> input.calls + 1, arg |-> arg]

SetUrl == \E url \in Urls : Becomes(setUrl(object, url), <<>>)

\* setHost(), setPath(), setUsername(), setPassword(), setFragment().
SetPart ==
    \E part \in Parts, name \in {"host", "path", "username", "password", "fragment"} :
        Becomes([object EXCEPT ![name] = part], <<>>)

SetPort == Becomes([object EXCEPT !.port = 8], <<>>)

SetProtocol == \E word \in {"http", "urn"} :
                  Becomes([object EXCEPT !.protocol = Upper(<<word>>)], <<>>)

SetArg == \E key \in Parts \ {<<>>}, value \in Parts :
             Becomes(setArg(object, key, value), <<key, value>>)

UnsetArg == \E key \in Parts \ {<<>>} : Becomes(unsetArg(object, key), <<>>)

ClearArgs == Becomes([object EXCEPT !.arguments = <<>>], <<>>)

\* The caller goes on with a copy.
TakeCopy == Becomes(Copy(object), <<>>)

Next == SetUrl \/ SetPart \/ SetPort \/ SetProtocol \/ SetArg \/ UnsetArg \/ ClearArgs
        \/ TakeCopy

Spec == Init /\ [][Next]_vars
-----------------------------------------------------------------------------
\* What toString() writes so that setUrl() reads it back: a host behind a
\* protocol, a user with a password, a port, and no number in the path at the
\* place where the port is looked for.
Plain(o) ==
    LET colon == indexOf(o.host, <<":">>, 0)
        at == IF colon > 0 THEN colon ELSE Len(o.host)
    IN  /\ o.host # <<>> /\ colon # 0 /\ o.protocol # <<>>
        /\ o.username = <<>> <=> o.password = <<>>
        /\ o.port # 0 \/ colon > 0 \/ DefaultPort(o.protocol) = 0
        /\ toInt(From(getQuery(o) \o o.fragment, at + 1)) = 0

\* A copy of such an object prints as the object does, though it may differ in
\* its port, its host and its fragment (setUrl, toString, the copy constructor).
CopyPrintsAlike == Plain(object) => toString(Copy(object)) = toString(object)

\* The value set last is the one found, unless the key came twice in a URL.
ArgIsFound ==
    (input.arg # <<>> /\ Cardinality({i \in DOMAIN object.arguments :
                                         object.arguments[i].key = input.arg[1]}) = 1)
        => getArg(object, input.arg[1]) = input.arg[2]
=============================================================================
