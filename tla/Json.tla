--------------------------------- MODULE Json ---------------------------------
(* EBJsonObject, EBJsonArray and the values in them: dump() and parse().  A      *)
(* value is [tag, text, members]; an object and an array keep their members in  *)
(* one map, sorted by key, the keys of an array being numbers in text.  A text  *)
(* is a sequence of symbols: the punctuation, "true", "false" and "null",       *)
(* digits and letters.                                                          *)
EXTENDS Text

CONSTANTS Values,     \* the values that are built
          Keys        \* all keys that occur, in the order of strcmp

VARIABLES input,      \* the value a program has built
          unread,     \* its dump, or <<>> before
          object      \* what is parsed from the dump, or None before

vars == <<input, unread, object>>

Value(tag, text, members) == [tag |-> tag, text |-> text, members |-> members]
None == Value("none", <<>>, <<>>)
Index(n) == <<Digit[n + 1]>>

Rank(key) == IndexFirstSubSeq(<<key>>, Keys)

\* EBMap::operator[]: the member of that key is replaced, or put in its place.
set(members, key, value) ==
    LET Before(m) == Rank(m.key) < Rank(key)
        Behind(m) == Rank(m.key) > Rank(key)
    IN  SelectSeq(members, Before) \o <<[key |-> key, value |-> value]>>
        \o SelectSeq(members, Behind)

\* The key append() gives an item: eight hexadecimal digits of the size, which
\* neither at() nor an array that was parsed knows.
HexKey(n) == <<"0", "0", "0", "0", "0", "0", "0">> \o Index(n)
append(members, value) == set(members, HexKey(Len(members)), value)

-----------------------------------------------------------------------------
\* Level -1 writes one line, from level 0 on a member has a line of its own.
doLevel(level) == [i \in 1 .. level |-> "\t"]
Break(level) == IF level >= 0 THEN <<"\n">> ELSE <<>>
Inner(level) == IF level >= 0 THEN level + 1 ELSE level


Escaped(text) == replace(text, <<"\"">>, <<"\\", "\"">>)

\* Keys are written as they are, in strings the quotes are escaped.
RECURSIVE dump(_, _)
dump(value, level) ==
    LET array == value.tag = "array"
        Member(m) == doLevel(level + 1)
                     \o (IF array THEN <<>> ELSE <<"\"">> \o m.key \o <<"\"", ":", " ">>)
                     \o dump(m.value, Inner(level))
        Listed == FlattenSeq([i \in DOMAIN value.members |->
                      (IF i = 1 THEN <<>> ELSE <<",", " ">> \o Break(level))
                      \o Member(value.members[i])])
    IN  CASE value.tag = "string" -> <<"\"">> \o Escaped(value.text) \o <<"\"">>
          [] value.tag \in {"object", "array"} ->
                Break(level) \o doLevel(level) \o <<IF array THEN "[" ELSE "{">> \o Break(level)
                \o Listed
                \o Break(level) \o doLevel(level) \o <<IF array THEN "]" ELSE "}">>
          [] value.tag = "number" -> value.text
          [] OTHER -> <<value.tag>>

-----------------------------------------------------------------------------
\* The parsers give [next, value]: the position behind what they read.  A string
\* and a key end at the first quote without a backslash before it; a backslash
\* stands for the symbol behind it.
RECURSIVE Quoted(_, _, _, _)
Quoted(d, i, text, escape) ==
    IF i > Len(d) THEN [next |-> i, value |-> Value("string", text, <<>>)]
    ELSE IF d[i] = "\"" /\ ~escape THEN [next |-> i + 1, value |-> Value("string", text, <<>>)]
    ELSE IF d[i] = "\\" /\ ~escape THEN Quoted(d, i + 1, text, TRUE)
    ELSE Quoted(d, i + 1, Append(text, d[i]), FALSE)

\* A number is its digits and dots; a sign before it has been passed over.
Number(d, i) ==
    LET end == CHOOSE j \in i .. Len(d) :
                  /\ \A k \in i .. j : d[k] \in Range(Digit) \cup {"."}
                  /\ j < Len(d) => d[j + 1] \notin Range(Digit) \cup {"."}
    IN  [next |-> end + 1, value |-> Value("number", SubSeq(d, i, end), <<>>)]

Starts(symbol) == symbol \in {"\"", "{", "[", "true", "false", "null"} \cup Range(Digit)

\* In an array, what does not start a value is passed over until one starts,
\* its closing bracket included; behind a value until a comma or the bracket.
\* In an object a key must come first.
RECURSIVE parseArray(_, _, _, _), parseObject(_, _, _, _, _), ParseValue(_, _)
ParseValue(d, i) ==
    CASE d[i] = "\"" -> Quoted(d, i + 1, <<>>, FALSE)
      [] d[i] = "{" -> parseObject(d, i + 1, "KEY_START", <<>>, <<>>)
      [] d[i] = "[" -> parseArray(d, i + 1, "VALUE_START", <<>>)
      [] d[i] \in Range(Digit) -> Number(d, i)
      [] OTHER -> [next |-> i + 1, value |-> Value(d[i], <<>>, <<>>)]

parseArray(d, i, state, members) ==
    LET read == ParseValue(d, i)
    IN  IF i > Len(d) THEN [next |-> i, value |-> Value("array", <<>>, members)]
        ELSE IF state = "VALUE_START" /\ Starts(d[i])
             THEN parseArray(d, read.next, "VALUE_END",
                             set(members, Index(Len(members)), read.value))
        ELSE IF state = "VALUE_END" /\ d[i] = "]"
             THEN [next |-> i + 1, value |-> Value("array", <<>>, members)]
        ELSE parseArray(d, i + 1, IF d[i] = "," THEN "VALUE_START" ELSE state, members)

parseObject(d, i, state, key, members) ==
    LET read == ParseValue(d, i)
        quoted == Quoted(d, i + 1, <<>>, FALSE)
    IN  IF i > Len(d) \/ (state \in {"KEY_START", "VALUE_END"} /\ d[i] = "}")
        THEN [next |-> i + 1, value |-> Value("object", <<>>, members)]
        ELSE IF state = "KEY_START" /\ d[i] = "\""
             THEN parseObject(d, quoted.next, "SEPERATOR", quoted.value.text, members)
        ELSE IF state = "VALUE_START" /\ Starts(d[i])
             THEN parseObject(d, read.next, "VALUE_END", key, set(members, key, read.value))
        ELSE parseObject(d, i + 1,
                         CASE state = "SEPERATOR" /\ d[i] = ":" -> "VALUE_START"
                           [] state = "VALUE_END" /\ d[i] = "," -> "KEY_START"
                           [] OTHER -> state,
                         key, members)

\* White space around is trimmed; anything but a bracket is refused.
parse(data) == ParseValue(trim(data), 1).value

-----------------------------------------------------------------------------
Init == input \in Values /\ unread = <<>> /\ object = None

Dump == /\ unread = <<>>
        /\ \E level \in {-1, 0} : unread' = dump(input, level)
        /\ UNCHANGED <<input, object>>

\* A number is collected with EBString(char), whose buffer has no terminator:
\* the symbol in memory behind it may be read as one more digit.
RECURSIVE Stale(_, _)
Stale(value, digits) ==
    IF value.tag = "number" THEN [value EXCEPT !.text = @ \o digits]
    ELSE [value EXCEPT !.members =
             [i \in DOMAIN @ |-> [@[i] EXCEPT !.value = Stale(@, digits)]]]

Parse == /\ unread # <<>> /\ object = None
         /\ \E digits \in {<<>>, <<"9">>} : object' = Stale(parse(unread), digits)
         /\ UNCHANGED <<input, unread>>

Next == Dump \/ Parse

Spec == Init /\ [][Next]_vars
-----------------------------------------------------------------------------
\* A value whose dump says what it is: no text with a backslash or a quote at
\* its end, no key with either, no negative number, no empty array, and arrays
\* with the keys of parse().
RECURSIVE Representable(_)
Representable(value) ==
    CASE value.tag = "string" ->
            /\ "\\" \notin Range(value.text)
            /\ value.text # <<>> => Last(value.text) # "\""
      [] value.tag = "number" -> "-" \notin Range(value.text)
      [] value.tag = "array" ->
            /\ value.members # <<>>
            /\ \A i \in DOMAIN value.members : /\ value.members[i].key = Index(i - 1)
                                               /\ Representable(value.members[i].value)
      [] value.tag = "object" ->
            \A i \in DOMAIN value.members : /\ Range(value.members[i].key) \cap {"\"", "\\"} = {}
                                            /\ Representable(value.members[i].value)
      [] OTHER -> TRUE

RECURSIVE HasNumber(_)
HasNumber(value) ==
    \/ value.tag = "number"
    \/ \E i \in DOMAIN value.members : HasNumber(value.members[i].value)

\* What is dumped, on one line or on many, is parsed as the same value at every
\* depth, up to the digit that may follow a number (dump, parse).
RoundTrip ==
    (object # None /\ Representable(input)) =>
        \/ object = input
        \/ HasNumber(input) /\ object = Stale(input, <<"9">>)
=============================================================================
