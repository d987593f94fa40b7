------------------------------- MODULE MCData -------------------------------
(***************************************************************************)
(* Instances of what works on data: those of DataLoops, and those that     *)
(* parse and print nested values or are plain conversions (URL, JSON, XML, *)
(* INI file, texts and numbers).  They do not interact, so a behaviour is  *)
(* one of any of them, and kind says of which.  Variables a component does *)
(* not have are 0.                                                         *)
(***************************************************************************)
EXTENDS DataLoops, Sequences

CONSTANT MaxCalls

ASSUME DataAssumption == MaxCalls \in Nat

-----------------------------------------------------------------------------
\* Frames: text, ping, binary and close; the long form of the length; a long
\* form behind a frame with a payload, which the code does not understand.
Frame(opcode, long, payload) == [opcode |-> opcode, long |-> long, payload |-> payload]
FrameLists ==
    {<<Frame(1, FALSE, <<65, 66>>), Frame(9, FALSE, <<>>), Frame(2, FALSE, <<5, 0, 6>>),
       Frame(8, FALSE, <<3>>)>>,
     <<Frame(1, TRUE, <<65>>), Frame(2, TRUE, <<66>>)>>,
     <<Frame(1, FALSE, <<>>), Frame(2, TRUE, <<66>>)>>}

\* Telegrams, noise before one, damage, and one that is longer than the limit.
Telegram(what, body) == [what |-> what, body |-> body]
TelegramLists ==
    {<<Telegram("telegram", <<1, 2>>), Telegram("noise", <<7, 7>>),
       Telegram("damaged", <<2, 2, 9>>), Telegram("telegram", <<2, 2, 9, 2>>)>>,
     <<Telegram("telegram", <<1, 2, 3>>), Telegram("telegram", <<1, 2, 3, 4, 5, 6>>),
       Telegram("telegram", <<1, 2, 3>>)>>}

\* A posted form, a body with a pipelined request behind it, a request without
\* a body and one whose first line is refused.
Request(head, body, more, form, ok) ==
    [head |-> head, path |-> <<"/">>, body |-> body, more |-> more, form |-> form, ok |-> ok]
First == <<"POST", " ", "/", " ", "HTTP", "\n">>
RequestTexts ==
    {Request(First \o <<"Content-Length", ":", " ", "7", "\n",
                        "Content-Type", ":", "form", "\n", "\n">>,
             <<"k", "=", "%41", "&", "l", "+", "m">>, <<>>,
             << <<<<"k">>, <<"A">>>>, <<<<"l", " ", "m">>, <<"l", " ", "m">>>> >>, TRUE),
     Request(First \o <<"Host", ":", " ", "h", "\n", "Content-Length", ":", " ", "2", "\n", "\n">>,
             <<"x", "\n">>, <<"GET", " ", "/">>, <<>>, TRUE),
     Request(First \o <<"Host", ":", "h", "\n", "\n">>, <<>>, <<>>, <<>>, TRUE),
     Request(<<"GET", " ", "/", "\n", "Host", ":", "h", "\n", "\n">>, <<>>, <<>>, <<>>, FALSE)}

Urls ==
    {<<"http", ":", "/", "/", "h", "/", "p", "?", "k", "=", "v", "&", "w">>,
     <<"ftp", ":", "/", "/", "u", ":", "s", "@", "h", ":", "8", "/", "p", "8", "?", "k", "#", "f">>,
     <<"/", "/", "u", "@", "h">>,
     <<"/", "/", "h", ":", "8", "/">>,
     <<"urn", ":", "p", ":", "q">>}

\* JSON values of two levels: texts with quotes and punctuation in them, a
\* negative number, empty containers; and arrays as append() builds them.
JsonValue(tag, text, members) == [tag |-> tag, text |-> text, members |-> members]
Member(key, value) == [key |-> key, value |-> value]
String(text) == JsonValue("string", text, <<>>)
Number(text) == JsonValue("number", text, <<>>)
KeysOfArrays == <<<<"0">>, <<"1">>>>
Appended(n) == <<"0", "0", "0", "0", "0", "0", "0", n>>
JsonArray(keys, values) ==
    JsonValue("array", <<>>, [i \in DOMAIN values |-> Member(keys[i], values[i])])
JsonObject(keys, values) ==
    JsonValue("object", <<>>, [i \in DOMAIN values |-> Member(keys[i], values[i])])
JsonLeaves ==
    {String(<<>>), String(<<"x">>), String(<<"x", "\"", "y">>), String(<<"x", "\"">>),
     String(<<"}", ",">>), Number(<<"4", "2">>), Number(<<"-", "1">>),
     JsonValue("true", <<>>, <<>>), JsonValue("null", <<>>, <<>>)}
JsonSmall ==
    JsonLeaves \cup {JsonArray(<<>>, <<>>), JsonObject(<<>>, <<>>)}
    \cup {JsonArray(KeysOfArrays, <<x>>) : x \in JsonLeaves}
    \cup {JsonObject(<<<<"a">>>>, <<x>>) : x \in JsonLeaves}
JsonValues ==
    {JsonArray(KeysOfArrays, <<x, y>>) : x, y \in JsonSmall}
    \cup {JsonObject(<<<<"a">>, <<"b", " ">>>>, <<x, y>>) : x, y \in JsonSmall}
    \cup {JsonArray(<<Appended("0"), Appended("1")>>, <<x, y>>) : x, y \in JsonLeaves}
JsonKeys == <<<<"0">>, Appended("0"), Appended("1"), <<"1">>, <<"2">>, <<"3">>, <<"4">>,
              <<"5">>, <<"6">>, <<"a">>, <<"b", " ">>>>

\* XML documents of three levels with and without attributes, texts and the
\* fields of the declaration; five ways the memory behind a text may look.
Named(name, value) == [name |-> name, value |-> value]
XmlElement(name, attributes, children) ==
    [type |-> "ELEMENT", name |-> name, value |-> "", attributes |-> attributes,
     children |-> children]
XmlText == [XmlElement("", <<>>, <<>>) EXCEPT !.type = "TEXT", !.value = "t"]
XmlLeaves == {XmlElement("b", <<>>, <<>>), XmlElement("b", <<Named("k", "v")>>, <<>>), XmlText}
XmlChildren ==
    {<<>>} \cup {<<x>> : x \in XmlLeaves}
    \cup {<<x, XmlElement("c", <<Named("k", ""), Named("l", "w")>>, <<y>>)>> : x, y \in XmlLeaves}
XmlDocuments ==
    [version : {"", "1.0"}, encoding : {"", "utf"}, standalone : {"", "yes"},
     root : {XmlElement("a", attributes, children) :
                attributes \in {<<>>, <<Named("k", "v")>>}, children \in XmlChildren}]
\* Files of three lines, the last with an end or without.
IniLines == {<<"[", "a", "]">>, <<"[", "a">>, <<"[">>, <<" ", "[", "b", "]">>, <<"k", "=", "v">>,
             <<" ", "k", "=", "w", " ">>, <<"k", "=">>, <<";", "k", "=", "v">>, <<"k">>, <<>>}
IniFiles == UNION {{a \o <<"\n">> \o b \o <<"\n">> \o c \o end :
                       end \in {<<>>, <<"\n">>}} : a, b, c \in IniLines}

\* All texts up to a length over two letters.
Texts(n) == UNION {[1 .. k -> {"x", "y"}] : k \in 0 .. n}

XmlBeyond == {<<" ", "z">>, <<"=", "z">>, <<"/", ">">>, <<"<", " ", "z">>, <<"q">>}

-----------------------------------------------------------------------------
Address == INSTANCE Url WITH Parts <- {<<"k">>, <<>>}
Json == INSTANCE Json WITH Values <- JsonValues, Keys <- JsonKeys
Xml == INSTANCE Xml WITH Documents <- XmlDocuments, Beyond <- XmlBeyond
Ini == INSTANCE IniFile WITH Files <- IniFiles
Util == INSTANCE Utils WITH Addresses <- {0, 255, 256, 16909060, 2130706433, 2147483647},
                            Numbers <- 0 .. 300 \cup {65535, 65536, 2147483647},
                            Widths <- {0, 2, 4, 8},
                            Subjects <- Texts(5),
                            Searches <- Texts(2) \ {<<>>}, Replacements <- Texts(2)

DataInit ==
    \/ Init
    \/ kind = "url" /\ Address!Init /\ unread = 0 /\ arrived = 0 /\ slots = 0 /\ output = 0
    \/ kind = "json" /\ Json!Init /\ arrived = 0 /\ slots = 0 /\ output = 0
    \/ kind = "xml" /\ Xml!Init /\ arrived = 0 /\ slots = 0 /\ output = 0
    \/ kind = "ini" /\ Ini!Init /\ arrived = 0 /\ slots = 0
    \/ kind = "utils" /\ Util!Init /\ unread = 0 /\ arrived = 0 /\ slots = 0 /\ output = 0

UrlStep == kind = "url" /\ Address!Next /\ UNCHANGED <<kind, unread, arrived, slots, output>>
JsonStep == kind = "json" /\ Json!Next /\ UNCHANGED <<kind, arrived, slots, output>>
XmlStep == kind = "xml" /\ Xml!Next /\ UNCHANGED <<kind, arrived, slots, output>>
IniStep == kind = "ini" /\ Ini!Next /\ UNCHANGED <<kind, arrived, slots>>
UtilStep == kind = "utils" /\ Util!Next /\ UNCHANGED <<kind, unread, arrived, slots, output>>

DataNext ==
    Next \/ UrlStep \/ JsonStep \/ XmlStep \/ IniStep \/ UtilStep

DataSpec == DataInit /\ [][DataNext]_vars

-----------------------------------------------------------------------------
\* What is written is read back as what it was: the text of a URL, the dump of a
\* JSON value and of an XML document, the length of a frame that is sent, an
\* address and a number.  What the code does not give back is excepted by name: a
\* URL that is not Plain, a JSON value that is not Representable, the digit behind a
\* number (HasNumber), an XML document whose declaration the memory behind it does
\* not end (Ends): that one is not loaded.
RoundTrip == /\ kind = "socket" => Socket!SentFramesEnd
             /\ kind = "url" => Address!CopyPrintsAlike
             /\ kind = "json" => Json!RoundTrip
             /\ kind = "xml" => Xml!RoundTrip
             /\ kind = "utils" => Util!RoundTrip

=============================================================================
