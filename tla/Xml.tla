--------------------------------- MODULE Xml ---------------------------------
(* EBXmlDocument, EBXmlParser and EBXmlElement: a document written by dump()     *)
(* and read by loadFromMemory().  A text is a sequence of symbols, names and     *)
(* values being words.  The tokenizer stops on where its token starts, not on    *)
(* where it reads: behind the last tag it goes on through the memory behind the  *)
(* text until that holds a delimiter.                                            *)
EXTENDS Text

CONSTANTS Documents,  \* the documents that are built
          Beyond      \* what the memory behind a text may hold

VARIABLES input,      \* the document a program has built
          unread,     \* its dump, or <<>> before
          object      \* what was loaded (NoDocument before), and what was
                      \* behind the text of the declaration then

vars == <<input, unread, object>>

Element(name, attributes, children) ==
    [type |-> "ELEMENT", name |-> name, value |-> "", attributes |-> attributes,
     children |-> children]
Attribute(name, value) == [name |-> name, value |-> value]
TextNode(value) == [Element("", <<>>, <<>>) EXCEPT !.type = "TEXT", !.value = value]
NoElement == [Element("", <<>>, <<>>) EXCEPT !.type = "NONE"]
Document(version, encoding, standalone, root) ==
    [version |-> version, encoding |-> encoding, standalone |-> standalone, root |-> root]
NoDocument == Document("", "", "", NoElement)

\* A name or value is one word; what is read between delimiters is a sequence.
Word(s) == IF s = <<>> THEN "" ELSE IF Len(s) = 1 THEN s[1] ELSE "words"

-----------------------------------------------------------------------------
\* dump(FALSE), on one line; the readable form adds blanks and line ends that a
\* parser takes for text, and is left out.  (Words have no quotes to escape.)
AttributeText(a) == <<" ", a.name, "=", "\"">> \o (IF a.value = "" THEN <<>> ELSE <<a.value>>)
                    \o <<"\"">>

RECURSIVE privateDump(_)
privateDump(e) ==
    IF e.type = "TEXT" THEN <<e.value>>
    ELSE <<"<", e.name>>
         \o FlattenSeq([i \in DOMAIN e.attributes |-> AttributeText(e.attributes[i])])
         \o IF e.children = <<>> THEN <<" ", "/", ">">>
            ELSE <<">">> \o FlattenSeq([i \in DOMAIN e.children |-> privateDump(e.children[i])])
                 \o <<"<", "/", e.name, ">">>

dump(doc) ==
    LET Field(name) == IF doc[name] = "" THEN <<>>
                       ELSE <<name, "=", "\"", doc[name], "\"", " ">>
    IN  <<"<", "?", "xml", " ">> \o Field("version") \o Field("encoding")
        \o Field("standalone") \o <<"?", ">", "\n">> \o privateDump(doc.root)

-----------------------------------------------------------------------------
\* The tokenizer: t has the start and the end of the token (from 0), the state,
\* the quote an attribute value began with, the name of the last tag and the
\* tokens so far; s is the text and the memory behind it.
Found(t, s, id, state, start) ==
    [t EXCEPT !.tokens = Append(@, [id |-> id,
                                    value |-> Word(mid(s, t.start, t.end - t.start))]),
              !.state = state, !.start = start]

\* A tag that ends in a slash without a blank before it gives no token at all.
TagBegin(t, s, c) ==
    LET slash == IF c # "/" THEN t
                 ELSE IF t.start = t.end THEN [t EXCEPT !.state = "TAG_END", !.start = @ + 1]
                 ELSE IF s[t.end + 2] = ">" THEN [t EXCEPT !.state = "TEXT"]
                 ELSE t
    IN  IF c \notin {">", " "} THEN slash
        ELSE [Found(slash, s, "TAG_BEGIN", IF c = ">" THEN "TEXT" ELSE "ATTRIBUTE_NAME",
                    t.end + 1)
              EXCEPT !.tag = Word(mid(s, t.start, t.end - t.start))]

TextPart(t, s, c) ==
    LET begun == [t EXCEPT !.state = "TAG_BEGIN", !.start = t.end + 1]
    IN  IF c # "<" THEN t
        ELSE IF trim(mid(s, t.start, t.end - t.start)) = <<>> THEN begun
        ELSE Found(t, s, "TEXT", "TAG_BEGIN", t.end + 1)

AttributeName(t, s, c) ==
    CASE c = " " -> [t EXCEPT !.start = t.end + 1]
      [] c = ">" /\ t.start = t.end -> [t EXCEPT !.start = @ + 1, !.state = "TEXT"]
      [] c = "/" /\ s[t.end + 2] = ">" ->
            [t EXCEPT !.start = t.end + 2, !.end = @ + 1, !.state = "TEXT",
                      !.tokens = Append(@, [id |-> "TAG_END", value |-> t.tag])]
      [] c = "=" -> Found(t, s, "ATTRIBUTE_NAME", "ATTRIBUTE_VALUE", t.end + 2)
      [] OTHER -> t

AttributeValue(t, s, c) ==
    IF t.quote = "" THEN IF c \in {"\"", "'"} THEN [t EXCEPT !.quote = c] ELSE t
    ELSE IF c = t.quote
         THEN [Found(t, s, "ATTRIBUTE_VALUE", "ATTRIBUTE_NAME", t.end + 1) EXCEPT !.quote = ""]
         ELSE t

\* One symbol through the switch.
Symbol(t, s) ==
    LET c == s[t.end + 1]
    IN  CASE t.state = "START" ->
                IF c = "<" THEN [t EXCEPT !.state = "TAG_BEGIN", !.start = t.end + 1] ELSE t
          [] t.state = "TAG_BEGIN" -> TagBegin(t, s, c)
          [] t.state = "TAG_END" ->
                IF c \in {">", " "} THEN Found(t, s, "TAG_END", "TEXT", t.end + 1) ELSE t
          [] t.state = "TEXT" -> TextPart(t, s, c)
          [] t.state = "ATTRIBUTE_NAME" -> AttributeName(t, s, c)
          [] t.state = "ATTRIBUTE_VALUE" -> AttributeValue(t, s, c)

Crash == [id |-> "CRASH", value |-> ""]

RECURSIVE Tokens(_, _, _)
Tokens(t, s, size) ==
    IF t.start >= size THEN t.tokens
    ELSE IF t.end + 1 >= Len(s) THEN <<Crash>>
    ELSE LET next == Symbol(t, s)
         IN  Tokens([next EXCEPT !.end = @ + 1], s, size)

tokenize(text, from, beyond) ==
    Tokens([start |-> from, end |-> from, state |-> "START", quote |-> "", tag |-> "",
            tokens |-> <<>>],
           text \o <<"NUL">> \o beyond, Len(text))

-----------------------------------------------------------------------------
\* createNodesFromTokenList: the open elements are a stack, and an element joins
\* its parent when it is closed.  Everything out of place throws.
Open(n) == Last(n.stack)
SetOpen(n, e) == [n EXCEPT !.stack = Front(@) \o <<e>>]
AddChild(e, child) == [e EXCEPT !.children = Append(@, child)]

CloseElement(n) ==
    IF Len(n.stack) = 1 THEN [n EXCEPT !.stack = <<>>, !.root = Open(n)]
    ELSE LET outer == [n EXCEPT !.stack = Front(@)]
         IN  SetOpen(outer, AddChild(Open(outer), Open(n)))

Node(n, token) ==
    LET open == n.stack # <<>>
        last == Len(Open(n).attributes)
    IN  CASE n.thrown -> n
          [] token.id = "CRASH" -> [n EXCEPT !.thrown = TRUE]
          [] token.id = "TAG_BEGIN" ->
                IF ~open /\ n.root # NoElement THEN [n EXCEPT !.thrown = TRUE]
                ELSE [n EXCEPT !.stack = Append(@, Element(token.value, <<>>, <<>>))]
          [] ~open \/ (token.id = "TAG_END" /\ token.value # Open(n).name) ->
                [n EXCEPT !.thrown = TRUE]
          [] token.id = "ATTRIBUTE_NAME" ->
                SetOpen(n, [Open(n) EXCEPT !.attributes =
                                Append(@, Attribute(token.value, ""))])
          [] token.id = "ATTRIBUTE_VALUE" ->
                SetOpen(n, [Open(n) EXCEPT !.attributes[last].value = token.value])
          [] token.id = "TAG_END" -> CloseElement(n)
          [] token.id = "TEXT" -> SetOpen(n, AddChild(Open(n), TextNode(token.value)))

RECURSIVE CloseAll(_)
CloseAll(n) == IF n.stack = <<>> THEN n ELSE CloseAll(CloseElement(n))

\* The tree, elements that were not closed included: [thrown, root].
createNodesFromTokenList(tokens) ==
    CloseAll(FoldLeft(Node, [thrown |-> FALSE, root |-> NoElement, stack |-> <<>>], tokens))

getAttributeByName(e, name) ==
    LET at == SelectInSeq(e.attributes, LAMBDA a : a.name = name)
    IN  IF at = 0 THEN "" ELSE e.attributes[at].value

\* The declaration is parsed as a tag of its own, named "?".
getDeclaration(text, beyond) ==
    LET end == indexOf(text, <<"?", ">">>, 0) + 2
        declaration == replace(mid(text, 0, end), <<"<", "?", "xml">>, <<"<", "?">>)
    IN  [end |-> end,
         tag |-> createNodesFromTokenList(tokenize(declaration, 0, beyond))]

\* loadFromMemory(): NoDocument when the parser throws or finds no root.
loadFromMemory(text, beyond) ==
    LET declared == getDeclaration(text, beyond)
        nodes == createNodesFromTokenList(tokenize(text, declared.end, beyond))
        Field(name) == getAttributeByName(declared.tag.root, name)
    IN  IF ~startsWith(trim(text), <<"<", "?", "xml">>) \/ declared.tag.thrown \/ nodes.thrown
        THEN NoDocument
        ELSE Document(Field("version"), Field("encoding"), Field("standalone"), nodes.root)

-----------------------------------------------------------------------------
Loaded(beyond, document) == [behind |-> beyond, document |-> document]

Init == input \in Documents /\ unread = <<>> /\ object = Loaded(<<>>, NoDocument)

Dump == /\ unread = <<>>
        /\ unread' = dump(input)
        /\ UNCHANGED <<input, object>>

Load == /\ unread # <<>>
        /\ \E beyond \in Beyond :
              object' \in {Loaded(beyond, loadFromMemory(unread, beyond))}
        /\ UNCHANGED <<input, unread>>

Next == Dump \/ Load

Spec == Init /\ [][Next]_vars
-----------------------------------------------------------------------------
\* Behind its "?>" the tokenizer takes a blank, a "=" or a "/>" for the end of
\* the declaration, if there is one.
Ends(memory) == \E i \in DOMAIN memory :
    \/ memory[i] \in {" ", "="}
    \/ memory[i] = "/" /\ i < Len(memory) /\ memory[i + 1] = ">"

\* A document that is dumped and loaded is the same: declaration, elements,
\* attributes and texts (tokenize, createNodesFromTokenList, dump).  It is loaded
\* exactly if the memory behind the declaration has something that ends it: no
\* declaration ends where its text does, though test/EBXml.cpp:22-27 expects such
\* documents to load whatever is in memory.
RoundTrip == object.behind # <<>> =>
    object.document = IF Ends(object.behind) THEN input ELSE NoDocument
=============================================================================
