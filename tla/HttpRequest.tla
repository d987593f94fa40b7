----------------------------- MODULE HttpRequest -----------------------------
(* What EBHttpRequest and its EBHttpHeader make of the bytes of a request: the *)
(* first line, the header lines, the body by Content-Length and the parameters *)
(* of a posted form.  A request is a sequence of symbols (words, blanks, line  *)
(* ends); it reaches the socket in blocks cut anywhere, and each block posts a *)
(* readReady slot.  HttpServer has the threads around it.                      *)
EXTENDS Text

CONSTANTS MaxBlocks,  \* bound: slots that were posted and have not run yet
          Requests    \* what clients send: [head, path, body, more, form, ok]

VARIABLES input, unread, arrived, slots,
          object,     \* the members of the request, and how often it was ready
          output      \* what it wrote: "Protocol Error!" or the reply

vars == <<input, unread, arrived, slots, object, output>>

Line == "\n"

\* EBUtils::toLower, urlDecode and std::stoi on the words that occur.  The
\* Content-Length of a request here is a number: any other makes std::stoi throw
\* std::invalid_argument, which readReady does not catch, and ends the program.
toLower(s) ==
    [i \in 1 .. Len(s) |->
        CASE s[i] = "Content-Length" -> "content-length"
          [] s[i] = "Content-Type" -> "content-type"
          [] OTHER -> s[i]]

urlDecode(s) ==
    [i \in 1 .. Len(s) |-> CASE s[i] = "+" -> " " [] s[i] = "%41" -> "A" [] OTHER -> s[i]]

stoi(s) == CHOOSE n \in 0 .. 9 : ToString(n) = s[1]

\* std::string::find and substr around the first separator: without one the key
\* and the value are both the whole of it.
KeyOf(s, separator) == trim(mid(s, 0, indexOf(s, <<separator>>, 0)))
ValueOf(s, separator) == trim(From(s, indexOf(s, <<separator>>, 0) + 1))

\* A map is a sequence of pairs with one pair per key.
Put(map, key, value) ==
    Append(SelectSeq(map, LAMBDA pair : pair[1] # key), <<key, value>>)
Has(map, key) == \E i \in DOMAIN map : map[i][1] = key
Get(map, key) == (CHOOSE i \in DOMAIN map : map[i][1] = key)

processLine(values, line) == Put(values, toLower(KeyOf(line, ":")), ValueOf(line, ":"))

getValue(values, key) == IF Has(values, key) THEN values[Get(values, key)][2] ELSE <<>>

\* Content-Length counts once, when it is first seen.
HeaderLine(o, line) ==
    LET read == [o EXCEPT !.values = processLine(@, line)]
    IN  IF o.contentSize = -1 /\ Has(read.values, <<"content-length">>)
        THEN [read EXCEPT !.contentSize = stoi(getValue(read.values, <<"content-length">>))]
        ELSE read

\* Method, path and protocol; with less the request is a protocol error, the
\* exception ends the loop over the lines, and firstLine is off by then.
extractMethodProtocolAndPath(o, line) ==
    LET parts == split(line, <<" ">>)
        three == Len(parts) >= 3
    IN  [o EXCEPT !.firstLine = FALSE, !.thrown = ~three,
                  !.requestMethod = IF Len(parts) > 0 THEN parts[1] ELSE @,
                  !.requestPath = IF Len(parts) > 1 THEN parts[2] ELSE @]

\* One line, if there is one and the header goes on: the members after it, and
\* what is left in the socket.
LineEnd(bytes) == indexOf(bytes, <<Line>>, 0)
Parse(o, line) ==
    IF o.firstLine THEN extractMethodProtocolAndPath(o, line)
    ELSE IF line = <<>> THEN [o EXCEPT !.headerFinished = TRUE]
    ELSE HeaderLine(o, line)
ReadLine(read) ==
    LET at == LineEnd(read[2])
    IN  IF at = -1 \/ read[1].headerFinished \/ read[1].thrown THEN read
        ELSE <<Parse(read[1], trim(mid(read[2], 0, at))), From(read[2], at + 1)>>

\* The same after each number of lines, until the empty one that ends the header.
LinesRead(o, bytes) ==
    LET read[k \in 0 .. Len(bytes)] == IF k = 0 THEN <<o, bytes>> ELSE ReadLine(read[k - 1])
    IN  read

ReadLines(o, bytes) == LinesRead(o, bytes)[Len(bytes)]

processPOSTParameters(data) ==
    FoldLeft(LAMBDA map, token : Put(map, urlDecode(KeyOf(token, "=")),
                                          urlDecode(ValueOf(token, "="))),
             <<>>, split(data, <<"&">>))

PostsForm(o) == getValue(o.values, <<"content-type">>) = <<"form">>

\* The body grows by what is there, also by what follows it.
Collect(o, bytes) == [o EXCEPT !.data = @ \o bytes, !.contentSize = @ - Len(bytes)]

\* The request is ready when nothing is missing of its body.
CheckReady(o) ==
    IF o.headerFinished /\ o.contentSize <= 0
    THEN [o EXCEPT !.readFinished = TRUE, !.ready = @ + 1,
                   !.postParameter = IF PostsForm(o) THEN processPOSTParameters(o.data) ELSE @]
    ELSE o

ReadBody(o, bytes) ==
    IF o.headerFinished /\ o.contentSize > 0 THEN <<CheckReady(Collect(o, bytes)), <<>>>>
    ELSE <<CheckReady(o), bytes>>

\* One readReady: <<the members after it, what is left in the socket>>.
readReady(o, bytes) ==
    IF o.readFinished THEN <<o, bytes>>
    ELSE LET lines == ReadLines(o, bytes) IN ReadBody(lines[1], lines[2])

Fresh == [firstLine |-> TRUE, headerFinished |-> FALSE, readFinished |-> FALSE,
          contentSize |-> -1, values |-> <<>>, requestMethod |-> <<>>,
          requestPath |-> <<>>, data |-> <<>>, postParameter |-> <<>>,
          ready |-> 0, thrown |-> FALSE]

\* What a request is: a head that is read to its end if it comes in one piece,
\* with the length of the body and the parameters of a form, and what follows it.
IsRequest(request) ==
    LET read == ReadLines(Fresh, request.head)
        head == read[1]
    IN  /\ read[2] = <<>> /\ head.headerFinished /\ ~head.thrown
        /\ head.requestPath = request.path
        /\ head.contentSize \in (IF request.body = <<>> THEN {-1, 0} ELSE {Len(request.body)})
        /\ request.form = IF PostsForm(head) THEN processPOSTParameters(request.body) ELSE <<>>

HttpRequestAssumption ==
    /\ MaxBlocks \in Nat
    /\ \A request \in Requests :
          /\ {request.head, request.body, request.more} \subseteq Seq(STRING)
          /\ request.ok \in BOOLEAN
          /\ request.ok => IsRequest(request)

-----------------------------------------------------------------------------
Init ==
    /\ input \in Requests
    /\ unread = input.head \o (input.body \o input.more)
    /\ arrived = <<>>
    /\ slots = <<>>
    /\ object = Fresh
    /\ output = <<>>

\* A block reaches the socket (external); nothing does once it is closed.
Arrive ==
    /\ output = <<>> /\ Len(slots) < MaxBlocks
    /\ \E size \in 1 .. Len(unread) :
          /\ arrived' = arrived \o SubSeq(unread, 1, size)
          /\ unread' = SubSeq(unread, size + 1, Len(unread))
    /\ slots' = Append(slots, "read")
    /\ UNCHANGED <<input, object, output>>

\* The slot.  A protocol error writes and closes; the exception is caught here,
\* so a slot posted before the close goes on with the lines that are left, and
\* the refused request may still become ready.
ReadReady ==
    /\ slots # <<>>
    /\ LET read == readReady(object, arrived)
       IN  /\ object' = [read[1] EXCEPT !.thrown = FALSE]
           /\ arrived' = read[2]
           /\ output' = IF read[1].thrown THEN <<"Protocol Error!">> ELSE output
    /\ slots' = Tail(slots)
    /\ UNCHANGED <<input, unread>>

\* The program answers the request; the socket is closed and readReady no
\* longer connected.
sendReply ==
    /\ object.ready = 1 /\ "HTTP/1.0" \notin Range(output)
    /\ output' = output \o <<"HTTP/1.0", "Content-Length", "data">>
    /\ slots' = <<>>
    /\ UNCHANGED <<input, unread, arrived, object>>

Next == Arrive \/ ReadReady \/ sendReply

Spec == Init /\ [][Next]_vars
-----------------------------------------------------------------------------
\* However a request is cut into blocks: it becomes ready, once, when all of it
\* has been read and not before, with its own path, body and form (readReady); and
\* when all of it has reached the socket and the slots have run, it is ready.  What
\* follows the body in the same block is taken into the data with it.  A request
\* whose first line was refused gives no promise but the one that it is ready at
\* most once.
CutsDoNotMatter ==
    LET read == Len(arrived) + Len(unread) <= Len(input.more)
        delivered == Len(unread) <= Len(input.more)
    IN  /\ object.ready <= 1
        /\ (object.ready = 1 /\ input.ok) =>
              /\ read
              /\ object.requestPath = input.path
              /\ IsPrefix(input.body, object.data)
              /\ input.more = <<>> => /\ object.data = input.body
                                      /\ object.postParameter = input.form
        /\ (delivered /\ slots = <<>> /\ input.ok) => object.ready = 1
=============================================================================
