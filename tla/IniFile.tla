------------------------------- MODULE IniFile -------------------------------
(* EBIniFile: the constructor reads a file line by line, with canReadLine()    *)
(* and readLine() of EBFile, and keeps every "key=value" with the section it   *)
(* is in.  A file is a sequence of symbols, letters one by one.                *)
EXTENDS Text

CONSTANT Files            \* the contents of files

VARIABLES input,          \* the file
          unread,         \* what is behind the position of the stream
          object,         \* EBIniFile::values
          output          \* currentSection

vars == <<input, unread, object, output>>

\* std::getline succeeds as long as there is a symbol, a line end or not.  (The
\* comment of canReadLine says that it is false of a file without a line end.)
canReadLine(rest) == rest # <<>>

readLine(rest) ==
    IF contains(rest, <<"\n">>) THEN mid(rest, 0, indexOf(rest, <<"\n">>, 0)) ELSE rest

Behind(rest) == From(rest, Len(readLine(rest)) + 1)

Comment(line) == startsWith(line, <<";">>)
Header(line) == startsWith(line, <<"[">>)
Pair(line) == ~Comment(line) /\ ~Header(line) /\ indexOf(line, <<"=">>, 0) # -1

\* The last symbol of a header goes, whatever it is.
Name(header) == mid(header, 1, Len(header) - 2)

\* Key and value are not trimmed where they meet.
KeyOf(line) == mid(line, 0, indexOf(line, <<"=">>, 0))
ValueOf(line) == From(line, indexOf(line, <<"=">>, 0) + 1)

Init == input \in Files /\ unread = input /\ object = <<>> /\ output = <<>>

\* One turn of the loop in the constructor.
ReadLine ==
    LET line == trim(readLine(unread))
    IN  /\ canReadLine(unread)
        /\ unread' = Behind(unread)
        /\ output' = IF Header(line) THEN Name(line) ELSE output
        /\ object' = IF Pair(line)
                     THEN Append(object, [section |-> output, key |-> KeyOf(line),
                                          value |-> ValueOf(line)])
                     ELSE object
        /\ UNCHANGED input

Next == ReadLine

Spec == Init /\ [][Next]_vars

-----------------------------------------------------------------------------
\* getValue() takes the first entry that fits.
getValue(values, section, key) ==
    LET at == SelectInSeq(values, LAMBDA v : v.section = section /\ v.key = key)
    IN  IF at = 0 THEN <<>> ELSE values[at].value

\* getSection() inserts all entries into a map, which keeps the first of a key.
getSection(values, section) ==
    FoldLeft(LAMBDA map, v : IF v.section # section \/ v.key \in DOMAIN map THEN map
                             ELSE [k \in DOMAIN map \cup {v.key} |->
                                      IF k = v.key THEN v.value ELSE map[k]],
             [k \in {} |-> <<>>], values)

\* What a reader of the file expects: a key has the value of its first line
\* behind a header of the section and before the next header.
FileLines == LET parts == split(input, <<"\n">>) IN [i \in DOMAIN parts |-> trim(parts[i])]

SectionAt(i) ==
    LET headers == {j \in 1 .. i : Header(FileLines[j])}
    IN  IF headers = {} THEN <<>>
        ELSE Name(FileLines[CHOOSE j \in headers : \A k \in headers : k <= j])

Expected(section, key) ==
    LET pairs == {i \in DOMAIN FileLines : Pair(FileLines[i]) /\ SectionAt(i) = section
                                       /\ KeyOf(FileLines[i]) = key}
    IN  IF pairs = {} THEN <<>>
        ELSE ValueOf(FileLines[CHOOSE i \in pairs : \A j \in pairs : i <= j])

\* Once a file is read, getValue() and getSection() agree with each other and
\* with the file, however often sections and keys are repeated in it and
\* whether its last line has an end or not (the constructor of EBIniFile).
FileIsUnderstood == unread = <<>> =>
    \A i \in DOMAIN object :
        LET v == object[i]
            map == getSection(object, v.section)
        IN  /\ getValue(object, v.section, v.key) = Expected(v.section, v.key)
            /\ map[v.key] = Expected(v.section, v.key)

\* No line that is a pair is left out, the last one included if it has no end:
\* the comment of EBFile::canReadLine, which would leave that one out, does not
\* say what the code does (canReadLine, readLine).
EntriesComplete == unread = <<>> =>
    \A i \in DOMAIN FileLines : Pair(FileLines[i]) =>
        \E j \in DOMAIN object : /\ object[j].section = SectionAt(i)
                                 /\ object[j].key = KeyOf(FileLines[i])
=============================================================================
