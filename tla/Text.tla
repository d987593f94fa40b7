-------------------------------- MODULE Text --------------------------------
(* EBString, and the helpers of EBUtils on strings.  A string is a sequence of *)
(* symbols, letters or whole words where no operation looks inside a word;     *)
(* positions count from 0 as in the code.                                      *)
EXTENDS Integers, SequencesExt

\* The symbols from position start on, at most length of them unless that is
\* negative.  A negative start counts as a large unsigned one.
mid(s, start, length) ==
    IF start < 0 \/ start >= Len(s) THEN <<>>
    ELSE SubSeq(s, start + 1,
                IF length < 0 \/ start + length > Len(s) THEN Len(s) ELSE start + length)

From(s, start) == mid(s, start, -1)

\* Where sub occurs at or behind startIndex.
Places(s, sub, startIndex) ==
    {i \in startIndex .. Len(s) - Len(sub) : SubSeq(s, i + 1, i + Len(sub)) = sub}

indexOf(s, sub, startIndex) ==
    LET places == Places(s, sub, startIndex)
    IN  IF startIndex >= Len(s) \/ places = {} THEN -1
        ELSE CHOOSE i \in places : \A j \in places : i <= j

lastIndexOf(s, sub, startIndex) ==
    LET places == Places(s, sub, startIndex)
    IN  IF startIndex >= Len(s) \/ places = {} THEN -1
        ELSE CHOOSE i \in places : \A j \in places : j <= i

contains(s, sub) == Places(s, sub, 0) # {}

startsWith(s, sub) == mid(s, 0, Len(sub)) = sub

endsWith(s, sub) == From(s, Len(s) - Len(sub)) = sub

\* The parts between delimiters; a delimiter at the end leaves no empty part.
split(s, delimiter) ==
    LET parts[start \in 0 .. Len(s)] ==
            LET at == indexOf(s, delimiter, start)
            IN  IF start = Len(s) THEN <<>>
                ELSE IF at = -1 THEN <<From(s, start)>>
                ELSE <<mid(s, start, at - start)>> \o parts[at + Len(delimiter)]
    IN  parts[0]

\* The parts joined again, so a match at the end is dropped.
replace(s, find, newString) ==
    LET parts == split(s, find)
    IN  FlattenSeq([i \in 1 .. Len(parts) |->
                        IF i = 1 THEN parts[i] ELSE newString \o parts[i]])

Space == {" ", "\n", "\t"}

\* Both ends without white space; of white space alone nothing is left.
trim(s) ==
    LET solid == {i \in 1 .. Len(s) : s[i] \notin Space}
    IN  IF solid = {} THEN <<>>
        ELSE SubSeq(s, CHOOSE i \in solid : \A j \in solid : i <= j,
                       CHOOSE i \in solid : \A j \in solid : j <= i)

Digit == <<"0", "1", "2", "3", "4", "5", "6", "7", "8", "9">>

\* std::to_string, and strtol: the digits at the front, 0 without any.
Digits(n) ==
    LET digits[k \in 0 .. n] ==
            (IF k < 10 THEN <<>> ELSE digits[k \div 10]) \o <<Digit[(k % 10) + 1]>>
    IN  digits[n]

toInt(s) ==
    LET n == CHOOSE k \in 0 .. Len(s) :
                /\ \A i \in 1 .. k : s[i] \in Range(Digit)
                /\ k < Len(s) => s[k + 1] \notin Range(Digit)
        value[k \in 0 .. n] ==
            IF k = 0 THEN 0
            ELSE 10 * value[k - 1] + IndexFirstSubSeq(<<s[k]>>, Digit) - 1
    IN  value[n]
=============================================================================
