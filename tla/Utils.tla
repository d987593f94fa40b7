-------------------------------- MODULE Utils --------------------------------
(* EBUtils: addresses, numbers and bytes as text, and the replacement of text  *)
(* next to that of EBString.  A behaviour is one conversion there and back.    *)
(* Numbers are below 2^31 here.                                                *)
EXTENDS Text

CONSTANTS Addresses,     \* addresses as numbers
          Numbers,       \* numbers
          Widths,        \* widths asked of intToHex()
          Subjects, Searches, Replacements   \* texts

VARIABLES input,         \* what is converted
          object         \* what it is converted to, or <<>> before

vars == <<input, object>>

Byte(ip, n) == (ip \div 256^n) % 256

intToIp(ip) == Digits(Byte(ip, 3)) \o <<".">> \o Digits(Byte(ip, 2)) \o <<".">>
               \o Digits(Byte(ip, 1)) \o <<".">> \o Digits(Byte(ip, 0))

\* Each part is cut to a byte; anything but four parts throws.
ipToInt(ip) ==
    LET list == split(ip, <<".">>)
        Part(i) == toInt(list[i]) % 256
    IN  IF Len(list) # 4 THEN -1
        ELSE Part(1) * 256^3 + Part(2) * 256^2 + Part(3) * 256 + Part(4)

HexDigit == Digit \o <<"a", "b", "c", "d", "e", "f">>

RECURSIVE Hex(_)
Hex(i) == (IF i < 16 THEN <<>> ELSE Hex(i \div 16)) \o <<HexDigit[(i % 16) + 1]>>

\* std::setw fills up on the left and cuts nothing.
intToHex(i, size, prefix) ==
    (IF prefix THEN <<"0", "x">> ELSE <<>>)
    \o [k \in 1 .. size - Len(Hex(i)) |-> "0"] \o Hex(i)

RECURSIVE FromHex(_)
FromHex(s) == IF s = <<>> THEN 0
              ELSE 16 * FromHex(Front(s)) + IndexFirstSubSeq(<<Last(s)>>, HexDigit) - 1

hexToInt(hex) == FromHex(IF startsWith(hex, <<"0", "x">>) THEN From(hex, 2) ELSE hex)

\* Two digits for every byte.
binToHex(data) == FlattenSeq([i \in DOMAIN data |-> intToHex(data[i], 2, FALSE)])

\* From left to right, behind what was put in.
RECURSIVE replaceFrom(_, _, _, _)
replaceFrom(subject, search, replacement, pos) ==
    LET at == indexOf(subject, search, pos)
    IN  IF at = -1 THEN subject
        ELSE replaceFrom(mid(subject, 0, at) \o replacement
                         \o From(subject, at + Len(search)),
                         search, replacement, at + Len(replacement))

replaceString(subject, search, replacement) ==
    replaceFrom(subject, search, replacement, 0)

-----------------------------------------------------------------------------
Init == /\ object = <<>>
        /\ \/ input \in [what : {"ip"}, number : Addresses]
           \/ input \in [what : {"hex"}, number : Numbers, width : Widths, prefix : BOOLEAN]
           \/ input \in [what : {"text"}, subject : Subjects, search : Searches,
                          replacement : Replacements]

Convert ==
    /\ object = <<>>
    /\ object' = CASE input.what = "ip" -> intToIp(input.number)
                   [] input.what = "hex" -> intToHex(input.number, input.width, input.prefix)
                   [] input.what = "text" ->
                         replaceString(input.subject, input.search, input.replacement)
    /\ UNCHANGED input

Next == Convert

Spec == Init /\ [][Next]_vars

-----------------------------------------------------------------------------
\* An address or a number that is printed is read back as what it was, at
\* every width and with a prefix or without, and a byte has two digits.
RoundTrip == object # <<>> =>
    /\ input.what = "ip" => ipToInt(object) = input.number
    /\ input.what = "hex" => /\ hexToInt(object) = input.number
                            /\ LET bytes == [i \in 1 .. 4 |-> Byte(input.number, 4 - i)]
                               IN  hexToInt(binToHex(bytes)) = input.number

\* replaceString() and EBString::replace() agree, but for a match at the end
\* of the text, where the one of EBString puts nothing in.
ReplacementsAgree == object # <<>> /\ input.what = "text" =>
    LET other == replace(input.subject, input.search, input.replacement)
    IN  \/ object = other
        \/ endsWith(input.subject, input.search) /\ object = other \o input.replacement
=============================================================================
