------------------------------ MODULE E2000Plus ------------------------------
(* EBE2000Plus: telegrams on a serial line, 0x02, address, command, length,    *)
(* data and a CRC over all but the first byte.  The slot of the serial port    *)
(* takes bytes one by one while there are any.  The line brings whole          *)
(* telegrams, telegrams damaged in their CRC, telegrams longer than the        *)
(* receiver takes and noise between them, cut into blocks of any size.         *)
EXTENDS Integers, SequencesExt, Stream

CONSTANTS MaxLength,  \* E2000_PLUS_MAX_TELEGRAM_LENGTH, 64 in the code
          MaxBlocks,  \* bound: blocks that were announced and not seen yet
          Lines       \* what may come: lists of [what, body]

VARIABLES input, unread, arrived, slots,
          object      \* receiveState, receiveTelegram and the signals emitted

vars == <<input, unread, arrived, slots, object>>

StartByte == 2

\* Noise is not empty and has no start byte; a telegram has at least its
\* address and its command.
LinesAssumption ==
    \A line \in Lines :
        /\ line \in Seq([what : {"telegram", "damaged", "noise"}, body : Seq(Nat)])
        /\ \A i \in 1 .. Len(line) :
              IF line[i].what = "noise"
              THEN line[i].body # <<>> /\ \A j \in 1 .. Len(line[i].body) :
                                             line[i].body[j] # StartByte
              ELSE Len(line[i].body) >= 2

E2000PlusAssumption == MaxLength \in Nat /\ MaxBlocks \in Nat /\ LinesAssumption

\* x with the bit of this weight flipped.
Flip(x, weight) == IF (x \div weight) % 2 = 0 THEN x + weight ELSE x - weight

\* One bit of the register: 0x18 is the polynomial.
Shift(crc, bit) ==
    LET feedback == (crc % 2) # bit
        shifted == ((IF feedback THEN Flip(Flip(crc, 8), 16) ELSE crc) \div 2) % 128
    IN  IF feedback THEN shifted + 128 ELSE shifted

\* The register after every bit, the lowest of a byte first.
crc8(bytes, start) ==
    LET register[k \in 0 .. 8 * Len(bytes)] ==
            IF k = 0 THEN start
            ELSE Shift(register[k - 1],
                       (bytes[(k - 1) \div 8 + 1] \div 2^((k - 1) % 8)) % 2)
    IN  register[8 * Len(bytes)]

calCRC8(bytes) == crc8(bytes, 255)

\* The bytes of a telegram as a device sends them; body is <<address, command>>
\* followed by the data (external).
Wire(item) ==
    LET b == item.body
        covered == <<b[1], b[2], Len(b) - 2>> \o SubSeq(b, 3, Len(b))
        crc == calCRC8(covered)
    IN  CASE item.what = "noise" -> b
          [] item.what = "damaged" -> <<StartByte>> \o (covered \o <<Flip(crc, 1)>>)
          [] OTHER -> <<StartByte>> \o (covered \o <<crc>>)

Wires(items) == Joined([i \in DOMAIN items |-> Wire(items[i])])

-----------------------------------------------------------------------------
Emit(o, signal) == [o EXCEPT !.emitted = Append(@, signal)]

\* A length that leaves the position of the data where it was.
LengthKeepsData(o, d) ==
    LET read == [o EXCEPT !.length = d]
    IN  IF d > MaxLength THEN Emit(read, <<"error">>)
        ELSE [read EXCEPT !.receiveState = IF d > 0 THEN "DATA" ELSE "CRC"]

\* A length beyond the limit is an error, and the next byte is taken for the
\* length again.
Length(o, d) ==
    LET read == [o EXCEPT !.length = d]
    IN  IF d > MaxLength THEN Emit(read, <<"error">>)
        ELSE [read EXCEPT !.data = <<>>, !.receiveState = IF d > 0 THEN "DATA" ELSE "CRC"]

Data(o, d) ==
    [o EXCEPT !.data = Append(@, d),
              !.receiveState = IF Len(o.data) + 1 = o.length THEN "CRC" ELSE @]

Crc(o, d) ==
    LET telegram == <<o.address, o.command>> \o o.data
        good == calCRC8(<<o.address, o.command, o.length>> \o o.data) = d
    IN  Emit([o EXCEPT !.receiveState = "START"],
             IF good THEN <<"telgramReceived", telegram>> ELSE <<"error">>)

\* One byte through the switch of dataReceived.
Byte(o, d) ==
    CASE o.receiveState = "START" ->
            IF d = StartByte THEN [o EXCEPT !.receiveState = "ADDRESS"] ELSE o
      [] o.receiveState = "ADDRESS" -> [o EXCEPT !.address = d, !.receiveState = "COMMAND"]
      [] o.receiveState = "COMMAND" -> [o EXCEPT !.command = d, !.receiveState = "LENGTH"]
      [] o.receiveState = "LENGTH" -> Length(o, d)
      [] o.receiveState = "DATA" -> Data(o, d)
      [] o.receiveState = "CRC" -> Crc(o, d)

-----------------------------------------------------------------------------
Init ==
    /\ input \in Lines
    /\ unread = Wires(input)[Len(input)]
    /\ arrived = <<>>
    /\ slots = <<>>
    /\ object = [receiveState |-> "START", address |-> 0, command |-> 0, length |-> 0,
                 data |-> <<>>, emitted |-> <<>>]

\* The serial port has a block of any size and announces it (SerialPort).
Arrive ==
    /\ Len(slots) < MaxBlocks
    /\ \E size \in 1 .. Len(unread) :
          /\ arrived' = arrived \o SubSeq(unread, 1, size)
          /\ unread' = SubSeq(unread, size + 1, Len(unread))
    /\ slots' = Append(slots, "read")
    /\ UNCHANGED <<input, object>>

\* The receiver after each of these bytes.
Received(o, bytes) ==
    LET received[k \in 0 .. Len(bytes)] ==
            IF k = 0 THEN o ELSE Byte(received[k - 1], bytes[k])
    IN  received

\* The slot: every byte there is, also those of blocks announced later.
dataReceived ==
    /\ slots # <<>>
    /\ object' = Received(object, arrived)[Len(arrived)]
    /\ arrived' = <<>>
    /\ slots' = Tail(slots)
    /\ UNCHANGED <<input, unread>>

Next == Arrive \/ dataReceived

Spec == Init /\ [][Next]_vars
-----------------------------------------------------------------------------
\* A receiver that has met a telegram that is too long does not find the next
\* start byte: the telegrams up to there can be relied on.
Understood ==
    Min({i \in 1 .. Len(input) :
            input[i].what # "noise" /\ Len(input[i].body) - 2 > MaxLength}
        \cup {Len(input) + 1}) - 1

Told(item) ==
    CASE item.what = "noise" -> <<>>
      [] item.what = "damaged" -> <<<<"error">>>>
      [] OTHER -> <<<<"telgramReceived", item.body>>>>

Signals(items) == Joined([i \in DOMAIN items |-> Told(items[i])])

\* However the line is cut into blocks: once the bytes of n telegrams have been
\* taken, each of them and nothing else has been announced, as received when
\* its CRC is right and as an error when not (dataReceived, calCRC8); and no byte
\* is left in the port when the slots have run.
CutsDoNotMatter ==
    LET End(n) == Len(Wires(input)[n])
        taken == End(Len(input)) - Len(arrived) - Len(unread)
    IN  /\ \A n \in 0 .. Understood :
              taken \in End(n) .. (IF n < Understood THEN End(n + 1) - 1 ELSE End(n))
                 => object.emitted = Signals(input)[n]
        /\ slots = <<>> => arrived = <<>>
=============================================================================
