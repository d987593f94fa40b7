----------------------------- MODULE WebSocket -----------------------------
(* EBWebSocket: the socket of an upgraded HTTP request, read frame by frame    *)
(* on its event loop.  The bytes reach the socket in pieces of any size; each   *)
(* piece posts one readReady slot, and the slot reads at most ReadSize bytes of *)
(* whatever is buffered by then.  The members that parse are the record         *)
(* "object"; the opcode, the two forms of the length, the mask and the payload  *)
(* are real bytes.                                                              *)
EXTENDS Integers, SequencesExt, Stream

CONSTANTS ReadSize,   \* the 1024 bytes of one block of the socket and of one read here
          MaxBlocks,  \* bound: slots that were posted and have not run yet
          Frames      \* the lists of frames a client may send

VARIABLES input,      \* the frames the client sends: [opcode, long, payload]
          unread,     \* their bytes that are still on the way
          arrived,    \* bytes in the read buffer of the socket
          slots,      \* posted slots of the socket: "read" and, last, "end"
          object,     \* the members, and the frames it has reported
          output      \* what it wrote to the socket, and its last signal

vars == <<input, unread, arrived, slots, object, output>>

Text == 1
Binary == 2
Close == 8
Key == <<7, 1, 2, 3>>

\* A payload fits into the 1024 bytes of data with the zero behind it, a text
\* has no zero in it, and the short form has 7 bits, of which 126 and 127 are taken.
WellFormed(frame) ==
    /\ Len(frame.payload) < (IF frame.long THEN 1024 ELSE 126)
    /\ frame.opcode = Text => \A i \in 1 .. Len(frame.payload) : frame.payload[i] # 0

FramesAssumption ==
    \A frames \in Frames :
        /\ frames \in Seq([opcode : 0 .. 15, long : BOOLEAN, payload : Seq(0 .. 255)])
        /\ \A i \in 1 .. Len(frames) : WellFormed(frames[i])

WebSocketAssumption == ReadSize \in Nat \ {0} /\ MaxBlocks \in Nat /\ FramesAssumption

\* d ^ mask for two bytes.
Bit(byte, weight) == (byte \div weight) % 2
Xor(a, b) ==
    LET bit(weight) == weight * ((Bit(a, weight) + Bit(b, weight)) % 2)
    IN  bit(1) + bit(2) + bit(4) + bit(8) + bit(16) + bit(32) + bit(64) + bit(128)

\* What a client puts on the wire for a frame: always masked, and with the
\* 16 bit length when it chooses the long form.
FrameHead(frame) ==
    LET size == Len(frame.payload)
    IN  IF frame.long THEN <<128 + frame.opcode, 128 + 126, size \div 256, size % 256>>
        ELSE <<128 + frame.opcode, 128 + size>>
Masked(payload) == [i \in 1 .. Len(payload) |-> Xor(payload[i], Key[((i - 1) % 4) + 1])]
Wire(frame) == FrameHead(frame) \o (Key \o Masked(frame.payload))

Wires(frames) == Joined([i \in DOMAIN frames |-> Wire(frames[i])])

\* What send() writes: never masked.  The frame is put together in 1024 bytes,
\* which a payload of more than 1020 bytes overruns: the 16 bit form of such a
\* payload and the whole 64 bit form are left out.
Sent(opcode, body) ==
    <<128 + opcode>>
    \o (IF Len(body) <= 125 THEN <<Len(body)>>
        ELSE <<126, Len(body) \div 256, Len(body) % 256>>)
    \o body

\* A text is reported as a string of C, up to the first zero in it.
CString(s) ==
    LET zeros == {i \in 1 .. Len(s) : s[i] = 0}
    IN  IF zeros = {} THEN s ELSE SubSeq(s, 1, Min(zeros) - 1)

Report(o) ==
    CASE o.opcode = Text -> Append(o.reported, <<Text, CString(o.data)>>)
      [] o.opcode \in {Binary, Close} -> Append(o.reported, <<o.opcode, o.data>>)
      [] OTHER -> o.reported

\* pos has reached the size: the frame is reported and the next one begins.
checkMessage(o) ==
    IF o.pos < o.payloadSize THEN o
    ELSE [o EXCEPT !.pos = 0, !.readState = "INIT", !.data = <<>>, !.reported = Report(o)]

\* The head of a frame without payload and mask is the whole frame.
HeadRead(o) ==
    LET head == [o EXCEPT !.pos = 0, !.readState = "MASK"]
    IN  IF o.payloadSize = 0 /\ ~o.isMask THEN checkMessage(head) ELSE head

\* A byte of the 16 or 64 bit length is shifted into what payloadSize held.
SizeByte(o, d, bytes) ==
    LET next == [o EXCEPT !.payloadSize = @ * 256 + d, !.pos = @ + 1]
    IN  IF next.pos = bytes THEN HeadRead(next) ELSE next

\* One byte through the switch of tcpReadReady.  The fin bit of the first byte is
\* stored and never read, so each frame of a message in several is reported on its
\* own; it is dropped here, and the peer sends whole messages only.
Byte(o, d) ==
    CASE o.readState = "INIT" ->
            [o EXCEPT !.opcode = d % 16, !.readState = "PAYLOAD"]
      [] o.readState = "PAYLOAD" ->
            LET flagged == [o EXCEPT !.isMask = d >= 128]
            IN  CASE d % 128 = 126 -> [flagged EXCEPT !.readState = "PAYLOAD16"]
                  [] d % 128 = 127 -> [flagged EXCEPT !.readState = "PAYLOAD64"]
                  [] OTHER -> HeadRead([flagged EXCEPT !.payloadSize = d % 128])
      [] o.readState = "PAYLOAD16" -> SizeByte(o, d, 2)
      [] o.readState = "PAYLOAD64" -> SizeByte(o, d, 8)
      [] o.readState = "MASK" ->
            LET masked == [o EXCEPT !.mask[o.pos] = d, !.pos = @ + 1]
                begun == [masked EXCEPT !.pos = 0, !.readState = "DATA"]
            IN  IF masked.pos < 4 THEN masked
                ELSE IF o.payloadSize = 0 THEN checkMessage(begun) ELSE begun
      [] o.readState = "DATA" ->
            checkMessage([o EXCEPT !.pos = @ + 1,
                !.data = Append(@, IF o.isMask THEN Xor(d, o.mask[o.pos % 4]) ELSE d)])

Fresh == [readState |-> "INIT", payloadSize |-> 0, pos |-> 0, opcode |-> 0,
          isMask |-> FALSE, mask |-> [i \in 0 .. 3 |-> 0], data |-> <<>>,
          reported |-> <<>>]

\* The members after each of these bytes.
Received(o, bytes) ==
    LET received[k \in 0 .. Len(bytes)] ==
            IF k = 0 THEN o ELSE Byte(received[k - 1], bytes[k])
    IN  received

-----------------------------------------------------------------------------
Init ==
    /\ input \in Frames
    /\ unread = Wires(input)[Len(input)]
    /\ arrived = <<>>
    /\ slots = <<>>
    /\ object = Fresh
    /\ output = <<>>

\* The socket has ended or is about to.
Ended == "end" \in Range(slots)
         \/ \E k \in 1 .. Len(output) : output[k].what = "disconnected"

\* The constructor takes the socket over from the request, connects to its
\* signals and answers the upgrade; a client sends frames only after that.
Upgrade ==
    /\ output = <<>>
    /\ output' = <<[what |-> "101", bytes |-> <<>>]>>
    /\ UNCHANGED <<input, unread, arrived, slots, object>>

\* A block of the stream reaches the socket (EBTcpSocket, external to this module).
Arrive ==
    /\ output # <<>> /\ ~Ended /\ Len(slots) < MaxBlocks
    /\ \E size \in 1 .. Len(unread) :
          /\ size <= ReadSize
          /\ arrived' = arrived \o SubSeq(unread, 1, size)
          /\ unread' = SubSeq(unread, size + 1, Len(unread))
    /\ slots' = Append(slots, "read")
    /\ UNCHANGED <<input, object, output>>

\* The client ends, perhaps in the middle of a frame.
PeerEnds ==
    /\ output # <<>> /\ ~Ended
    /\ slots' = Append(slots, "end")
    /\ UNCHANGED <<input, unread, arrived, object, output>>

\* What is read at once, and the close frames it has in it.
ReadCount == IF Len(arrived) < ReadSize THEN Len(arrived) ELSE ReadSize
Closes(before, after) ==
    SelectSeq(SubSeq(after.reported, Len(before.reported) + 1, Len(after.reported)),
              LAMBDA f : f[1] = Close)

\* A close frame is echoed and the socket closed: it then reports its own end.
Answer(closes) ==
    /\ output' = output \o [i \in 1 .. Len(closes) |->
                             [what |-> "frame", bytes |-> Sent(Close, closes[i][2])]]
    /\ slots' = IF closes # <<>> /\ "end" \notin Range(slots)
                THEN Append(Tail(slots), "end") ELSE Tail(slots)

\* The readReady slot.
tcpReadReady ==
    /\ slots # <<>> /\ Head(slots) = "read"
    /\ object' = Received(object, SubSeq(arrived, 1, ReadCount))[ReadCount]
    /\ arrived' = SubSeq(arrived, ReadCount + 1, Len(arrived))
    /\ Answer(Closes(object, object'))
    /\ UNCHANGED <<input, unread>>

\* The program sends a frame of its own.
sendFrame ==
    /\ Len(output) = 1 /\ slots = <<>>
    /\ \E size \in {1, 125, 126} :
          output' = Append(output, [what |-> "frame",
                                    bytes |-> Sent(Binary, [i \in 1 .. size |-> 9])])
    /\ UNCHANGED <<input, unread, arrived, slots, object>>

tcpDisconnected ==
    /\ slots # <<>> /\ Head(slots) = "end"
    /\ slots' = <<>>
    /\ output' = Append(output, [what |-> "disconnected", bytes |-> <<>>])
    /\ UNCHANGED <<input, unread, arrived, object>>

Next == Upgrade \/ Arrive \/ PeerEnds \/ tcpReadReady \/ sendFrame \/ tcpDisconnected

Spec == Init /\ [][Next]_vars
-----------------------------------------------------------------------------
\* The 16 bit length is shifted into the size of the frame before: a frame in
\* the long form is understood only behind an empty one.  The frames up to the
\* first that is not are the ones a client can rely on.
Understood ==
    Min({i \in 2 .. Len(input) : input[i].long /\ input[i - 1].payload # <<>>}
        \cup {Len(input) + 1}) - 1

Told(frame) ==
    IF frame.opcode \in {Text, Binary, Close} THEN <<<<frame.opcode, frame.payload>>>> ELSE <<>>

Reports(frames) == Joined([i \in DOMAIN frames |-> Told(frames[i])])

\* However the stream is cut into blocks and the blocks into reads: once the
\* bytes of n frames have been read, exactly the first n frames are reported, in
\* order and with their payload (tcpReadReady, checkMessage); and no byte is left
\* in the socket when the slots have run, though each reads at most ReadSize.
CutsDoNotMatter ==
    LET End(n) == Len(Wires(input)[n])
        read == End(Len(input)) - Len(arrived) - Len(unread)
    IN  /\ \A n \in 0 .. Understood :
              read \in End(n) .. (IF n < Understood THEN End(n + 1) - 1 ELSE End(n))
                 => object.reported = Reports(input)[n]
        /\ slots = <<>> => arrived = <<>>

\* A peer that reads the length as the protocol writes it, in one byte or behind
\* 126 in two, finds the end of every frame where it is (send).
SentFramesEnd ==
    \A k \in 1 .. Len(output) :
        (output[k].what = "frame") =>
            LET b == output[k].bytes
            IN  IF b[2] < 126 THEN Len(b) = 2 + b[2]
                ELSE Len(b) = 4 + 256 * b[3] + b[4]
=============================================================================
