----------------------------- MODULE DataLoops -----------------------------
(***************************************************************************)
(* The components that go over their data in loops, without recursion on   *)
(* nested values: the E2000+ receiver, the web socket, the HTTP request    *)
(* and the list.  They do not interact, so a behaviour is one of any of    *)
(* them, and kind says of which.  Variables a component does not have      *)
(* are 0.                                                                  *)
(***************************************************************************)
EXTENDS Integers

CONSTANTS MaxBlocks, MaxLength, Lines, ReadSize, Frames, Requests, Items, MaxNodes

VARIABLES kind, input, unread, arrived, slots, object, output

Serial == INSTANCE E2000Plus
Socket == INSTANCE WebSocket
Http == INSTANCE HttpRequest
Linked == INSTANCE List

ASSUME LoopsAssumption ==
    Serial!E2000PlusAssumption /\ Socket!WebSocketAssumption /\ Http!HttpRequestAssumption

Init ==
    \/ kind = "serial" /\ Serial!Init /\ output = 0
    \/ kind = "socket" /\ Socket!Init
    \/ kind = "http" /\ Http!Init
    \/ kind = "list" /\ Linked!Init /\ unread = 0 /\ arrived = 0 /\ slots = 0 /\ output = 0

SerialStep == kind = "serial" /\ Serial!Next /\ UNCHANGED <<kind, output>>
SocketStep == kind = "socket" /\ Socket!Next /\ UNCHANGED kind
HttpStep == kind = "http" /\ Http!Next /\ UNCHANGED kind
ListStep == kind = "list" /\ Linked!Next /\ UNCHANGED <<kind, unread, arrived, slots, output>>

Next == SerialStep \/ SocketStep \/ HttpStep \/ ListStep

vars == <<kind, input, unread, arrived, slots, object, output>>

Spec == Init /\ [][Next]_vars

-----------------------------------------------------------------------------
\* However a stream is cut into blocks: the E2000+ receiver reports the telegrams,
\* the web socket the frames and the HTTP request itself exactly when their bytes
\* are read, once and in order.
CutsDoNotMatter == /\ kind = "serial" => Serial!CutsDoNotMatter
                   /\ kind = "socket" => Socket!CutsDoNotMatter
                   /\ kind = "http" => Http!CutsDoNotMatter

\* After any calls a list is the sequence its caller has in mind, and linked both
\* ways even where a call has lost count.
ListIsTheSequence == kind = "list" => Linked!ListIsTheSequence /\ Linked!LinksMirror
=============================================================================
