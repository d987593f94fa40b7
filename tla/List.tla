-------------------------------- MODULE List --------------------------------
(* EBList: nodes linked both ways, the first and the last of them, a cursor    *)
(* and a counted size.  A behaviour is a sequence of calls; "input" is the     *)
(* sequence a caller has in mind.                                              *)
EXTENDS Integers, SequencesExt

CONSTANTS Items,      \* the values in a list
          MaxNodes    \* bound: how many nodes are created

VARIABLES input,      \* [items, exact]: exact until a call that loses count
          object      \* the members, and the nodes: value, next and previous

vars == <<input, object>>

Null == 0
Thrown == -2

Node(o, n) == o.nodes[n]
Create(o, item) ==
    [o EXCEPT !.nodes = Append(@, [value |-> item, next |-> Null, previous |-> Null])]
SetNext(o, n, next) == IF n = Null THEN o ELSE [o EXCEPT !.nodes[n].next = next]
SetPrevious(o, n, previous) ==
    IF n = Null THEN o ELSE [o EXCEPT !.nodes[n].previous = previous]

\* The cursor after each number of steps from the front: Null behind the last
\* node, Thrown when a step was asked of Null.
Walk(o) ==
    LET current[k \in Nat] ==
            IF k = 0 THEN o.front
            ELSE IF current[k - 1] \in {Null, Thrown} THEN Thrown
            ELSE Node(o, current[k - 1]).next
    IN  current

setCursor(o, index) == Walk(o)[index]

\* The nodes an iteration visits (one visit more than there are nodes is one of
\* an iteration that does not end).
Nodes(o) ==
    [i \in {j \in 1 .. Len(o.nodes) + 1 : setCursor(o, j - 1) \notin {Null, Thrown}}
        |-> setCursor(o, i - 1)]
Values(o) == [i \in DOMAIN Nodes(o) |-> Node(o, Nodes(o)[i]).value]

\* The place of the first of several, 0 when there is none.
Place(values, item) == SelectInSeq(values, LAMBDA v : v = item)

indexOf(o, item) == Place(Values(o), item) - 1

append(o, item) ==
    LET made == Create([o EXCEPT !.size = @ + 1], item)
        lit == Len(made.nodes)
        linked == IF o.front = Null THEN [made EXCEPT !.front = lit]
                  ELSE SetPrevious(SetNext(made, o.end, lit), lit, o.end)
    IN  [linked EXCEPT !.end = lit, !.current = lit]

\* Behind the last node the new one is linked but not counted.
insertAt(o, index, item) ==
    LET made == Create(o, item)
        lit == Len(made.nodes)
        at == setCursor(o, index)
        previous == Node(o, at).previous
        behind == SetPrevious(SetNext(made, o.end, lit), lit, o.end)
        between == SetPrevious(SetNext(SetNext(SetPrevious(made, lit, previous), previous, lit),
                                       lit, at), at, lit)
    IN  IF at = Null THEN [behind EXCEPT !.current = lit, !.end = lit]
        ELSE [between EXCEPT !.front = IF at = o.front THEN lit ELSE @,
                             !.current = lit, !.size = @ + 1]

Unlink(o, n) ==
    LET next == Node(o, n).next
        previous == Node(o, n).previous
    IN  [SetNext(SetPrevious(o, next, previous), previous, next)
         EXCEPT !.front = IF previous = Null THEN next ELSE @,
                !.size = @ - 1]

\* The first node with the item is unlinked; _end may stay on it.
remove(o, item) ==
    IF indexOf(o, item) = -1 THEN o ELSE Unlink(o, Nodes(o)[indexOf(o, item) + 1])

\* A removal that leaves _end on the node.
removeAtKeepsEnd(o, index) ==
    LET n == setCursor(o, index)
    IN  [Unlink(o, n) EXCEPT !.front = IF n = o.front THEN Node(o, n).next ELSE o.front,
                             !.current = Node(o, n).next]

removeAt(o, index) ==
    LET n == setCursor(o, index)
    IN  [Unlink(o, n) EXCEPT !.front = IF n = o.front THEN Node(o, n).next ELSE o.front,
                             !.end = IF n = o.end THEN Node(o, n).previous ELSE @,
                             !.current = Node(o, n).next]

\* While size is not 0 the first is removed; without one, removeAt() throws.
clear(o) ==
    LET cleared[k \in 0 .. Len(o.nodes)] ==
            IF k = 0 THEN o
            ELSE LET left == cleared[k - 1]
                 IN  IF left.size = 0 THEN left
                     ELSE IF left.front = Null THEN [left EXCEPT !.current = Null]
                     ELSE removeAt(left, 0)
    IN  cleared[Len(o.nodes)]

Empty == [front |-> Null, end |-> Null, current |-> Null, size |-> 0, nodes |-> <<>>]

\* The copy constructor appends what an iteration of the other visits.
Copy(o) ==
    LET copied[k \in 0 .. Len(Values(o))] ==
            IF k = 0 THEN Empty ELSE append(copied[k - 1], Values(o)[k])
    IN  copied[Len(Values(o))]

-----------------------------------------------------------------------------
Init == /\ input = [items |-> <<>>, exact |-> TRUE]
        /\ object = Empty

Becomes(o, items, exact) ==
    /\ object' = o
    /\ input' = IF input.exact /\ exact THEN [items |-> items, exact |-> TRUE]
                ELSE [items |-> <<>>, exact |-> FALSE]

\* The cursor ran off the end: the call throws and changes nothing else.
Throws == Becomes([object EXCEPT !.current = Null], input.items, TRUE)

AppendItem ==
    /\ Len(object.nodes) < MaxNodes
    /\ \E item \in Items : Becomes(append(object, item), Append(input.items, item), TRUE)

\* An index up to the counted size; on an empty list, and where fewer nodes are
\* linked than counted, the call throws.
Insert ==
    /\ Len(object.nodes) < MaxNodes
    /\ \E item \in Items, index \in 0 .. object.size :
          LET at == setCursor(object, index)
          IN  IF at = Thrown \/ (at = Null /\ object.end = Null) THEN Throws
              ELSE Becomes(insertAt(object, index, item),
                           InsertAt(input.items, 1 + IF index > Len(input.items)
                                                     THEN Len(input.items) ELSE index, item),
                           at # Null)

RemoveItem ==
    \E item \in Items :
        LET at == Place(input.items, item)
        IN  Becomes(remove(object, item),
                    IF at = 0 THEN input.items ELSE RemoveAt(input.items, at),
                    at < Len(input.items) \/ at \in {0, 1})

RemoveIndex ==
    \E index \in 0 .. Len(Values(object)) :
        IF setCursor(object, index) \in {Null, Thrown} THEN Throws
        ELSE Becomes(removeAt(object, index),
                     IF index < Len(input.items) THEN RemoveAt(input.items, index + 1)
                     ELSE input.items, TRUE)

\* (A list that counts fewer nodes than it links keeps the rest; one that counts
\* more throws.)
Clear == Becomes(clear(object), <<>>, TRUE)

\* get() leaves the cursor on the item.
Get ==
    \E index \in 0 .. Len(Values(object)) :
        IF setCursor(object, index) \in {Null, Thrown} THEN Throws
        ELSE Becomes([object EXCEPT !.current = setCursor(object, index)], input.items, TRUE)

\* The caller goes on with a copy.
TakeCopy == Becomes(Copy(object), input.items, TRUE)

Next == AppendItem \/ Insert \/ RemoveItem \/ RemoveIndex \/ Clear \/ Get \/ TakeCopy

Spec == Init /\ [][Next]_vars
-----------------------------------------------------------------------------
\* The list is the sequence its caller has in mind, counted and iterated in
\* both directions, until insertAt() behind the last item (not counted) or
\* remove() of the last of several (_end stays on it) has been called.
ListIsTheSequence ==
    input.exact =>
        /\ Values(object) = input.items
        /\ object.size = Len(input.items)
        /\ \A item \in Items : indexOf(object, item) + 1 = Place(input.items, item)
        /\ input.items # <<>> => object.end = Last(Nodes(object))

\* Whatever has been called, two nodes that are linked forward are linked
\* backward, and an iteration meets no node twice.
LinksMirror ==
    LET nodes == Nodes(object)
    IN  /\ \A i \in 1 .. Len(nodes) - 1 : Node(object, nodes[i + 1]).previous = nodes[i]
        /\ nodes # <<>> => Node(object, nodes[1]).previous = Null
        /\ IsInjective(nodes)
=============================================================================
