SPECIFICATION Spec
CONSTANTS
    a = a
    b = b
    n1 = n1
    n2 = n2
    o1 = o1
    o2 = o2
    Objects = {o1, o2}
    Pointers = {a, b, n1, n2}
    MemberOf <- TwoNodes
    None = None
    Loops = {l1, l2}
    Threads = {l1, l2}
    LetsGoEarly = FALSE
    SelfAssigns = FALSE
    RefersToThis = FALSE
INVARIANT
    NoPopFromEmpty
CHECK_DEADLOCK FALSE
