SPECIFICATION FairSpec
CONSTANTS
    a = a
    b = b
    n1 = n1
    n2 = n2
    o1 = o1
    o2 = o2
    Objects = {o1, o2}
    Pointers = {a, b, n1, n2}
    MemberOf <- TwoNodes
    None = None
    Loops = {l1}
    Threads = {l1, t1}
    LetsGoEarly = FALSE
    SelfAssigns = TRUE
    RefersToThis = TRUE
INVARIANTS
    TypeOK
    DeletedOnce
    NoDanglingPointer
    ListsAgree
PROPERTY
    QueuedIsDestroyed
CHECK_DEADLOCK FALSE
