SPECIFICATION FairSpec
CONSTANTS
    a = a
    b = b
    c = c
    d = d
    fresh = fresh
    used = used
    Key <- MCKey
    Value = {fresh, used}
    Capacity = 4
    Limit = 3
    Absent = Absent
    Homes <- MCHomes
    Protected <- MCProtected
INVARIANTS RobinHood
PROPERTIES ImplementsMap CallsReturn
