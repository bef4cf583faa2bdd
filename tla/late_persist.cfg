SPECIFICATION Spec
CONSTANTS
    s1 = s1
    s2 = s2
    s3 = s3
    t1 = t1
    t2 = t2
    t3 = t3
    Shots = {s1, s2, s3}
    Takes = {t1, t2, t3}
    Of <- OfTakes
    Orders <- Fixed
    Actors = {a, b}
    None = None
SYMMETRY Symmetry
INVARIANT CurrentIsApproved
CHECK_DEADLOCK FALSE
