SPECIFICATION Spec
CONSTANTS
    s1 = s1
    s2 = s2
    u1 = u1
    u2 = u2
    Call = {s1, s2}
    User = {u1, u2}
    MaxPublish = 1
INVARIANTS StopsWhenClientIsGone
CHECK_DEADLOCK FALSE
