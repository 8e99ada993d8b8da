CONSTANTS
    Callers = {c1, c2}
    Sessions = {s1, s2}
    Limit = 1
    Directions = {d1, d2}
    Deferred = Deferred
    NoSession = NoSession
    c1 = c1
    c2 = c2
    s1 = s1
    s2 = s2
    d1 = d1
    d2 = d2
SPECIFICATION Spec
SYMMETRY Alike
INVARIANT NeverRefused
