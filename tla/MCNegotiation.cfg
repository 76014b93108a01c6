SPECIFICATION Spec

CONSTANTS
    s1 = s1
    s2 = s2
    x1 = x1
    x2 = x2
    Session = {s1, s2}
    Request = {x1, x2}
    Target <- OnePerSession
    Direction = {d1}
    NoDirection = NoDirection
    MaxRounds = 3
    KeyUndecodable = {s2}
    MaxFaults = 1

INVARIANTS
    RoundsMatchSession
    VerdictEnds
    CompletionIsTrue

PROPERTIES
    ImplementsProtocol
