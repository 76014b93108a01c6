SPECIFICATION Spec

CONSTANTS
    s1 = s1
    s2 = s2
    x1 = x1
    x2 = x2
    Session = {s1}
    Request = {x1}
    Target <- JustOne
    Direction = {d1, d2}
    NoDirection = NoDirection
    MaxRounds = 3
    KeyUndecodable = {}
    MaxFaults = 0

PROPERTIES
    DirectionApplied
