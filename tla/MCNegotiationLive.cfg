SPECIFICATION FairSpec

CONSTANTS
    s1 = s1
    s2 = s2
    x1 = x1
    x2 = x2
    Session = {s1}
    Request = {x1, x2}
    Target <- BothForOne
    Direction = {}
    NoDirection = NoDirection
    MaxRounds = 2
    KeyUndecodable = {}
    MaxFaults = 0

INVARIANTS
    AgreementHasAcceptRound

PROPERTIES
    StartedTerminates
    OutcomeAnnounced

CHECK_DEADLOCK FALSE
