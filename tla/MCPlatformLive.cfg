SPECIFICATION LiveSpec

CONSTANTS
    Null = Null
    Call = {1, 2}
    MaxRequests = 2
    MaxAsks = 2
    MaxRestarts = 1
    MaxFaults = 1
    MaxOpens = 2
    MaxRounds = 1
    MaxMessages = 2
    Chat = {"h1"}
    MaxJobs = 2
    Choice = {"r1", "r2"}
    Document = {"d1"}
    Amount = {"a", "b"}
    Default = "a"
    Limits = {1, 2}
    MaxEdits = 2
    Social = {"google", "kakao"}
    Named = {"near"}
    UserRole = {"SEEKER", "EMPLOYER"}
    Tab = {"t1", "t2"}
    MaxTries = 2
    RelayAccount = {"a"}
    RelayRequest = {"r1", "r2", "r3"}
    Window = 2
    RateMax = 2
    MaxTime = 4
    ContractAccount = {"a", "b", "c"}
    Session = {"s"}
    SigningKey = {"k"}
    Summary <- Summaries
    Party = {"s", "e"}
    MaxTalk = 1
    MaxRuns = 3
    MaxPolls = 2
    AgentKey = {"k1", "k2"}
    MaxBalance = 1
    Parts = {"jobs", "sources", "resume", "monitor"}

PROPERTIES
    PublishedIsEmbedded
    DialogSettles
    GenerationEnds
    MonitorSettles

CHECK_DEADLOCK FALSE
