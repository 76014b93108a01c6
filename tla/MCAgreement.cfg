SPECIFICATION MixedSpec

CONSTANTS
    Seeker = Seeker
    Employer = Employer
    Stranger = Stranger
    first = first
    any1 = any1
    any2 = any2
    confirm = confirm
    Call = {first, any1, any2, confirm}
    TxHash = {t1}
    Hash = Hash
    Null = Null

INVARIANTS
    AgreementIsWhole
    AnsweredApprovalKept
    SomeoneGetsTransaction

PROPERTIES
    OnlyConfirmRevives
    EveryCallAnswered

CHECK_DEADLOCK FALSE
