SPECIFICATION MixedSpec

CONSTANTS
    Seeker = Seeker
    Employer = Employer
    Stranger = Stranger
    first = first
    any1 = any1
    any2 = any2
    confirm = confirm
    Call = {first, any1, any2, confirm}
    TxHash = {t1}
    Hash = Hash
    Null = Null

PROPERTIES
    RejectionIsFinal

CHECK_DEADLOCK FALSE
