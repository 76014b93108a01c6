SPECIFICATION ScriptedSpec

CONSTANTS
    Seeker = Seeker
    Employer = Employer
    Stranger = Stranger
    approve1 = approve1
    approve2 = approve2
    confirm = confirm
    reject1 = reject1
    reject2 = reject2
    t1 = t1
    Call = {approve1, approve2, confirm, reject1, reject2}
    TxHash = {t1}
    Hash = Hash
    Null = Null

INVARIANTS
    RecordedIsApproved

CHECK_DEADLOCK FALSE
