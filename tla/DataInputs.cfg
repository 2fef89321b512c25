SPECIFICATION FairCrewSpec
CONSTANTS
    s1 = s1
    s2 = s2
    k1 = k1
    NoKey = NoKey
    NoSlot = NoSlot
    NoData = NoData
    Slots = {s1, s2}
    KeyedSlots = {s1}
    Keys = {k1}
    Threads = {t1, t2}
    PatchStatuses = {"Pending", "Approved", "Rejected"}
    Payloads <- AllPayloads
    SeedRecords <- OneSeed
    MaxRows = 2
INVARIANTS TypeOK ApprovedIsInFlightOrFailed OnePendingUnlessReopened AppliedIsGone SerialAppliesOnce
PROPERTIES ImplementsLifecycle ApprovalSettles
