SPECIFICATION CrewSpec
CONSTANTS
    s1 = s1
    s2 = s2
    k1 = k1
    NoKey = NoKey
    NoSlot = NoSlot
    NoData = NoData
    Slots = {s1}
    KeyedSlots = {s1}
    Keys = {k1}
    Threads = {t1, t2}
    PatchStatuses = {"Approved", "Rejected"}
    Payloads <- UpdateAndSave
    SeedRecords <- OneSeed
    MaxRows = 1
PROPERTY AppliedOnlyWhenApproved
