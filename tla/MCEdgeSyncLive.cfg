CONSTANTS
    Orders = {o1, o2}
    Bad = {}
    Malformed = {o2}
    Preps = {"PENDING"}
    NewPrep = "PENDING"
    Slots = {s1, s2}
    MaxSeries = 1
    MaxEntries = 2
    Batch = 2
    NoSlot = NoSlot
SPECIFICATION LiveSpec
PROPERTIES SalesArrive
CHECK_DEADLOCK FALSE
