CONSTANTS
    Orders = {o1}
    Bad = {}
    Malformed = {}
    Preps = {"PENDING", "READY"}
    NewPrep = "PENDING"
    Slots = {s1, s2}
    MaxSeries = 1
    MaxEntries = 2
    Batch = 2
    NoSlot = NoSlot
SYMMETRY SlotSymmetry
SPECIFICATION Spec
INVARIANTS KitchenProgressArrives
CHECK_DEADLOCK FALSE
