CONSTANTS
    Orders = {o1, o2}
    Bad = {o2}
    Malformed = {}
    Preps = {"PENDING"}
    NewPrep = "PENDING"
    Slots = {s1, s2}
    MaxSeries = 2
    MaxEntries = 2
    Batch = 2
    NoSlot = NoSlot
SYMMETRY SlotSymmetry
SPECIFICATION Spec
INVARIANTS TypeOK SaleNeverLost SoldOnce SyncedIsStored SeriesGapless FiledAsPrinted
CHECK_DEADLOCK FALSE
