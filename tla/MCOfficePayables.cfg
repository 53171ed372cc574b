CONSTANTS
    Clerks = {c1, c2}
    Materials = {"onion", "gravy"}
    Stocked = {"onion"}
    Prep <- MCPrep
    Counts = {"s1"}
    Indents = {"i1"}
    ShipFrom = "onion"
    ShipTo = "gravy"
    MaxStockMoves = 1
    Rows = {1, 2}
    Pullers = {"loop", "setup"}
    Devices = {"till"}
    DeviceOf <- MCDeviceOf
    PageSize = 1
    MaxEdits = 1
    MaxRebuilds = 1
    External = {"x"}
    JobAttempts = 2
    Ingests = {d1, d2}
    Actors = {a1, a2}
    StaffMoves = {"READY", "PREPARING"}
    Reports = {"PREPARING", "CANCELLED"}
    MaxToggles = 1
    MaxSyncs = 2
    POs = {"p1"}
    PoLines = {"l1"}
    MaxQty = 2
    MaxTolerance = 1
    SupplierBills = {1}
    BillAmount = 2
    Buyers = {b1, b2}
    SubInvoices = {1, 2}
    Billers = {w1, w2}
    MaxPeriod = 1
    MaxStarts = 2
    ProviderEvents <- MCProviderEvents
    Months = {1, 2}
    Members = {"m"}
    Advances = {1, 2}
    MaxAdvance = 2
    Payers = {y1, y2}
    Filers = {f1, f2}
SPECIFICATION OfficeSpec
INVARIANTS NeverOverSettled
CHECK_DEADLOCK FALSE
