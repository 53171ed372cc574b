CONSTANTS
    Reqs = {r1, r2}
    Tables <- MCTables2
    Orders <- MCOrders3
    Outlet <- MCOutlet
    MaxKot = 1
    Units <- MCUnits2
    MaxSources = 1
    Parts <- MCParts
    NoTable = NoTable
    NoOrder = NoOrder
    Free = Free
SYMMETRY ReqSymmetry
SPECIFICATION Spec
INVARIANTS MovesSound
