CONSTANTS
    Reqs = {r1, r2}
    Tables <- MCTables2
    Orders <- MCOrders2
    Outlet <- MCOutlet
    MaxKot = 2
    Units <- MCUnits11
    MaxSources = 1
    Parts <- MCParts
    NoTable = NoTable
    NoOrder = NoOrder
    Free = Free
SYMMETRY ReqSymmetry
SPECIFICATION Spec
INVARIANTS NeverInCircles
