CONSTANTS
    Reqs = {r1, r2}
    Tables <- MCTables
    Orders <- MCOrders
    Outlet <- MCOutlet
    MaxKot = 2
    Units <- MCUnits11
    MaxSources = 1
    Parts <- MCParts
    NoTable = NoTable
    NoOrder = NoOrder
    Free = Free
SYMMETRY ReqSymmetry
SPECIFICATION Spec
INVARIANTS TypeOK OneOpenBillPerTable SplitAccounting EveryUnitBilledOnce BillNumbersGapless CirclesOutOfTurn
PROPERTIES ClosedIsFinal
