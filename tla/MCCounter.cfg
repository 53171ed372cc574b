CONSTANTS
    Txns = {t1, t2}
    Cards = {1, 2}
    Otps = {1}
    Plans <- MCPlans
    UsageLimit = 1
    FaceValue = 1
    RedeemPoints = 3
    EarnPoints = 1
    MaxPoints = 4
    MaxSales = 3
    Tills = {c1, c2}
    Sessions = {1, 2}
    Expenses = {1}
    MaxMoves = 1
    Intents = {i1}
    Topics = {k1, k2}
    Diners = {q1, q2, q3}
    Staff = {s1, s2}
    CallIds = {1, 2}
    Taps = {a1, a2}
    Guests = {"g"}
    MaxNotices = 1
    Carts = {"c"}
    Displays = {"d"}
    Terminals = {w1, w2}
    Hosts = {h1, h2}
    Bookings = {11, 12}
    Tables = {1, 2}
    Wishes <- MCWishes
    MaxDuration = 2
    LineRates <- MCLineRates
    Prices = {0, 1, 199}
    MaxUnits = 2
    MaxParts = 3
    Discounts = {0, 1, 100, 5000}
    ServiceRules <- MCServiceRules
SYMMETRY HostSymmetry
SPECIFICATION CounterSpec
INVARIANTS CounterTypeOK TendersBalance SettlementsDoNotDeadlock CashSound CollectionsSound  MoneySound
PROPERTIES PayoutsBeforeClose
CHECK_DEADLOCK FALSE
