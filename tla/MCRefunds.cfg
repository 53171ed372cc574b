CONSTANTS
    Refunds <- MCRefunds
    Workers = {w1}
    Amounts <- MCAmounts
    Keys = {k1, k2}
    Limit = 3
    Captured <- MCCaptured
    NoKey = NoKey
    NoPayment = NoPayment
    NoRefund = NoRefund
SYMMETRY KeySymmetry
SPECIFICATION Spec
INVARIANTS TypeOK AgreesWithProvider OutflowWithinLimit
CHECK_DEADLOCK FALSE
