CONSTANTS
    Refunds <- MCOneRefund
    Workers = {w1, w2}
    Amounts <- MCAmounts1
    Keys = {NoKey}
    Limit = 1
    Captured <- MCCaptured1
    NoKey = NoKey
    NoPayment = NoPayment
    NoRefund = NoRefund
SPECIFICATION LiveSpec
PROPERTIES RefundsResolve
CHECK_DEADLOCK FALSE
