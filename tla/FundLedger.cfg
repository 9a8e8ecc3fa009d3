SPECIFICATION Spec
CONSTANTS
    Admin = {a1, a2}
    main = main
    sub = sub
    d1 = d1
    w1 = w1
    p1 = p1
    NoOrder = NoOrder
    NoAccount = NoAccount
    Account <- MCAccount
    Deposit <- MCDeposit
    Withdraw <- MCWithdraw
    App <- MCApp
    AccountOf <- MCAccountOf
    AmountOf <- MCAmountOf
    WalletsOf <- MCWalletsOf
    Adjustment <- MCAdjustment
    Generated = {g1, g2}
    MaxGen = 2
SYMMETRY Symmetry
INVARIANTS
    TypeOK
    StatementReplays
    NoOverdraft
    SuccessMeansCredited
    RejectedMeansRefunded
PROPERTIES
    NoCreditAfterCancel
    RefundOnlyFromPending
    FrozenTakesNoDeposit
    AuditIsFinal
    ImplementsJournal
CHECK_DEADLOCK FALSE
