\* Three operations that end, one of them possibly within another.  The bounds of
\* calls and balances stop the bank.
SPECIFICATION BankSpec
CONSTANTS
    WETH = WETH
    DAI = DAI
    Users = {u1, u2}
    Tokens = {WETH, DAI}
    Weth = WETH
    Multiplier <- MCMultiplier
    Capacity = 2
    Amounts <- MCAmounts
    Loans <- MCLoans
    Gifts = {1}
    MaxEnded = 3
    MaxHolds <- MCMaxHolds
    MaxDepth = 2
INVARIANTS
    BankTypeOK
    DepositsAreThere
    TotalsAreSums
    EveryDepositCanBeWithdrawn
PROPERTIES
    ImplementsAtomicBank
CHECK_DEADLOCK FALSE
SYMMETRY MCSymmetry
