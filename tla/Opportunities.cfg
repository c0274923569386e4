\* Four edges; pools of up to three pending transactions, of which two are looked at.
SPECIFICATION Spec
CONSTANTS
    Edges = {e1, e2, e3, e4}
    Profits = {0, 100, 170, 330}
    MinProfit = 100
    GasEstimates = {90, 180}
    Pending = {t1, t2, t3}
    Prices = {1, 3, 6}
    Limit = 2
SYMMETRY Symmetry
INVARIANTS
    TypeOK
    ChoiceIsBest
    OutbidsAllButLimit
