SPECIFICATION ConcurrentSpec
CONSTANTS
    Customers = {c1, c2}
    Products = {p1}
    CreditLimit <- LimitOfOne
    OpeningStock <- FewOnShelf
    Baskets <- One
    Totals = {1}
    Amounts = {1}
    Overrides = {FALSE}
    MaxInvoices = 2
    MaxMoney = 2
    MaxSurplus = 0
    Requests = {r1, r2}
    Operations = {"create", "confirm", "proforma", "convert", "update", "cancel", "reverse", "pay", "credit"}
    OneAtATime = TRUE
SYMMETRY ClientSymmetry
INVARIANTS ConcurrentTypeOK StockConserved PaidWasReceived CreditExposure
PROPERTY ImplementsBilling
CHECK_DEADLOCK FALSE
