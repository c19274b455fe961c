SPECIFICATION ConcurrentSpec
CONSTANTS
    Customers = {c1}
    Products = {p1}
    CreditLimit <- NoLimit
    OpeningStock <- FewOnShelf
    Baskets <- One
    Totals = {2}
    Amounts = {1}
    Overrides = {FALSE}
    MaxInvoices = 1
    MaxMoney = 2
    MaxSurplus = 2
    Requests = {r1, r2}
    Operations = {"create", "cancel"}
    OneAtATime = FALSE
SYMMETRY ClientSymmetry
INVARIANT StockConserved
CHECK_DEADLOCK FALSE
