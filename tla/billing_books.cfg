SPECIFICATION Spec
CONSTANTS
    Customers = {c1}
    Products = {p1}
    CreditLimit <- LimitOfTwo
    OpeningStock <- FewOnShelf
    Baskets <- OneOrTwo
    Totals = {0, 2}
    Amounts = {1, 2}
    Overrides = {FALSE, TRUE}
    MaxInvoices = 2
    MaxMoney = 3
    MaxSurplus = 0
INVARIANTS TypeOK PaidMatchesStatus PaidWasReceived StockConserved KhataBalance
PROPERTIES OldestFirst AdvanceOnlyWhenSettled
CHECK_DEADLOCK FALSE
