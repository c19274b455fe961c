SPECIFICATION Spec
CONSTANTS
    Customers = {c1}
    Products = {p1}
    CreditLimit <- NoLimit
    OpeningStock <- FewOnShelf
    Baskets <- OneOfSome
    Totals = {2}
    Amounts = {1}
    Overrides = {FALSE}
    MaxInvoices = 2
    MaxMoney = 3
    MaxSurplus = 0
PROPERTY CancelledIsFinal
CHECK_DEADLOCK FALSE
