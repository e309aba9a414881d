SPECIFICATION Spec
CONSTANTS
    N = 3
    DueDays = {1, 2}
    FitDays = {2}
    Cash = 6
    OrderQty = 1
    Sheets = {{"buy"}, {"sell"}}
    FillQtys = {2}
    FillPrices = {2}
    ExDates = {2}
    Verdicts = {"killed"}
    MaxUpsets = 1
    Tearing = FALSE
    LastClose = 3
    PreClose = 2
    DividendTax = FALSE
INVARIANTS AccountIsTheOwners
CHECK_DEADLOCK FALSE
