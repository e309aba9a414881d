SPECIFICATION Spec
CONSTANTS
    N = 3
    DueDays = {1, 2}
    FitDays = {2}
    Cash = 6
    OrderQty = 1
    Sheets = {{"buy"}, {"sell"}}
    FillQtys = {2}
    FillPrices = {2}
    ExDates = {2}
    Verdicts = {"killed"}
    MaxUpsets = 2
    Tearing = TRUE
    LastClose = 5
    PreClose = 2
    DividendTax = TRUE
INVARIANTS BooksBalance LedgerMatchesJournals LotsAddUp SoldWasHeldBefore OnlyRecordedFills FitStateKept
PROPERTIES Implements
CHECK_DEADLOCK FALSE
