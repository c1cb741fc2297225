SPECIFICATION Spec
CONSTANTS
    RowCount = 2
    RowsPerPage = 1
    MaxPage = 3
    MaxAddress = 3
    MaxLate = 1
    Products = {p1}
    Slugs = {s1}
    ListPrice = 1
    PagePrice = 3
    FreeAbove = 4
    Freight = 2
    Stock = 2
    ListPages = 2
    MaxPieces = 2
INVARIANTS ListsAgree PageShowsRows SingleDefault AddressesKept ReportSettles LinesHavePieces
PROPERTY AdminPagesNeedLogin
