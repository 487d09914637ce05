\* Bookings: two of a clerk's, an owner's and the customer's screens of one.
\* Access: two accounts, two tabs of one browser.
\* Consoles: ten pages, two changes or choices each.
\* Accounts: an address, a club there and one to come, two registrations.
\* Settings: two owners, an edit.
\* Lists: three rows of which a subscription made two, pages of two, three
\* loads and one change of the table.
CONSTANTS
    Bookings = {b1}
    Weekly = {}
    RefundIds = {r1}
    Events = {e1}
    Price = 2
    DepositPercent = 50
    Amounts = {1}
    Quotes <- DeskQuotes
    Clerks = {carl}
    Owners = {olga}
    Customers = {cleo}
    MaxOpen = 2
    NoRefund = NoRefund
    People = {mia, sam}
    Tabs = {t1, t2}
    Grants <- FlagSets
    Nobody = Nobody
    MaxVersions = 2
    Unread = Unread
    Stray = Stray
    Editors = {ed1, ed2}
    MaxEdits = 1
    Invented = Invented
    Workspaces = {cairo, giza}
    Founded = {cairo}
    Applicants = {a1, a2}
    Visitors = {v1}
    Passwords = {w1, w2}
    Vacant = Vacant
    Nowhere = Nowhere
    FirstRows = 3
    Subscribed = {1, 2}
    MaxEntries = 4
    PageSize = 2
    Filters = {"all", "paid"}
    Finds <- OneTerm
    MaxAsks = 3
    MaxUnderWay = 2
    MaxRowEdits = 1
SPECIFICATION BrowserSpec
INVARIANTS
    BrowserTypeOK
    FreshFormsAreTrue
    PagesKeepTheirWord
CHECK_DEADLOCK FALSE
