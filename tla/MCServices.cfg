\* Tournament: three teams and two more to come, one of them over the cap.
\* Fees: two desk payments and two gateway events for one team.
\* Items: three claims on an item, two decisions at once.
\* Hours: eight kinds of row on three weekdays, bookings of up to two hours.
\* Boards: one day of a court, one evening of the clock, two rows.
\* Coaches: two on the roster, two logins, two links at once.
\* Notices: a booking, a message tried twice.
\* Audit: two transactions of two steps.  Upgrades: two runs over three files.
\* Reports: a booking at night and one in the morning, one job, units of 3 h,
\*   charts of one day and of two.
\* The others: two or three of each actor.
CONSTANTS
    Entrants = {i1, i2}
    MaxTeams = 4
    MaxRounds = 3
    Founding = 3
    Recorders = {o1, o2}
    MaxResults = 3
    MaxChanges = 2
    None = None
    Payers = {p1}
    Clerks = {d1, d2}
    Events = {e1, e2}
    Due = 3
    Amounts = {1, 2, 4}
    NoTeam = NoTeam
    Claimants = {ann, bob, cy}
    Staff = {s1, s2}
    Selections = {mon, tue, wed}
    Nothing = Nothing
    Blank = Blank
    MaxLoads = 4
    Courts = {c1, c2}
    Listers = {l1, l2}
    Keepers = {k1, k2}
    MaxNumber = 2
    Ticks = {t1, t2}
    Bookings = {b1, b2}
    NoTick = NoTick
    MaxMails = 2
    Clubs = {north, south}
    NoClub = NoClub
    Calls = {j1, j2, j3}
    Connections = {x1, x2}
    NoConnection = NoConnection
    MaxStatements = 2
    Owners = {olga, omar}
    FirstOwners = {olga}
    Flags = {schedule}
    MaxClicks = 2
    MaxReloads = 2
    DayLength = 8
    HourLength = 2
    WeekLength = 3
    Openings <- WeekRows
    MaxSpan = 2
    Noon = 2
    Cutoff = 1
    DefaultOpen = 1
    DefaultClose = 3
    Dates = {0}
    Intervals <- DayAndNight
    MaxRows = 2
    Dawn = 4
    Horizon = 7
    NotOpen = NotOpen
    Coaches = {hana, ivo}
    Logins = {una, vic}
    Managers = {m1, m2}
    NoLogin = NoLogin
    Reservations = {r1}
    MaxTries = 2
    Operations = {q1, q2}
    Entries = 2
    Runners = {n1, n2}
    LastFile = 3
    Repeatable = {2, 3}
    Visits = {v1, v2}
    StartOf <- NightAndMorning
    NumberOf <- CourtEach
    MemberOf <- Regular
    PriceOf <- CheapAndDear
    Receipts <- PartMethod
    CourtCount = 2
    MemberCount = 2
    Jobs = {g1}
    Types = {"daily_revenue", "cancellation_report"}
    UnitsPerDay = 8
    SixAM = 2
    Ahead = 1
    DaysPerWeek = 2
    DaysPerMonth = 1
    Picked = {8}
    RowCap = 2
    PdfRows = 1
    FirstNow = 16
    LastNow = 17
    Unset = Unset
    Ranges = {1, 2}
    TrendMonths = 2
    LastPeak = 6
    Retired = {2}
    TopPlaces = 1
    ListCap = 2
    JoinedAt <- EarlyAndLate
SPECIFICATION Spec
INVARIANTS
    ServicesTypeOK
    BracketIsSound
    FeesAreSound
    OneOwner
    MisleadingTakesHaste
    StaleCopyNeedsCause
    TwiceNeedsMishap
    EveryStatementSeesItsScope
    LoginsAreSound
    HoursHonoured
    WhatIsToldIsTrue
CHECK_DEADLOCK FALSE
