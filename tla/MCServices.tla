------------------------------ MODULE MCServices ------------------------------
(* The parts of the system that share no row with one another, each on an    *)
(* instance of its own: a behaviour runs one of them from its initial state. *)
EXTENDS TLC, Tournament, TournamentFees, LostFound, Pages, CourtCache, Reminders,
        TenantPool, StaffPanel, SlotBoards, CoachLogins, Notices,
        AuditTrail, Upgrades, Overview

VARIABLE running   \* the part this behaviour is of

\* Rows of working_hours on a day of eight units: closed, all day to 23:59,
\* within a day, past midnight, 24 hours, and from a late hour.
Day(open, close) == [open |-> open, close |-> close, closed |-> FALSE]
ClosedDay == [open |-> 0, close |-> 0, closed |-> TRUE]
WeekRows  == {ClosedDay, Day(0, 7), Day(2, 6), Day(4, 2), Day(4, 4), Day(5, 7), Day(0, 0), Day(6, 0)}

\* A club open every night, one that never closes, and one open in the day
\* that closes on one weekday.
Nights        == [d \in Weekdays |-> Day(4, 2)]
RoundTheClock == [d \in Weekdays |-> Day(4, 4)]
Mornings      == [d \in Weekdays |-> IF d = 1 THEN ClosedDay ELSE Day(2, 6)]

\* Before noon, over midnight, and after it.
DayAndNight == {[from |-> 2, to |-> 4], [from |-> 6, to |-> 10], [from |-> 8, to |-> 10]}

First(S) == CHOOSE x \in S : TRUE

\* A booking at three in the morning of the club's clock, and the next day's
\* at six, on a court since retired.
NightAndMorning == [v \in Visits |-> IF v = First(Visits) THEN 8 ELSE 17]
CourtEach       == [v \in Visits |-> IF v = First(Visits) THEN 1 ELSE 2]
Regular         == [v \in Visits |-> 1]

\* On one more is collected than it costs, and some of what is on file has no
\* method; the other is owed in full.
CheapAndDear == [v \in Visits |-> IF v = First(Visits) THEN 1 ELSE 3]
PartMethod   == [v \in Visits |-> IF v = First(Visits) THEN {<<3, 2>>} ELSE {}]

\* One customer registered in the first hours of a month of the club, before
\* midnight UTC; the other a month later, at night.
EarlyAndLate == <<7, 15>>

Init ==
    /\ running \in {"tournament", "fees", "items", "pages", "cache", "reminders", "pool", "staff",
                    "hours", "boards", "coaches", "notices", "audit", "upgrades", "reports"}
    /\ TournamentInit /\ FeesInit /\ LostInit
    /\ CacheInit /\ ReminderInit /\ PoolInit /\ StaffInit
    /\ PageInit
    /\ BoardsInit
    /\ LoginsInit
    /\ NoticesInit
    /\ AuditInit /\ (running # "audit" => \A o \in Operations : manner[o] = "strict")
    /\ UpgradesInit /\ (running # "upgrades" => shipped = {})
    /\ ReportsInit /\ (running # "reports" => choice = First(Types))
    /\ running # "coaches" => (\A c \in Coaches : profile[c] = "absent") /\ \A u \in Logins : role[u] = "customer"
    /\ IF running = "boards" THEN hours \in {Nights, Mornings, RoundTheClock} \cap [Weekdays -> Openings] ELSE HoursInit /\ visitor = "member"
    /\ running # "pages" => ~guarded /\ spins /\ chosen = First(Selections)

Club     == <<tournamentVars, feeVars, itemVars, staffVars, loginVars>>
Week     == <<hours, boardVars>>
Office   == <<auditVars, upgradeVars, reportVars>>
Hosted   == <<pageVars, cacheVars, reminderVars, poolVars, noticeVars>>
Platform == <<Hosted, Office>>

Next ==
    /\ UNCHANGED running
    /\ \/ /\ running = "tournament" /\ TournamentNext
          /\ UNCHANGED <<loginVars, feeVars, itemVars, staffVars, Week, Platform>>
       \/ /\ running = "fees" /\ FeesNext
          /\ UNCHANGED <<loginVars, tournamentVars, itemVars, staffVars, Week, Platform>>
       \/ /\ running = "items" /\ LostNext
          /\ UNCHANGED <<loginVars, tournamentVars, feeVars, staffVars, Week, Platform>>
       \/ /\ running = "staff" /\ StaffNext
          /\ UNCHANGED <<loginVars, tournamentVars, feeVars, itemVars, Week, Platform>>
       \/ /\ running = "pages" /\ PageNext
          /\ UNCHANGED <<noticeVars, Office, Club, Week, cacheVars, reminderVars, poolVars>>
       \/ /\ running = "cache" /\ CacheNext
          /\ UNCHANGED <<noticeVars, Office, Club, Week, pageVars, reminderVars, poolVars>>
       \/ /\ running = "reminders" /\ ReminderNext
          /\ UNCHANGED <<noticeVars, Office, Club, Week, pageVars, cacheVars, poolVars>>
       \/ /\ running = "pool" /\ PoolNext
          /\ UNCHANGED <<noticeVars, Office, Club, Week, pageVars, cacheVars, reminderVars>>
       \/ /\ running = "hours" /\ HoursNext
          /\ UNCHANGED <<Club, boardVars, Platform>>
       \/ /\ running = "boards" /\ BoardsNext
          /\ UNCHANGED <<Club, hours, Platform>>
       \/ /\ running = "coaches" /\ LoginsNext
          /\ UNCHANGED <<tournamentVars, feeVars, itemVars, staffVars, Week, Platform>>
       \/ /\ running = "notices" /\ NoticesNext
          /\ UNCHANGED <<Office, Club, Week, pageVars, cacheVars, reminderVars, poolVars>>
       \/ /\ running = "audit" /\ AuditNext
          /\ UNCHANGED <<upgradeVars, reportVars, Club, Week, Hosted>>
       \/ /\ running = "upgrades" /\ UpgradesNext
          /\ UNCHANGED <<auditVars, reportVars, Club, Week, Hosted>>
       \/ /\ running = "reports" /\ ReportsNext
          /\ UNCHANGED <<auditVars, upgradeVars, Club, Week, Hosted>>

Spec == Init /\ [][Next]_<<running, Club, Week, Platform>>

\* The part that runs keeps its types, and the others do not move.
ServicesTypeOK ==
    /\ running = "tournament" => TournamentTypeOK
    /\ running = "fees" => FeesTypeOK
    /\ running = "pages" => PageTypeOK
    /\ running = "cache" => CacheTypeOK
    /\ running = "reminders" => ReminderTypeOK
    /\ running = "pool" => PoolTypeOK
    /\ running = "staff" => StaffTypeOK
    /\ running = "hours" => HoursTypeOK
    /\ running = "boards" => BoardsTypeOK
    /\ running = "coaches" => LoginsTypeOK
    /\ running = "notices" => NoticesTypeOK
    /\ running = "audit" => AuditTypeOK
    /\ running = "upgrades" => UpgradesTypeOK
    /\ running = "reports" => ReportsTypeOK

\* The validator's reading of the week is the plain one, for every week the
\* owner can write (OpeningHours).
HoursHonoured == running = "hours" => HoursAreHonoured

\* What the staff panel shows of every account is what it is, and an account
\* is a coach's only by a link that went through (StaffPanel, CoachLogins).
LoginsAreSound ==
    /\ running = "staff" => SwitchesTellTheTruth
    /\ running = "coaches" => LinksPromote

\* A green slot can be had, the last notice of a booking tells its state, the
\* audit log and schema_migrations what was done, the reports and charts what
\* was booked (SlotBoards, Notices, AuditTrail, Upgrades, ReportJobs, Overview); the
\* figures depend on nothing a job changes.
WhatIsToldIsTrue ==
    /\ running = "boards" => BoardsAreTrue
    /\ running = "notices" => NoticesAreTrue
    /\ running = "audit" => TrailIsTrue
    /\ running = "upgrades" => UpgradesAreSound
    /\ running = "reports" => PapersAreTrue /\ ((\A j \in Jobs : stage[j] = "idle") => ReportsAgree /\ OverviewIsTrue)
=============================================================================
