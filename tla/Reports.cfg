\* Three tasks, two teams, two users, three days in two months, a week of one
\* day, the first of the creators.  The last day is the end.
CONSTANTS
    k1 = k1
    k2 = k2
    k3 = k3
    Users = {1, 2}
    Founder = 1
    Teams = {1, 2}
    Tasks = {k1, k2, k3}
    Null = Null
    MonthOf <- MCMonthOf
    Week = 1
    Top = 1
    Strays <- MCStrays
CHECK_DEADLOCK FALSE
SYMMETRY Symmetry
SPECIFICATION Spec
INVARIANTS StatisticsAreExact TopIsTop
PROPERTIES DoneCountIsExplained NoNewInvalidTask
