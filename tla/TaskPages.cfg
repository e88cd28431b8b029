\* One walk, three old tasks, two changes.  When it has ended and nothing is
\* left to change, that is the end.
CONSTANTS
    Walkers = {w1}
    Team = team
    Statuses = {"todo", "done"}
    Unset = unset
    Limits = {1, 2}
    Ids = {1, 2, 3, 4, 5}
    Seconds = {1, 2}
    OldIds = {1, 3, 4}
    MaxRev = 2
CHECK_DEADLOCK FALSE
SPECIFICATION Spec
INVARIANTS QuietWalkIsComplete NothingHidden
