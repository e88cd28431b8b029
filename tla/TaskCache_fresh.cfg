\* Three requests on one team and one question, the faults that leave every
\* settled change visible; TaskCache_questions has the repeated INCR.
CONSTANTS
    r1 = r1
    r2 = r2
    r3 = r3
    Requests = {r1, r2, r3}
    Teams = {team1}
    Statuses = {}
    Assignees = {}
    Limits = {100}
    Offsets = {0}
    Unset = Unset
    AllText = all
    Faults = {"get", "set", "db", "skip", "crash"}
    MaxRev = 2
    NoList = NoList
SYMMETRY Symmetry
SPECIFICATION Spec
INVARIANT FreshAnswers
INVARIANT CurrentVersionIsFresh
PROPERTY ListingSpec
