\* Two requests, every fault but the repeated INCR: what survives is convergence
\* and answers.
CONSTANTS
    r1 = r1
    r2 = r2
    r3 = r3
    Requests = {r1, r2}
    Teams = {team1}
    Statuses = {}
    Assignees = {}
    Limits = {100}
    Offsets = {0}
    Unset = Unset
    AllText = all
    Faults = {"get", "set", "db", "skip", "crash", "lost", "reset"}
    MaxRev = 2
    NoList = NoList
SPECIFICATION FairSpec
PROPERTIES EventuallyFresh ListsAnswered
