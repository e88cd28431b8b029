\* Two teams and four questions share one Redis; nothing is lost.
CONSTANTS
    r1 = r1
    r2 = r2
    r3 = r3
    Requests = {r1, r2}
    Teams = {team1, team2}
    Statuses = {todo}
    Assignees = {}
    Limits = {100}
    Offsets = {0}
    Unset = Unset
    AllText = all
    Faults = {"retry"}
    MaxRev = 1
    NoList = NoList
SYMMETRY Symmetry
VIEW WithoutGhosts
SPECIFICATION Spec
INVARIANTS AnswersMatchQuestion StaleOnlyWhilePending
