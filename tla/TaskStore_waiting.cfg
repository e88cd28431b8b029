\* Three requests on two connections and one row; fairness.
CONSTANTS
    r1 = r1
    r2 = r2
    r3 = r3
    ann = ann
    bob = bob
    team1 = team1
    titleA = titleA
    titleB = titleB
    text = text
    todo = todo
    in_progress = in_progress
    done = done
    bogus = bogus
    Requests = {r1, r2, r3}
    Teams = {team1}
    Users = {ann}
    Tasks = {1}
    Titles = {titleA, titleB}
    Descriptions = {text}
    StatusTexts = {todo, in_progress, done, bogus}
    ValidStatuses = {todo, in_progress, done}
    Todo = todo
    Done = done
    NoOne = NoOne
    Absent = Absent
    NoRow = NoRow
    Inputs <- FewInputs
    Drafts <- OneDraft
    Founders <- AnnOnly
    MaxOpen = 2
    Faults = {}
    MaxHistory = 2
    MaxTime = 0
SPECIFICATION FairSpec
PROPERTY EveryRequestAnswered
