\* Two requests race on one task, while people join its team.
CONSTANTS
    r1 = r1
    r2 = r2
    r3 = r3
    ann = ann
    bob = bob
    team1 = team1
    titleA = titleA
    titleB = titleB
    text = text
    todo = todo
    in_progress = in_progress
    done = done
    bogus = bogus
    Requests = {r1, r2}
    Teams = {team1}
    Users = {ann, bob}
    Tasks = {1}
    Titles = {titleA, titleB}
    Descriptions = {text}
    StatusTexts = {todo, in_progress, done, bogus}
    ValidStatuses = {todo, in_progress, done}
    Todo = todo
    Done = done
    NoOne = NoOne
    Absent = Absent
    NoRow = NoRow
    Inputs <- RacingInputs
    Drafts <- SomeDrafts
    Founders <- AnnOnly
    MaxOpen = 2
    Faults = {"db", "commit"}
    MaxHistory = 2
    MaxTime = 1
SYMMETRY Symmetry
SPECIFICATION Spec
INVARIANT DoneIffCompleted
INVARIANT HistoryMatchesRow
INVARIANT OldValueWasReal
INVARIANT ReplyShowsChanges
INVARIANT PeopleAreMembers
PROPERTY ChangesAreRecorded
