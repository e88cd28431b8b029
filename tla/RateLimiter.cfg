\* Two users, two requests at a time, windows of three ticks.
CONSTANTS
    r1 = r1
    r2 = r2
    ann = ann
    bob = bob
    Requests = {r1, r2}
    Users = {ann, bob}
    Nobody = Nobody
    Limit = 2
    Window = 3
    Faults = {"down","lost","retry"}
SPECIFICATION FairSpec
INVARIANT BurstBound
PROPERTIES RefusalIsEarned RefusalIsNotForever
