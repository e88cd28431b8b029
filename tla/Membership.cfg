\* Three requests at a time, three accounts, one team, every fault.
CONSTANTS
    r1 = r1
    r2 = r2
    r3 = r3
    u1 = u1
    u2 = u2
    u3 = u3
    e1 = e1
    e2 = e2
    e3 = e3
    t1 = t1
    t2 = t2
    Requests = {r1, r2, r3}
    Users = {u1, u2, u3}
    Emails = {e1, e2, e3}
    Teams = {t1}
    NoRow = NoRow
    Faults = {"db", "unknown", "mail", "crash"}
SPECIFICATION Spec
SYMMETRY Symmetry
INVARIANTS SoleOwner InvitedOnce OnlyTheCreatorInvites RepliesAreTrue
PROPERTY RolesNeverChange
