\* Three invitations at a time, the thresholds of the code, every fault.
CONSTANTS
    r1 = r1
    r2 = r2
    r3 = r3
    Requests = {r1, r2, r3}
    MaxRequests = 1
    FailureThreshold = 3
    OpenTimeout = 2
    Faults = {"outage", "abandon", "restart"}
SPECIFICATION FairSpec
PROPERTIES TrialsAreSpaced OpensWhenEarned ClosingIsEarned MailerSpec InvitationsAnswered BreakerHeals
