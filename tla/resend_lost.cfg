\* A failure between the resolution of an absent comment and its next attempt.
SPECIFICATION FairSpec
CONSTANTS
    Comment = {c1}
    Text = {t1}
    TextsOf <- AnyText
    HasFiles = {}
    Sender = {s1}
    Reconciler = rec
    Handler = {}
    NoComment = NoComment
    NoText = NoText
    Orphans = 0
    OrphanText = {t1}
    MaxAttempts = 2
    CallAttempts = 1
    Margin = 1
    Skew = 0
    Timely = TRUE
    MaxForeign = 0
    MaxFaults = 1
    c1 = c1
    c2 = c2
    t1 = t1
    t2 = t2
    s1 = s1
    s2 = s2
    h1 = h1
PROPERTIES AbsentIsResent
CHECK_DEADLOCK FALSE
