\* Two comments with the same text, one sender and a webhook consumer: the reconciler
\* resends what a webhook has linked to the other comment since it read the timeline.
SPECIFICATION Spec
CONSTANTS
    Comment = {c1, c2}
    Text = {t1}
    TextsOf <- AnyText
    HasFiles = {}
    Sender = {s1}
    Reconciler = rec
    Handler = {h1}
    NoComment = NoComment
    NoText = NoText
    Orphans = 0
    OrphanText = {t1}
    MaxAttempts = 2
    CallAttempts = 1
    Margin = 1
    Skew = 0
    Timely = TRUE
    MaxForeign = 0
    MaxFaults = 0
    c1 = c1
    c2 = c2
    t1 = t1
    t2 = t2
    s1 = s1
    s2 = s2
    h1 = h1
INVARIANTS NoSurplusCopies
CHECK_DEADLOCK FALSE
