\* An attempt may last longer than BITRIX_COMMENT_CONFIRM_GRACE_SEC: its call still
\* tries to connect when the reconciler picks the send.
SPECIFICATION Spec
CONSTANTS
    Comment = {c1}
    Text = {t1}
    TextsOf <- AnyText
    HasFiles = {}
    Sender = {s1}
    Reconciler = rec
    Handler = {}
    NoComment = NoComment
    NoText = NoText
    Orphans = 0
    OrphanText = {t1}
    MaxAttempts = 2
    CallAttempts = 1
    Margin = 1
    Skew = 0
    Timely = FALSE
    MaxForeign = 0
    MaxFaults = 0
    c1 = c1
    c2 = c2
    t1 = t1
    t2 = t2
    s1 = s1
    s2 = s2
    h1 = h1
INVARIANTS AtMostOneCopy
CHECK_DEADLOCK FALSE
