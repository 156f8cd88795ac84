\* One comment with images, an older comment of the same account with the same
\* text in the timeline, two senders, the reconciler and a webhook consumer.
SPECIFICATION Spec
CONSTANTS
    Comment = {c1}
    Text = {t1}
    TextsOf <- AnyText
    HasFiles = {c1}
    Sender = {s1, s2}
    Reconciler = rec
    Handler = {h1}
    NoComment = NoComment
    NoText = NoText
    Orphans = 1
    OrphanText = {t1}
    MaxAttempts = 2
    CallAttempts = 1
    Margin = 1
    Skew = 0
    Timely = TRUE
    MaxForeign = 0
    MaxFaults = 1
    c1 = c1
    c2 = c2
    t1 = t1
    t2 = t2
    s1 = s1
    s2 = s2
    h1 = h1
SYMMETRY SenderSymmetry
INVARIANTS TypeOK AtMostOneCopy OwnNeverImported JournalMatchesLink
PROPERTIES RetryOnlyWhenAbsent ImplementsDelivery
CHECK_DEADLOCK FALSE
