\* A comment that is sent and updated in two versions of its text, while somebody
\* else comments on the deal with the same texts: one sender, the reconciler and a
\* webhook consumer.
SPECIFICATION Spec
CONSTANTS
    Comment = {c1}
    Text = {t1, t2}
    TextsOf <- AnyText
    HasFiles = {c1}
    Sender = {s1}
    Reconciler = rec
    Handler = {h1}
    NoComment = NoComment
    NoText = NoText
    Orphans = 0
    OrphanText = {t1}
    MaxAttempts = 2
    CallAttempts = 2
    Margin = 1
    Skew = 0
    Timely = TRUE
    MaxForeign = 1
    MaxFaults = 0
    c1 = c1
    c2 = c2
    t1 = t1
    t2 = t2
    s1 = s1
    s2 = s2
    h1 = h1
INVARIANTS OwnNeverImported
PROPERTIES ImplementsDelivery
CHECK_DEADLOCK FALSE
