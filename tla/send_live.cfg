\* One comment with images and an older comment in the timeline: one sender, the
\* reconciler and a webhook consumer, with an error or a restart anywhere.
SPECIFICATION FairSpec
CONSTANTS
    Comment = {c1}
    Text = {t1}
    TextsOf <- AnyText
    HasFiles = {c1}
    Sender = {s1}
    Reconciler = rec
    Handler = {h1}
    NoComment = NoComment
    NoText = NoText
    Orphans = 1
    OrphanText = {t1}
    MaxAttempts = 2
    CallAttempts = 1
    Margin = 1
    Skew = 0
    Timely = TRUE
    MaxForeign = 0
    MaxFaults = 1
    c1 = c1
    c2 = c2
    t1 = t1
    t2 = t2
    s1 = s1
    s2 = s2
    h1 = h1
PROPERTIES OpenIsSettled DeliveredIsLinked PreviewFinishes ReservedIsImported
CHECK_DEADLOCK FALSE
