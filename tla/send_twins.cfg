\* Two comments with the same text, sent by two senders and the reconciler.  Webhooks
\* are off, as they are by default (BITRIX_WEBHOOK_ENABLED); twin_resent.cfg has them.
SPECIFICATION Spec
CONSTANTS
    Comment = {c1, c2}
    Text = {t1}
    TextsOf <- AnyText
    HasFiles = {}
    Sender = {s1, s2}
    Reconciler = rec
    Handler = {}
    NoComment = NoComment
    NoText = NoText
    Orphans = 0
    OrphanText = {t1}
    MaxAttempts = 2
    CallAttempts = 1
    Margin = 1
    Skew = 0
    Timely = TRUE
    MaxForeign = 0
    MaxFaults = 1
    c1 = c1
    c2 = c2
    t1 = t1
    t2 = t2
    s1 = s1
    s2 = s2
    h1 = h1
SYMMETRY SenderSymmetry
INVARIANTS NoSurplusCopies LinksApart
CHECK_DEADLOCK FALSE
