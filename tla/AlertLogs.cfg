CONSTANTS
    Items = {i1}
    Checks = {c1, c2}
    Sends = {s1, s2}
    NoItem = NoItem
    NoLog = NoLog
    MaxFailures = 2
SPECIFICATION Spec
CHECK_DEADLOCK FALSE
INVARIANTS DuplicateLogsExplained MailsExplained SentWasMailed
PROPERTY ConcludedStays
