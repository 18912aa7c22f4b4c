CONSTANTS
    Items = {i1}
    Checks = {c1}
    Sends = {s1, s2}
    NoItem = NoItem
    NoLog = NoLog
    MaxFailures = 0
SPECIFICATION Spec
CHECK_DEADLOCK FALSE
PROPERTY SentIsNotMailedAgain
