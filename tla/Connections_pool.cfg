SPECIFICATION Spec
CONSTANTS
    f1 = f1
    m1 = m1
    c1 = c1
    c2 = c2
    metrics = metrics
    Forms <- MCForms
    Mailers <- MCMailers
    Chats <- MCChats
    Loop = metrics
    SameRow <- MCSameRow
    Size = 2
    MaxConcurrent = 1
    Attempts = 3
    None = None
INVARIANTS TypeOK MailAccounted
PROPERTIES EverybodyServed
CHECK_DEADLOCK FALSE
