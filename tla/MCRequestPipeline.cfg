CONSTANTS
    c1 = c1  c2 = c2  c3 = c3
    Conn = {c1, c2, c3}
    QueueCap = 1
    MaxWorkers = 2
    MaxReq <- MCMaxReq
SPECIFICATION FairSpec
INVARIANT AnswersMatch
PROPERTY RequestsHandled
CHECK_DEADLOCK FALSE
