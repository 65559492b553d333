CONSTANTS
    c1 = c1  c2 = c2  c3 = c3
    Conn = {c1, c2}
    QueueCap = 1
    MaxWorkers = 1
    MaxReq <- MCMaxReq
SPECIFICATION FairSpec
PROPERTY ResponseReceived
CHECK_DEADLOCK FALSE
