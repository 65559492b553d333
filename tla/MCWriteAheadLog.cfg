CONSTANTS
    e1 = e1  e2 = e2  e3 = e3
    Entry = {e1, e2, e3}
    Calls <- MCCalls
    Torn = Torn
    MaxEntries = 4
    MaxStreams = 3
SPECIFICATION Spec
INVARIANT OldestStreamReplayed
CHECK_DEADLOCK FALSE
