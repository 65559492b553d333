CONSTANTS
    k1 = k1  k2 = k2  p1 = p1  p2 = p2
    Key = {k1, k2}
    Payload = {p1, p2}
    ZipLen = 3
    BufSize = 4
    Junk = {0, 1, 2, 9}
    MaxRecords = 3
    MaxTorn = 2
SPECIFICATION Spec
INVARIANTS
    BufferedReadExact  OwnAppendsRead RebuildAfterTear
