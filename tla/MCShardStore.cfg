CONSTANTS
    k1 = k1  k2 = k2  k3 = k3  b1 = b1  b2 = b2  p1 = p1  c1 = c1  c2 = c2
    Key = {k1, k2, k3}
    Payload = {p1}
    Bucket = {b1, b2}
    BucketOf <- MCBucketOf
    Caller = {c1, c2}
    MaxRecords <- MCMaxRecords
SPECIFICATION FairSpec
INVARIANTS IndexSound EveryRecordIndexed 
PROPERTIES ArraysStable BatchEnds
