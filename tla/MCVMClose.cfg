CONSTANTS
    p1 = p1  p2 = p2  k1 = k1  k2 = k2  w1 = w1  v1 = v1  b1 = b1
    Proc = {p1}
    Boot = Boot
    Key = {k1}
    Keyword = {w1}
    Vector = {v1}
    NoVector = NoVector
    BadVector = BadVector
    Block <- MCBlock
    Encodable <- MCEncodable
    Batches <- MCSingle
    Ops = {"add", "delete", "batch"}
    Bucket = {b1}
    BucketOf <- MCBucketOf
    Torn = Torn
    MaxDeletes = 1
    MaxCrashes = 1
    MaxCloses = 1
SPECIFICATION FairSpec
INVARIANTS IndexesConsistent CleanRestart
PROPERTIES RequestsEnd StartEnds
