CONSTANTS
    p1 = p1  p2 = p2  k1 = k1  k2 = k2  w1 = w1  v1 = v1  b1 = b1
    Proc = {p1, p2}
    Boot = Boot
    Key = {k1, k2}
    Keyword = {w1}
    Vector = {v1}
    NoVector = NoVector
    BadVector = BadVector
    Block <- MCBlock
    Encodable <- MCBlock
    Batches <- MCDistinct
    Ops = {"add", "delete", "batch"}
    Bucket = {b1}
    BucketOf <- MCBucketOf
    Torn = Torn
    MaxDeletes = 1
    MaxCrashes = 2
    MaxCloses = 0
SPECIFICATION Spec
SYMMETRY Symmetry
INVARIANTS WriteAhead  
