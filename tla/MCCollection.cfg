CONSTANTS
    k1 = k1  k2 = k2  w1 = w1  w2 = w2  v1 = v1  v2 = v2
    Key = {k1, k2}
    Keyword = {w1, w2}
    Vector = {v1, v2}
    NoVector = NoVector
    BadVector = BadVector
    Block <- MCBlock
    Batches <- MCBatches
    MaxID = 4
SPECIFICATION Spec
INVARIANTS KeyIndexAgrees KeywordsFound KeyFilterRestricts
 
