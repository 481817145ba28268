SPECIFICATION FairSpec
CONSTANTS
    Links = {l1, l2}
    Calls = {c1, c2}
    CacheSize = 2
    Null = Null
    Blank = Blank
    NoCode = NoCode
    Failed = Failed
    p = p
    q = q
    m = m
    Rows <- MCRows
INVARIANTS
   
    CacheIsSound
PROPERTIES
    KeepsPromise
    CallsEnd
