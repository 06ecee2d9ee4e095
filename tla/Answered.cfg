SPECIFICATION MCFairSpec
CONSTANTS
    Workers = {w1, w2}
    Texts = {t1}
    Times = {1}
    Spellings = {0}
    NoRow = NoRow
    MaxPost = 1
    MaxCat = 1
    MaxComment = 0
    MaxPage = 0
    CacheLimit = 20
    FeedLimit = 1
    Ops = {"post", "cat"}
    Scenarios = {"tables"}
PROPERTIES Answered
