SPECIFICATION MCListSpec
CONSTANTS
    Workers = {w1, w2}
    Texts = {t1, t2}
    Times = {1, 2}
    Spellings = {0}
    NoRow = NoRow
    MaxPost = 2
    MaxCat = 1
    MaxComment = 1
    MaxPage = 0
    CacheLimit = 4
    FeedLimit = 1
    Ops = {"post", "cat", "postback", "comment", "clear"}
    ListCats = {0, 1}
    UrlPages = {0, 1}
    Queries = {NoRow, t1}
    PageSize = 1
    ListScenarios = {"blog", "category", "search", "two"}
SYMMETRY ListSymmetry
INVARIANTS ListedPostsCurrent FirstPageFresh CountNeverLow CategoriesFound
