SPECIFICATION MCSpec
CONSTANTS
    Workers = {w1, w2}
    Texts = {t1, t2}
    Times = {1, 2}
    Spellings = {0}
    NoRow = NoRow
    MaxPost = 1
    MaxCat = 1
    MaxComment = 2
    MaxPage = 0
    CacheLimit = 4
    FeedLimit = 1
    Ops = {"post", "cat", "postback", "comment", "view_post"}
    Scenarios = {"tables", "comments", "post_page", "post_edits"}
SYMMETRY Symmetry
INVARIANTS TableInv PublishSync StatusSplitNeedsStaleEdit LinksHaveCategories
           CommentCountExact PostPageFresh
