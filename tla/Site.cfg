SPECIFICATION MCSpec
CONSTANTS
    Workers = {w1, w2}
    Texts = {t1, t2}
    Times = {1, 2}
    Spellings = {0, 1}
    NoRow = NoRow
    MaxPost = 2
    MaxCat = 1
    MaxComment = 2
    MaxPage = 1
    CacheLimit = 4
    FeedLimit = 1
    Ops = {"post", "cat", "postback", "comment", "page", "options", "view_post", "view_page",
           "preview_post", "preview_page", "admin", "clear", "restart", "feed_posts",
           "feed_cat", "feed_comments"}
    Scenarios = {"comment_feed", "comment_feed_two", "pages", "sidebar",
                 "sidebar_two", "feeds", "evict"}
SYMMETRY Symmetry
INVARIANTS CommentsFeedFresh PageFresh OptionsFresh SidebarFresh PostFeedsFresh
