-------------------------------- MODULE MCBlog --------------------------------
(***************************************************************************)
(* Small instances of Blog for TLC.  One run is the sum of several small   *)
(* instances: the scenario, chosen at the start, says which requests       *)
(* arrive, how many are served at once and how much there is of            *)
(* everything, so that each case of interest happens without the product   *)
(* of all of them.                                                         *)
(***************************************************************************)
EXTENDS BlogInv, TLC

CONSTANT Scenarios   \* the scenarios of this run

VARIABLE scenario

(* readers: how many requests render at a time, beside one that writes. *)
Nothing == [ops |-> {}, workers |-> 2, readers |-> 1, texts |-> 1, times |-> 1,
            zeros |-> 0, posts |-> 0, cats |-> 0, comments |-> 0, pages |-> 0]
Instance ==
    [tables |->      \* two administrators, one post, one category
        [Nothing EXCEPT !.ops = {"post", "cat"}, !.times = 2, !.posts = 1, !.cats = 1],
     comments |->    \* two comments come and go, the post with them
        [Nothing EXCEPT !.ops = {"post", "postback", "comment"}, !.posts = 1, !.comments = 2],
     comment_feed |-> \* the feed of the comments of two posts, one request at a time
        [Nothing EXCEPT !.ops = {"post", "postback", "comment", "feed_comments"},
                        !.workers = 1, !.texts = 2, !.posts = 2, !.comments = 2],
     comment_feed_two |-> \* the same with two workers and one comment
        [Nothing EXCEPT !.ops = {"post", "postback", "comment", "feed_comments"},
                        !.posts = 1, !.comments = 1],
     post_page |->   \* the page of a post that is commented on and moderated
        [Nothing EXCEPT !.ops = {"post", "postback", "comment", "view_post"},
                        !.posts = 1, !.comments = 1],
     post_edits |->  \* the page of a post that is changed, with two texts
        [Nothing EXCEPT !.ops = {"post", "view_post"}, !.texts = 2, !.posts = 1],
     pages |->       \* a page and the options, the cache emptied, restarts
        [Nothing EXCEPT !.ops = {"page", "options", "view_page", "clear", "restart"},
                        !.texts = 2, !.pages = 1],
     sidebar |->     \* everything the sidebar shows, one request at a time
        [Nothing EXCEPT !.ops = {"post", "cat", "page", "view_page", "preview_post",
                                 "preview_page", "admin"},
                        !.workers = 1, !.posts = 2, !.cats = 1, !.pages = 1],
     sidebar_two |-> \* its data and its frame cached by different requests
        [Nothing EXCEPT !.ops = {"cat", "page", "view_page"}, !.readers = 2, !.cats = 1, !.pages = 1],
     feeds |->       \* two posts, dates in either order, ids with a leading zero
        [Nothing EXCEPT !.ops = {"post", "cat", "feed_posts", "feed_cat"}, !.workers = 1,
                        !.times = 2, !.zeros = 1, !.posts = 2, !.cats = 1],
     evict |->       \* more kinds of entries than the cache holds
        [Nothing EXCEPT !.ops = {"post", "cat", "page", "view_post", "view_page", "feed_cat"},
                        !.workers = 1, !.texts = 2, !.posts = 1, !.cats = 1, !.pages = 1]]

On(o) == o \in Instance[scenario].ops
Asked(w) ==
    \/ On("post") /\ PostStart(w)
    \/ On("postback") /\ Postback(w)
    \/ On("comment") /\ CommentStart(w)
    \/ On("cat") /\ (CatAdd(w) \/ CatRename(w) \/ CatRemove(w))
    \/ On("page") /\ (PageInsert(w) \/ PageIsOpen(w))
    \/ On("options") /\ OptionsExec(w)
    \/ On("admin") /\ AdminForm(w)
    \/ On("clear") /\ (ClearCache(w) \/ NewLanguage(w))
    \/ On("view_post") /\ DisplayPost(w)
    \/ On("view_page") /\ DisplayPage(w)
    \/ On("preview_post") /\ Preview(w)
    \/ On("feed_comments") /\ FeedComments(w)
    \/ On("feed_posts") /\ FeedPosts(w)
    \/ On("feed_cat") /\ FeedCat(w)

(* What is in use stays within the scenario. *)
Row(table) == {table[x] : x \in DOMAIN table} \ {NoRow}
TextsUsed == {options} \cup Row(cats) \cup ({req[w].text : w \in Workers} \ {NoRow})
               \cup {r.text : r \in Row(posts) \cup Row(comments) \cup Row(pages)}
Within ==
    LET s == Instance[scenario]
        busy == {w \in Workers : req[w].op # "idle"}
    IN /\ Cardinality(busy) <= s.workers
       /\ Cardinality({w \in busy : req[w].op \in ReaderOps}) <= s.readers
       /\ \A w \in busy : /\ req[w].now <= s.times /\ req[w].zeros <= s.zeros
                         /\ req[w].post <= s.posts
       /\ Cardinality(TextsUsed) <= s.texts
       /\ nextId.post <= s.posts + 1 /\ nextId.comment <= s.comments + 1
       /\ nextId.cat <= s.cats + 1 /\ nextId.page <= s.pages + 1

(* Ids are exhausted by the scenario as they are by MaxPost and MaxComment. *)
Exhausted(w) ==
    /\ \/ At(w, "insert", "exec") /\ nextId.post > Instance[scenario].posts
       \/ /\ At(w, "send", "exec") /\ PostFree(w, req[w].post)
          /\ nextId.comment > Instance[scenario].comments
    /\ Finish(w)
    /\ UNCHANGED <<db, cache, lost>>

MCInit == Init /\ scenario \in Scenarios
MCNext ==
    \/ On("restart") /\ Restart /\ UNCHANGED scenario
    \/ \E w \in Workers : /\ Asked(w) \/ Step(w) \/ Exhausted(w)
                          /\ UNCHANGED scenario /\ Within'
MCSpec == MCInit /\ [][MCNext]_<<vars, scenario>>

(* For liveness the requests are those of Ops, and the threads are fair. *)
MCFairSpec == /\ MCInit /\ [][Next /\ UNCHANGED scenario]_<<vars, scenario>>
              /\ \A w \in Workers : WF_vars(Step(w))

(* Which worker serves a request, and which text is which, does not matter. *)
Symmetry == Permutations(Workers) \cup Permutations(Texts)

=============================================================================
