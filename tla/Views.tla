-------------------------------- MODULE Views --------------------------------
(***************************************************************************)
(* What visitors read: a post (blog::post), a page (blog::page), the feeds *)
(* (feed::feed_master), all with the options of the blog                   *)
(* (basic_master::prepare) and the first two with the sidebar              *)
(* (blog::master::load_sidebar and the cache block of the skins' master    *)
(* template).                                                              *)
(*                                                                         *)
(* A response is looked up in the cache first, and put together otherwise, *)
(* one query at a time; every piece that comes from the cache brings its   *)
(* triggers along, and every trigger recorded on the way is attached to    *)
(* the page when it is stored.  A hit changes nothing and is no step.      *)
(***************************************************************************)
EXTENDS BlogData

Missing(k) == cache[k] = NoRow

EntryOf(w, trig) == [body |-> req[w].body, side |-> req[w].side, trig |-> trig,
                     clean |-> req[w].clean]

(* The requests: a page of the site that is not cached, or not cacheable. *)
DisplayPost(w) ==
    /\ "view_post" \in Ops /\ IsIdle(w)
    /\ \E p \in PostId, z \in Spellings :
         Missing(PostKey(p, z)) /\ Begin(w, "display_post", "row", p, z)
    /\ UNCHANGED <<db, cache, lost>>

DisplayPage(w) ==
    /\ "view_page" \in Ops /\ IsIdle(w)
    /\ \E i \in PageId, z \in Spellings :
         Missing(PageKey(i, z)) /\ Begin(w, "display_page", "row", i, z)
    /\ UNCHANGED <<db, cache, lost>>

(* The previews need a user, show what is not open too, and are not cached. *)
Preview(w) ==
    /\ IsIdle(w)
    /\ \/ /\ "preview_post" \in Ops
          /\ \E p \in PostId : Begin(w, "preview_post", "row", p, 0)
       \/ /\ "preview_page" \in Ops
          /\ \E i \in PageId : Begin(w, "preview_page", "row", i, 0)
    /\ UNCHANGED <<db, cache, lost>>

FeedComments(w) ==
    /\ "feed_comments" \in Ops /\ IsIdle(w) /\ Missing(CommentsKey)
    /\ Begin(w, "feed_comments", "comments", 0, 0)
    /\ UNCHANGED <<db, cache, lost>>

FeedPosts(w) ==
    /\ "feed_posts" \in Ops /\ IsIdle(w) /\ Missing(RssPosts)
    /\ Begin(w, "feed_posts", "posts", 0, 0)
    /\ UNCHANGED <<db, cache, lost>>

FeedCat(w) ==
    /\ "feed_cat" \in Ops /\ IsIdle(w)
    /\ \E c \in CatId, z \in Spellings :
         Missing(RssKey(c, z)) /\ Begin(w, "feed_cat", "row", c, z)
    /\ UNCHANGED <<db, cache, lost>>

-----------------------------------------------------------------------------
(* The row the request is about; an error ends it when it may not be shown. *)

PostRow(w) ==
    /\ req[w].op \in PostViews /\ req[w].pc = "row"
    /\ LET p == req[w].id
       IN IF posts[p] = NoRow \/ (posts[p].open = 0 /\ req[w].op # "preview_post")
          THEN Finish(w)
          ELSE req' = [req EXCEPT ![w].body.text = posts[p].text, ![w].pc = "options"]
    /\ UNCHANGED <<db, cache, lost>>

PageRow(w) ==
    /\ req[w].op \in PageViews /\ req[w].pc = "row"
    /\ LET i == req[w].id
       IN IF pages[i] = NoRow \/ (pages[i].open = 0 /\ req[w].op # "preview_page")
          THEN Finish(w)
          ELSE req' = [req EXCEPT ![w].body.text = pages[i].text, ![w].pc = "options"]
    /\ UNCHANGED <<db, cache, lost>>

(* The name of the category of a feed; its trigger has the URL's spelling. *)
FeedCatRow(w) ==
    /\ At(w, "feed_cat", "row")
    /\ IF cats[req[w].id] = NoRow
       THEN Finish(w)
       ELSE req' = [req EXCEPT ![w].body.text = cats[req[w].id],
                               ![w].trig = {CatTrigger(req[w].id, req[w].zeros)},
                               ![w].pc = "posts"]
    /\ UNCHANGED <<db, cache, lost>>

-----------------------------------------------------------------------------
(* The queries of the bodies.                                              *)

CommentRows(ks) == {<<k, comments[k].post, comments[k].text>> : k \in ks}
CategoriesOf(p) == {<<c, cats[c]>> : c \in Linked(p) \cap Existing}

(* Ties of the ORDER BY may fall either way: every result it can return. *)
Newest(S, date(_)) ==
    {T \in SUBSET S :
       /\ Cardinality(T) <= FeedLimit
       /\ Cardinality(T) = FeedLimit \/ T = S
       /\ \A x \in T, y \in S \ T : date(x) >= date(y)}

PostRows(ps) == {<<p, posts[p].text>> : p \in ps}
OpenPosts == {p \in PostId : posts[p] # NoRow /\ posts[p].open = 1}
OpenIn(c) == {p \in PostId : post2cat[p][c] # NoRow /\ post2cat[p][c].open = 1}
PublishOf(p) == posts[p].publish
RecentComments == LET id(k) == k
                  IN Newest({k \in CommentId : comments[k] # NoRow}, id)
RecentPosts == Newest(OpenPosts, PublishOf)
RecentIn(c) == LET date(p) == post2cat[p][c].publish IN Newest(OpenIn(c), date)

PostComments(w) ==
    /\ req[w].op \in PostViews /\ req[w].pc = "comments"
    /\ req' = [req EXCEPT ![w].body.comments = CommentRows(CommentsOf(req[w].id)),
                          ![w].pc = "cats"]
    /\ UNCHANGED <<db, cache, lost>>

PostCategories(w) ==
    /\ req[w].op \in PostViews /\ req[w].pc = "cats"
    /\ req' = [req EXCEPT ![w].body.cats = CategoriesOf(req[w].id), ![w].pc = "frame"]
    /\ UNCHANGED <<db, cache, lost>>

FeedCommentRows(w) ==
    /\ At(w, "feed_comments", "comments")
    /\ \E ks \in RecentComments :
         req' = [req EXCEPT ![w].body.comments = CommentRows(ks), ![w].pc = "options"]
    /\ UNCHANGED <<db, cache, lost>>

(* Every post listed becomes a trigger of the feed. *)
ListPosts(w, ps, trig) ==
    req' = [req EXCEPT ![w].body.posts = PostRows(ps), ![w].pc = "options",
                       ![w].trig = @ \cup {PostKey(p, 0) : p \in ps} \cup trig]

FeedPostRows(w) ==
    /\ \/ At(w, "feed_posts", "posts") /\ \E ps \in RecentPosts : ListPosts(w, ps, {AllPosts})
       \/ At(w, "feed_cat", "posts") /\ \E ps \in RecentIn(req[w].id) : ListPosts(w, ps, {})
    /\ UNCHANGED <<db, cache, lost>>

-----------------------------------------------------------------------------
(***************************************************************************)
(* basic_master::prepare: the options, from the cache or from the table.   *)
(***************************************************************************)
AfterOptions(op) ==
    CASE op \in PostViews -> "comments"
      [] op \in PageViews -> "frame"
      [] OTHER -> "store"

Options(w) ==
    /\ req[w].pc = "options"
    /\ IF Missing(OptionsKey)
       THEN Goto(w, "opt_select")
       ELSE LET e == cache[OptionsKey]
            IN req' = [req EXCEPT ![w].body.options = e.body.options,
                                  ![w].trig = @ \cup e.trig,
                                  ![w].clean = IF e.clean = 1 THEN @ ELSE 0,
                                  ![w].pc = AfterOptions(req[w].op)]
    /\ UNCHANGED <<db, cache, lost>>

OptionsSelect(w) ==
    /\ req[w].pc = "opt_select"
    /\ req' = [req EXCEPT ![w].body.options = options, ![w].pc = "opt_store"]
    /\ UNCHANGED <<db, cache, lost>>

OptionsStore(w) ==
    /\ req[w].pc = "opt_store"
    /\ CacheStore(OptionsKey, [body |-> [NoBody EXCEPT !.options = req[w].body.options],
                               side |-> NoSide, trig |-> {OptionsKey},
                               clean |-> req[w].clean])
    /\ req' = [req EXCEPT ![w].trig = @ \cup {OptionsKey},
                          ![w].pc = AfterOptions(req[w].op)]
    /\ UNCHANGED <<db, lost>>

-----------------------------------------------------------------------------
(***************************************************************************)
(* The sidebar.  The rendered frame is cached as "sidebar", the data it is *)
(* made of as "sidebar_info"; each records its own triggers.  The frame    *)
(* also shows an option, the copyright, and names the options a trigger.   *)
(***************************************************************************)
OpenPages == {<<i, pages[i].text>> : i \in {j \in PageId : pages[j] # NoRow /\ pages[j].open = 1}}
CategoryCounts == {<<c, cats[c], Cardinality(OpenIn(c))>> : c \in Existing}

Frame(w) ==
    /\ req[w].pc = "frame"
    /\ IF Missing(Sidebar)
       THEN Goto(w, "info")
       ELSE LET e == cache[Sidebar]
            IN req' = [req EXCEPT ![w].side = e.side, ![w].trig = @ \cup e.trig,
                                  ![w].clean = IF e.clean = 1 THEN @ ELSE 0, ![w].pc = "store"]
    /\ UNCHANGED <<db, cache, lost>>

Info(w) ==
    /\ req[w].pc = "info"
    /\ IF Missing(SidebarInfo)
       THEN Goto(w, "side_pages")
       ELSE LET e == cache[SidebarInfo]
            IN req' = [req EXCEPT ![w].side = e.side, ![w].rec = e.trig,
                                  ![w].clean = IF e.clean = 1 THEN @ ELSE 0, ![w].pc = "store_frame"]
    /\ UNCHANGED <<db, cache, lost>>

SidePages(w) ==
    /\ req[w].pc = "side_pages"
    /\ req' = [req EXCEPT ![w].side.pages = OpenPages, ![w].rec = {PagesTrigger},
                          ![w].pc = "side_cats"]
    /\ UNCHANGED <<db, cache, lost>>

SideCats(w) ==
    /\ req[w].pc = "side_cats"
    /\ req' = [req EXCEPT ![w].side.cats = CategoryCounts,
                          ![w].rec = @ \cup {CatTrigger(c, 0) : c \in Existing}
                                       \cup {CatsTrigger, GeneralInfo},
                          ![w].pc = "store_info"]
    /\ UNCHANGED <<db, cache, lost>>

FrameTriggersNoOptions(r) == r.rec \cup {Sidebar}  \* variant without "options"
FrameTriggers(r) == r.rec \cup {OptionsKey, Sidebar}
SideEntry(w, trig) == [EntryOf(w, trig) EXCEPT !.body = NoBody]

StoreInfo(w) ==
    /\ req[w].pc = "store_info"
    /\ CacheStore(SidebarInfo, SideEntry(w, req[w].rec \cup {SidebarInfo}))
    /\ req' = [req EXCEPT ![w].rec = @ \cup {SidebarInfo}, ![w].pc = "store_frame"]
    /\ UNCHANGED <<db, lost>>

StoreFrame(w) ==
    /\ req[w].pc = "store_frame"
    /\ CacheStore(Sidebar, [SideEntry(w, FrameTriggers(req[w])) EXCEPT
                              !.side.options = req[w].body.options])
    /\ req' = [req EXCEPT ![w].trig = @ \cup FrameTriggers(req[w]),
                          ![w].side.options = req[w].body.options,
                          ![w].rec = {}, ![w].pc = "store"]
    /\ UNCHANGED <<db, lost>>

-----------------------------------------------------------------------------
(* store_page: the key is a trigger of the page too. *)
PageKeyOf(r) ==
    CASE r.op = "display_post" -> PostKey(r.id, r.zeros)
      [] r.op = "display_page" -> PageKey(r.id, r.zeros)
      [] r.op = "feed_cat" -> RssKey(r.id, r.zeros)
      [] r.op = "feed_comments" -> CommentsKey
      [] OTHER -> RssPosts
Uncached == {"render_post", "preview_post", "preview_page", "admin_page"}

StorePage(w) ==
    /\ req[w].pc = "store" /\ req[w].op \notin Uncached
    /\ CacheStore(PageKeyOf(req[w]), EntryOf(w, req[w].trig \cup {PageKeyOf(req[w])}))
    /\ Finish(w)
    /\ UNCHANGED <<db, lost>>

Respond(w) ==
    /\ req[w].pc = "store" /\ req[w].op \in Uncached
    /\ Finish(w)
    /\ UNCHANGED <<db, cache, lost>>

=============================================================================
