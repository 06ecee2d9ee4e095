--------------------------------- MODULE Blog ---------------------------------
(***************************************************************************)
(* The blog: worker threads that serve requests of every kind at the same  *)
(* time, over one database and one cache.                                  *)
(***************************************************************************)
EXTENDS PostAdmin, Comments, SiteAdmin, Views

(***************************************************************************)
(* cache().rise: the order in which a handler rises its triggers; those of *)
(* equal rank follow the order of a SELECT that asks for none.             *)
(***************************************************************************)
Rank(r, t) ==
    CASE r.op = "edit" -> IF t = AllPosts THEN 0 ELSE IF t = PostKey(r.post, 0) THEN 1
                          ELSE IF t \in {CatTrigger(c, 0) : c \in r.add} THEN 2 ELSE 3
      [] r.op = "insert" -> IF t = AllPosts THEN 1 ELSE 0
      [] r.op = "remove" -> IF t = CommentsKey THEN 0 ELSE 1
      [] r.op \in {"send", "erase", "amend"} -> IF t = CommentsKey THEN 1 ELSE 0
      [] OTHER -> IF t \in {PagesTrigger} \cup {CatTrigger(c, 0) : c \in CatId} THEN 1 ELSE 0

Rise(w) ==
    /\ Writing(w)
    /\ \E t \in req[w].rises :
         /\ \A u \in req[w].rises : Rank(req[w], t) <= Rank(req[w], u)
         /\ CacheRise(t)
         /\ req' = [req EXCEPT ![w].rises = @ \ {t}]
    /\ UNCHANGED <<db, lost>>

(* After the commit of a category or a page, and the rises that follow it. *)
AfterRises(w) ==
    /\ req[w].pc = "after" /\ req[w].rises = {}
    /\ IF req[w].op = "page" THEN Finish(w) ELSE RenderAdmin(w)
    /\ UNCHANGED <<db, cache, lost>>

-----------------------------------------------------------------------------
(***************************************************************************)
(* What goes wrong.  A statement or the commit of a transaction may fail;  *)
(* the exception rolls it back, and what was risen stays risen.  A request *)
(* that waits too long for a row gets an exception too.  A restart ends    *)
(* every request, rolls back and loses the cache.                          *)
(***************************************************************************)
Rollback(w) ==
    /\ req[w].pc \in {"tx", "fail"}
    /\ Finish(w)
    /\ UNCHANGED <<db, cache, lost>>

BlockedForever(w) == FALSE  \* variant in which no wait for a row times out
Blocked(w) ==
    /\ req[w].pc = "exec"
    /\ CASE req[w].op = "edit" -> ~PostFree(w, req[w].post)
         [] req[w].op = "remove" ->
              \/ ~PostFree(w, req[w].post)
              \/ \E k \in CommentsOf(req[w].post) : ~CommentFree(w, k)
         [] req[w].op = "send" -> ~PostFree(w, req[w].post)
         [] req[w].op = "erase" ->
              ~PostFree(w, req[w].post) \/ ~CommentFree(w, req[w].comment)
         [] req[w].op = "amend" -> ~CommentFree(w, req[w].comment)
         [] req[w].op = "cat_remove" ->
              ~CatFree(w, req[w].id) \/ ~LinkFree(w, req[w].id)
         [] OTHER -> FALSE

LockTimeout(w) ==
    /\ Blocked(w)
    /\ Finish(w)
    /\ UNCHANGED <<db, cache, lost>>

Restart ==
    /\ "restart" \in Ops
    /\ CacheClear
    /\ req' = [w \in Workers |-> Idle]
    /\ UNCHANGED <<db, lost>>

-----------------------------------------------------------------------------
Arrive(w) ==
    \/ PostStart(w) \/ Postback(w) \/ CommentStart(w)
    \/ CatAdd(w) \/ CatRename(w) \/ CatRemove(w)
    \/ PageInsert(w) \/ PageIsOpen(w) \/ OptionsExec(w)
    \/ AdminForm(w) \/ ClearCache(w) \/ NewLanguage(w)
    \/ DisplayPost(w) \/ DisplayPage(w) \/ Preview(w)
    \/ FeedComments(w) \/ FeedPosts(w) \/ FeedCat(w)

PostAdminStep(w) ==
    \/ PostIsOpen(w) \/ PostInUse(w) \/ PostForm(w)
    \/ PostInsert(w) \/ PostInsertCommit(w) \/ PostRemove(w) \/ PostRemoveCommit(w)
    \/ PostEdit(w) \/ PostEditCommit(w)
CommentStep(w) ==
    \/ SendSelect(w) \/ SendInsert(w) \/ SendCommit(w)
    \/ CommentExec(w) \/ EraseCommit(w) \/ AmendCommit(w)
SiteAdminStep(w) ==
    \/ CatDelete(w) \/ PageDelete(w) \/ PageUpdate(w) \/ OptionsCommit(w)
ViewStep(w) ==
    \/ PostRow(w) \/ PageRow(w) \/ FeedCatRow(w)
    \/ PostComments(w) \/ PostCategories(w) \/ FeedCommentRows(w) \/ FeedPostRows(w)
    \/ Options(w) \/ OptionsSelect(w) \/ OptionsStore(w)
    \/ Frame(w) \/ Info(w) \/ SidePages(w) \/ SideCats(w)
    \/ StoreInfo(w) \/ StoreFrame(w) \/ StorePage(w) \/ Respond(w)

Step(w) ==
    \/ PostAdminStep(w) \/ CommentStep(w) \/ SiteAdminStep(w) \/ ViewStep(w)
    \/ Rise(w) \/ AfterRises(w) \/ Rollback(w) \/ LockTimeout(w)

Next == Restart \/ \E w \in Workers : Arrive(w) \/ Step(w)

Spec == Init /\ [][Next]_vars

(***************************************************************************)
(* The threads of the service run, and the database answers: a request     *)
(* that can go on goes on.                                                 *)
(***************************************************************************)
FairSpec == Spec /\ \A w \in Workers : WF_vars(Step(w))

-----------------------------------------------------------------------------
(* Properties of the tables.                                               *)

(***************************************************************************)
(* The date of a post and the date kept with each of its categories, by    *)
(* which the two kinds of lists are ordered, are the same: what the        *)
(* SELECT publish of the handler, and its comment, are for.                *)
(***************************************************************************)
PublishSync ==
    \A p \in PostId : \A c \in Linked(p) :
       posts[p] # NoRow /\ post2cat[p][c].publish = posts[p].publish

(***************************************************************************)
(* posts.comment_count is the number of comments of the post, whatever     *)
(* postbacks, erasures and removals run side by side; and no comment is    *)
(* left of a post that has gone.                                           *)
(***************************************************************************)
CommentCountExact ==
    /\ \A p \in PostId : posts[p] # NoRow => posts[p].count = Cardinality(CommentsOf(p))
    /\ \A k \in CommentId : comments[k] # NoRow => posts[comments[k].post] # NoRow

(***************************************************************************)
(* A category lists a post as open exactly when the post is, unless the    *)
(* post was once changed by a form built from outdated values: the only    *)
(* way in which the two copies of is_open come apart.                      *)
(***************************************************************************)
StatusSplitNeedsStaleEdit ==
    \A p \in PostId : \A c \in Linked(p) :
       post2cat[p][c].open # posts[p].open => <<"post", p>> \in lost

(***************************************************************************)
(* No post is in a category that is not there, although the handler of a   *)
(* post offers the categories it read before its transaction, while        *)
(* admin::categories removes them.                                         *)
(***************************************************************************)
LinksHaveCategories ==
    \A p \in PostId : Linked(p) \subseteq Existing

-----------------------------------------------------------------------------
(***************************************************************************)
(* Properties of the cache.  An entry is clean when no request that writes *)
(* was under way while it was put together.  While none is under way now,  *)
(* a clean entry shows what the tables hold: the triggers that readers     *)
(* record and the triggers that writers rise fit each other.               *)
(***************************************************************************)
Live(k) == cache[k] # NoRow /\ cache[k].clean = 1

(***************************************************************************)
(* The cached page of a post shows its text, its comments and its          *)
(* categories as they are, and only of a post that is open.                *)
(***************************************************************************)
PostPageFresh ==
    Quiet => \A p \in PostId : LET k == PostKey(p, 0) IN
       Live(k) => /\ posts[p] # NoRow /\ posts[p].open = 1
                  /\ cache[k].body.text = posts[p].text
                  /\ cache[k].body.comments = CommentRows(CommentsOf(p))
                  /\ cache[k].body.cats = CategoriesOf(p)

(***************************************************************************)
(* The cached page of blog::page shows the text of a page that is open, as *)
(* it is, unless admin::page once changed the page on the strength of an   *)
(* is_open that was no longer the one in the table.                        *)
(***************************************************************************)
PageFresh ==
    Quiet => \A i \in PageId : LET k == PageKey(i, 0) IN
       Live(k) /\ <<"page", i>> \notin lost =>
          /\ pages[i] # NoRow /\ pages[i].open = 1
          /\ cache[k].body.text = pages[i].text

(***************************************************************************)
(* The sidebar, as cached by itself or inside a page, lists the pages and  *)
(* the categories there are, and no category with fewer posts than it has. *)
(* (It may show more: neither the removal of a post nor leaving a category *)
(* rises the trigger of the category.)                                     *)
(***************************************************************************)
WithSidebar == {SidebarInfo, Sidebar} \cup {PostKey(p, z) : p \in PostId, z \in Spellings}
                 \cup {PageKey(i, z) : i \in PageId, z \in Spellings}

SidebarFresh ==
    Quiet => \A k \in WithSidebar : Live(k) =>
       /\ (\A i \in PageId : <<"page", i>> \notin lost) => cache[k].side.pages = OpenPages
       /\ {<<x[1], x[2]>> : x \in cache[k].side.cats} = {<<c, cats[c]>> : c \in Existing}
       /\ (\A p \in PostId : <<"post", p>> \notin lost) =>
             \A x \in cache[k].side.cats : x[3] >= Cardinality(OpenIn(x[1]))

(***************************************************************************)
(* The cached feed of comments (feed_master::comments, key "comments")     *)
(* shows the latest comments there are, also after the post they belong to *)
(* has been removed with them.                                             *)
(***************************************************************************)
CommentsFeedFresh ==
    Quiet /\ Live(CommentsKey) =>
       \E ks \in RecentComments : cache[CommentsKey].body.comments = CommentRows(ks)

(***************************************************************************)
(* The feeds of posts show the latest posts that are open, in the blog or  *)
(* in the category, with their present texts, unless some post was changed *)
(* by a form built from outdated values.                                   *)
(***************************************************************************)
PostFeedsFresh ==
    Quiet /\ (\A p \in PostId : <<"post", p>> \notin lost) =>
       /\ Live(RssPosts) =>
             \E ps \in RecentPosts : cache[RssPosts].body.posts = PostRows(ps)
       /\ \A c \in CatId : LET k == RssKey(c, 0) IN
             Live(k) => /\ cache[k].body.text = cats[c]
                        /\ \E ps \in RecentIn(c) : cache[k].body.posts = PostRows(ps)

(***************************************************************************)
(* Whatever is cached, the frame of the sidebar inside a page included,    *)
(* shows the options of the blog as they are: the "options" trigger that   *)
(* admin::options rises reaches every entry that basic_master::prepare or  *)
(* the cache block of a skin has put them into.                            *)
(***************************************************************************)
OptionsFresh ==
    Quiet => \A k \in Key : Live(k) =>
       /\ k # SidebarInfo /\ k # Sidebar => cache[k].body.options = options
       /\ cache[k].side.options \in {NoRow, options}

(***************************************************************************)
(* Every request is answered in the end, with a page or an error: no       *)
(* handler waits for ever for a row that another transaction holds.        *)
(***************************************************************************)
Answered == \A w \in Workers : (req[w].op # "idle") ~> (req[w].op = "idle")

=============================================================================
