------------------------------ MODULE FreshProofs ------------------------------
(***************************************************************************)
(* What the cache shows is what the tables hold, for every number of       *)
(* worker threads, posts, categories, comments and pages: FreshInv is      *)
(* inductive.                                                              *)
(*                                                                         *)
(* A commit needs two things of every entry that stays: that the entry     *)
(* would have recorded one of the triggers risen for the commit if it      *)
(* showed anything that the commit changes, and that no response that      *)
(* overlaps the commit counts as clean.  So each commit has one lemma      *)
(* about the entries without its triggers, and the rest is about readers.  *)
(*                                                                         *)
(* The second half does the same for the lists of posts and the searches:  *)
(* ListInv is inductive together with FreshInv, from which it takes which  *)
(* requests are clean and what their triggers have risen.                  *)
(***************************************************************************)
EXTENDS TableProofs, Lists, WellFoundedInduction

-----------------------------------------------------------------------------
(***************************************************************************)
(* The inductive invariant behind the properties of the cache: what a      *)
(* clean response has read is what the tables hold, what it has recorded   *)
(* are the triggers that a change of these would rise, and a request that  *)
(* commits has no entry left that its change would make outdated.          *)
(***************************************************************************)
CleanReader(w) == Reading(w) /\ req[w].clean = 1

(* What the tables hold, as the queries of the views return it. *)
RowsOf(p) == CommentRows(CommentsOf(p))
CommentFeeds == {CommentRows(ks) : ks \in RecentComments}
PostFeeds == {PostRows(ps) : ps \in RecentPosts}
CatFeeds(c) == {PostRows(ps) : ps \in RecentIn(c)}
CatNames == {<<c, cats[c]>> : c \in Existing}
CountIn(c) == Cardinality(OpenIn(c))
NoPostLost == \A p \in PostId : <<"post", p>> \notin lost
NoPageLost == \A i \in PageId : <<"page", i>> \notin lost

(* A body, or a sidebar, that shows just that. *)
ShowsRow(p, b) == posts[p] # NoRow /\ posts[p].open = 1 /\ b.text = posts[p].text
ShowsPage(i, b) == <<"page", i>> \notin lost =>
    pages[i] # NoRow /\ pages[i].open = 1 /\ b.text = pages[i].text
ShowsPages(s) == NoPageLost => s.pages = OpenPages
ShowsCats(s) == /\ {<<x[1], x[2]>> : x \in s.cats} = CatNames
                /\ NoPostLost => \A x \in s.cats : x[3] >= CountIn(x[1])
ShowsName(c, b) == cats[c] # NoRow /\ b.text = cats[c]

(* The triggers of a sidebar and of a list of posts. *)
SideRecorded(s, T) == /\ {PagesTrigger, CatsTrigger} \subseteq T
                      /\ \A x \in s.cats : CatTrigger(x[1], 0) \in T
ListRecorded(b, T) == \A x \in b.posts : PostKey(x[1], 0) \in T

(* What an entry records, and what it shows. *)
EntryRecorded(k) == LET e == cache[k] IN
    /\ k \in e.trig
    /\ IF k = SidebarInfo THEN e.side.options = NoRow ELSE OptionsKey \in e.trig
    /\ k \in WithSidebar => SideRecorded(e.side, e.trig)
    /\ k = RssPosts => AllPosts \in e.trig /\ ListRecorded(e.body, e.trig)
    /\ \A c \in CatId : k = RssKey(c, 0) =>
          CatTrigger(c, 0) \in e.trig /\ ListRecorded(e.body, e.trig)
FreshOptions(k) == LET e == cache[k] IN
    /\ k # SidebarInfo /\ k # Sidebar => e.body.options = options
    /\ e.side.options \in {NoRow, options}
FreshPost(k) == LET b == cache[k].body IN
    \A p \in PostId : k = PostKey(p, 0) =>
       ShowsRow(p, b) /\ b.comments = RowsOf(p) /\ b.cats = CategoriesOf(p)
FreshPage(k) == \A i \in PageId : k = PageKey(i, 0) => ShowsPage(i, cache[k].body)
FreshSide(k) == k \in WithSidebar => ShowsPages(cache[k].side) /\ ShowsCats(cache[k].side)
FreshComments(k) == k = CommentsKey => cache[k].body.comments \in CommentFeeds
FreshFeeds(k) == LET b == cache[k].body IN
    /\ k = RssPosts /\ NoPostLost => b.posts \in PostFeeds
    /\ \A c \in CatId : k = RssKey(c, 0) =>
          ShowsName(c, b) /\ (NoPostLost => b.posts \in CatFeeds(c))
EntryFresh(k) == /\ FreshOptions(k) /\ FreshPost(k) /\ FreshPage(k) /\ FreshSide(k)
                 /\ FreshComments(k) /\ FreshFeeds(k)

(* A request that has committed is about to take the entry away. *)
Overdue(k) == \E w \in Workers : req[w].pc = "after" /\ req[w].rises \cap cache[k].trig # {}
CacheFresh == \A k \in Key : Live(k) => EntryRecorded(k) /\ (Overdue(k) \/ EntryFresh(k))

(* A response that has the options of the blog, the parts of its body, its *)
(* sidebar, and their triggers.                                            *)
HasOptions(r) == \/ r.pc \in {"cats", "frame", "info", "side_pages", "side_cats",
                               "store_info", "store_frame", "store"}
                 \/ r.pc = "comments" /\ r.op \in PostViews
BeforeComments == {"row", "options", "opt_select", "opt_store", "comments"}
OptionsRead(r) ==
    /\ HasOptions(r) => r.body.options = options /\ OptionsKey \in r.trig
    /\ r.pc = "opt_store" => r.body.options = options
    /\ r.side.options = NoRow \/ (r.pc = "store" /\ r.side.options = options)
BodyRead(r) ==
    /\ r.op = "display_post" =>
         /\ r.pc # "row" => ShowsRow(r.id, r.body)
         /\ r.pc \notin BeforeComments => r.body.comments = RowsOf(r.id)
         /\ r.pc \notin BeforeComments \cup {"cats"} => r.body.cats = CategoriesOf(r.id)
    /\ r.op = "display_page" /\ r.pc # "row" => ShowsPage(r.id, r.body)
    /\ r.op = "feed_comments" /\ r.pc # "comments" => r.body.comments \in CommentFeeds
FeedRead(r) ==
    /\ r.op = "feed_posts" /\ r.pc # "posts" =>
         /\ AllPosts \in r.trig /\ ListRecorded(r.body, r.trig)
         /\ NoPostLost => r.body.posts \in PostFeeds
    /\ r.op = "feed_cat" /\ r.pc # "row" =>
         ShowsName(r.id, r.body) /\ CatTrigger(r.id, r.zeros) \in r.trig
    /\ r.op = "feed_cat" /\ r.pc \notin {"row", "posts"} =>
         ListRecorded(r.body, r.trig) /\ (NoPostLost => r.body.posts \in CatFeeds(r.id))
SideRead(r) ==
    /\ r.pc = "side_cats" => ShowsPages(r.side) /\ PagesTrigger \in r.rec
    /\ r.pc \in {"store_info", "store_frame"} =>
         ShowsPages(r.side) /\ ShowsCats(r.side) /\ SideRecorded(r.side, r.rec)
    /\ r.pc = "store" /\ r.op \in PostViews \cup PageViews =>
         ShowsPages(r.side) /\ ShowsCats(r.side) /\ SideRecorded(r.side, r.trig)
ReaderFresh(w) == CleanReader(w) =>
    OptionsRead(req[w]) /\ BodyRead(req[w]) /\ FeedRead(req[w]) /\ SideRead(req[w])

(* Nobody writes while a response is clean. *)
CleanAlone == \A v, w \in Workers : CleanReader(v) => ~Writing(w)

(* What the transaction of a request rises before its commit. *)
DueOf(r) ==
    CASE r.op = "insert" -> InsertRises(r)
      [] r.op = "edit" -> EditRises(r)
      [] r.op = "remove" -> RemoveRises(r)
      [] r.op = "send" -> SendRises(r)
      [] r.op \in {"erase", "amend"} -> CommentRises(r)
      [] OTHER -> {OptionsKey}
RisenGone == \A w \in Workers : req[w].pc = "tx" =>
    \A t \in DueOf(req[w]) \ req[w].rises : \A k \in Key : Live(k) => t \notin cache[k].trig

(* The links that publishing changes are those of the form. *)
LinksRead == \A w \in Workers :
    At(w, "edit", "tx") /\ posts[req[w].post] # NoRow /\ <<"post", req[w].post>> \notin lost =>
        Linked(req[w].post) \subseteq req[w].inUse

(* Ids of categories and pages that have not been handed out are free. *)
FreeIds == /\ \A c \in CatId : c >= nextId.cat => cats[c] = NoRow
           /\ \A i \in PageId : i >= nextId.page => pages[i] = NoRow

(* Rises follow the commit of a category or a page only. *)
AfterOps == \A w \in Workers : req[w].pc = "after" => req[w].op \in {"form", "page"}

FreshInv == /\ AfterOps /\ CleanAlone /\ RisenGone /\ LinksRead /\ FreeIds
            /\ CacheFresh /\ (\A w \in Workers : ReaderFresh(w))

-----------------------------------------------------------------------------
(* What the queries return changes only with the tables they read.         *)

(* The feed of comments and the comments of a post depend on the comments only. *)
LEMMA CommentsQueried ==
  ASSUME UNCHANGED comments
  PROVE  CommentFeeds' = CommentFeeds /\ \A p : RowsOf(p)' = RowsOf(p)
BY DEF CommentFeeds, RecentComments, Newest, CommentRows, RowsOf, CommentsOf

(* The names of the categories depend on the categories only. *)
LEMMA CategoriesQueried ==
  ASSUME UNCHANGED cats
  PROVE  CatNames' = CatNames /\ Existing' = Existing
BY DEF CatNames, Existing

(* The categories of a post depend on its links and their names only. *)
LEMMA LinksQueried ==
  ASSUME UNCHANGED <<post2cat, cats>>
  PROVE  \A p : CategoriesOf(p)' = CategoriesOf(p)
BY DEF CategoriesOf, Linked, Existing

(* The list of pages depends on the pages only. *)
LEMMA PagesQueried ==
  ASSUME UNCHANGED pages
  PROVE  OpenPages' = OpenPages
BY DEF OpenPages

(* The posts of a category depend on the links only. *)
LEMMA CountsQueried ==
  ASSUME UNCHANGED post2cat
  PROVE  \A c : CountIn(c)' = CountIn(c) /\ OpenIn(c)' = OpenIn(c)
BY DEF CountIn, OpenIn

(* The feeds of posts depend on the posts and the links only. *)
LEMMA PostsQueried ==
  ASSUME UNCHANGED <<posts, post2cat>>
  PROVE  PostFeeds' = PostFeeds /\ \A c : CatFeeds(c)' = CatFeeds(c)
BY DEF PostFeeds, RecentPosts, CatFeeds, RecentIn, Newest, PostRows, OpenPosts, OpenIn, PublishOf

(* The history of outdated forms only grows. *)
LEMMA LostGrows ==
  ASSUME lost \subseteq lost'
  PROVE  (NoPostLost' => NoPostLost) /\ (NoPageLost' => NoPageLost)
BY DEF NoPostLost, NoPageLost

-----------------------------------------------------------------------------
(* An entry goes on showing what the tables hold.                          *)

(* The options shown are still those of the blog. *)
LEMMA OptionsStay ==
  ASSUME NEW k \in Key, cache'[k] = cache[k], UNCHANGED options, FreshOptions(k)
  PROVE  FreshOptions(k)'
BY DEF FreshOptions

(* The page of a post is still right if its row, comments and categories are the same. *)
LEMMA PostStays ==
  ASSUME NEW k \in Key, cache'[k] = cache[k], FreshPost(k),
         \A p \in PostId : k = PostKey(p, 0) /\ posts[p] # NoRow =>
            /\ posts'[p] # NoRow /\ posts'[p].open = posts[p].open /\ posts'[p].text = posts[p].text
            /\ RowsOf(p)' = RowsOf(p) /\ CategoriesOf(p)' = CategoriesOf(p)
  PROVE  FreshPost(k)'
BY DEF FreshPost, ShowsRow

(* The page of blog::page is still right if no page changes. *)
LEMMA PageStays ==
  ASSUME NEW k \in Key, cache'[k] = cache[k], UNCHANGED pages, lost \subseteq lost', FreshPage(k)
  PROVE  FreshPage(k)'
BY DEF FreshPage, ShowsPage

(* A category that no post joins does not grow. *)
LEMMA CountsFall ==
  ASSUME NEW c, OpenIn(c)' \subseteq OpenIn(c)
  PROVE  CountIn(c)' <= CountIn(c) /\ CountIn(c) \in Nat /\ CountIn(c)' \in Nat
<1>1. IsFiniteSet(PostId)
  BY IdAssumption, FS_Interval DEF PostId
<1>2. IsFiniteSet(OpenIn(c))
  BY <1>1, FS_Subset DEF OpenIn
<1>3. /\ IsFiniteSet(OpenIn(c)') /\ Cardinality(OpenIn(c)') <= Cardinality(OpenIn(c))
  BY <1>2, FS_Subset
<1> QED BY <1>2, <1>3, FS_CardinalityType DEF CountIn

(* The sidebar is still right if pages and names stay and no listed category grows. *)
LEMMA SideStays ==
  ASSUME Types, NEW k \in Key, cache[k] # NoRow, cache'[k] = cache[k], lost \subseteq lost', FreshSide(k),
         NoPageLost' => OpenPages' = OpenPages, CatNames' = CatNames,
         EntryRecorded(k),
         \A c \in CatId : CatTrigger(c, 0) \in cache[k].trig /\ NoPostLost' =>
            OpenIn(c)' \subseteq OpenIn(c)
  PROVE  FreshSide(k)'
<1> SUFFICES ASSUME k \in WithSidebar
             PROVE  ShowsPages(cache[k].side)' /\ ShowsCats(cache[k].side)'
  BY DEF FreshSide
<1> DEFINE s == cache[k].side
<1>1. cache[k] \in Entry /\ s.cats \subseteq CatId \X Texts \X Nat
  BY DEF Types, CacheOK, Entry, Side
<1>2. ShowsPages(s) /\ ShowsCats(s) /\ SideRecorded(s, cache[k].trig)
  BY DEF FreshSide, EntryRecorded
<1>3. cache'[k].side = s
  OBVIOUS
<1>4. ShowsPages(cache[k].side)'
  BY <1>2, <1>3, LostGrows DEF ShowsPages
<1>5. ASSUME NEW x \in s.cats, NoPostLost' PROVE x[3] >= CountIn(x[1])'
  <2>1. x[1] \in CatId /\ x[3] \in Nat /\ CatTrigger(x[1], 0) \in cache[k].trig /\ x[3] >= CountIn(x[1])
    BY <1>1, <1>2, <1>5, LostGrows DEF ShowsCats, SideRecorded
  <2>2. OpenIn(x[1])' \subseteq OpenIn(x[1])
    BY <1>5, <2>1
  <2> QED BY <2>1, <2>2, CountsFall
<1>6. ShowsCats(cache[k].side)'
  BY <1>2, <1>3, <1>5 DEF ShowsCats
<1> QED BY <1>4, <1>6

(* The feed of comments is still right if no comment changes. *)
LEMMA CommentsStay ==
  ASSUME NEW k \in Key, cache'[k] = cache[k], UNCHANGED comments, FreshComments(k)
  PROVE  FreshComments(k)'
BY CommentsQueried DEF FreshComments

(* A list of the newest posts stays one when posts that are not in it go,  *)
(* or change without a new date.                                           *)
LEMMA PostFeedStays ==
  ASSUME NEW b \in PostFeeds, OpenPosts' \subseteq OpenPosts,
         \A x \in b : x[1] \in OpenPosts' /\ posts'[x[1]].text = posts[x[1]].text,
         \A q \in OpenPosts' : posts'[q].publish = posts[q].publish
  PROVE  b \in PostFeeds'
<1>1. PICK ps \in RecentPosts : b = PostRows(ps)
  BY DEF PostFeeds
<1>2. /\ ps \subseteq OpenPosts /\ Cardinality(ps) <= FeedLimit
      /\ Cardinality(ps) = FeedLimit \/ ps = OpenPosts
      /\ \A x \in ps, y \in OpenPosts \ ps : posts[x].publish >= posts[y].publish
  BY <1>1 DEF RecentPosts, Newest, PublishOf
<1>3. ASSUME NEW q \in ps PROVE q \in OpenPosts' /\ posts'[q].text = posts[q].text
  <2>1. <<q, posts[q].text>> \in b
    BY <1>1 DEF PostRows
  <2> QED BY <2>1
<1>4. ps \subseteq OpenPosts' /\ (Cardinality(ps) = FeedLimit \/ ps = OpenPosts')
  BY <1>2, <1>3
<1>5. \A x \in ps, y \in OpenPosts' \ ps : posts'[x].publish >= posts'[y].publish
  BY <1>2, <1>4
<1>6. ps \in RecentPosts'
  BY <1>2, <1>4, <1>5 DEF RecentPosts, Newest, PublishOf
<1>7. PostRows(ps)' = PostRows(ps)
  BY <1>3 DEF PostRows
<1> QED BY <1>1, <1>6, <1>7 DEF PostFeeds

(* The same for the feed of a category. *)
LEMMA CatFeedStays ==
  ASSUME NEW c \in CatId, NEW b \in CatFeeds(c), OpenIn(c)' \subseteq OpenIn(c),
         \A x \in b : x[1] \in OpenIn(c)' /\ posts'[x[1]].text = posts[x[1]].text,
         \A q \in OpenIn(c)' : post2cat'[q][c].publish = post2cat[q][c].publish
  PROVE  b \in CatFeeds(c)'
<1>1. PICK ps \in RecentIn(c) : b = PostRows(ps)
  BY DEF CatFeeds
<1>2. /\ ps \subseteq OpenIn(c) /\ Cardinality(ps) <= FeedLimit
      /\ Cardinality(ps) = FeedLimit \/ ps = OpenIn(c)
      /\ \A x \in ps, y \in OpenIn(c) \ ps : post2cat[x][c].publish >= post2cat[y][c].publish
  BY <1>1 DEF RecentIn, Newest
<1>3. ASSUME NEW q \in ps PROVE q \in OpenIn(c)' /\ posts'[q].text = posts[q].text
  <2>1. <<q, posts[q].text>> \in b
    BY <1>1 DEF PostRows
  <2> QED BY <2>1
<1>4. ps \subseteq OpenIn(c)' /\ (Cardinality(ps) = FeedLimit \/ ps = OpenIn(c)')
  BY <1>2, <1>3
<1>5. \A x \in ps, y \in OpenIn(c)' \ ps : post2cat'[x][c].publish >= post2cat'[y][c].publish
  BY <1>2, <1>4
<1>6. ps \in RecentIn(c)'
  BY <1>2, <1>4, <1>5 DEF RecentIn, Newest
<1>7. PostRows(ps)' = PostRows(ps)
  BY <1>3 DEF PostRows
<1> QED BY <1>1, <1>6, <1>7 DEF CatFeeds

(* The feeds of posts are still right if no post, link or name changes. *)
LEMMA FeedsStay ==
  ASSUME NEW k \in Key, cache'[k] = cache[k], UNCHANGED <<posts, post2cat, cats>>,
         lost \subseteq lost', FreshFeeds(k)
  PROVE  FreshFeeds(k)'
BY PostsQueried, LostGrows DEF FreshFeeds, ShowsName

(* Nothing changes but the history. *)
LEMMA EntryStays ==
  ASSUME Types, NEW k \in Key, cache[k] # NoRow, cache'[k] = cache[k],
         UNCHANGED <<posts, post2cat, comments, cats, pages, options>>,
         lost \subseteq lost', EntryRecorded(k), EntryFresh(k)
  PROVE  EntryFresh(k)'
<1>1. FreshOptions(k)'
  BY OptionsStay DEF EntryFresh
<1>2. FreshPost(k)'
  BY PostStays, CommentsQueried, LinksQueried DEF EntryFresh
<1>3. FreshPage(k)'
  BY PageStays DEF EntryFresh
<1>4. FreshSide(k)'
  BY SideStays, PagesQueried, CategoriesQueried, CountsQueried DEF EntryFresh
<1>5. FreshComments(k)'
  BY CommentsStay DEF EntryFresh
<1>6. FreshFeeds(k)'
  BY FeedsStay DEF EntryFresh
<1> QED BY <1>1, <1>2, <1>3, <1>4, <1>5, <1>6 DEF EntryFresh

-----------------------------------------------------------------------------
(* How a step of one request affects the others.                           *)

Beside(w) == \A v \in Workers \ {w} :
    /\ req'[v].op = req[v].op /\ req'[v].pc = req[v].pc
    /\ ~Reading(v) => req'[v] = req[v]
    /\ CleanReader(v)' => req'[v] = req[v]

(* The request itself holds nothing, and what it has read is fresh. *)
Free(w) == /\ ~Writing(w)' /\ ReaderFresh(w)'
           /\ CleanReader(w)' => \A v \in Workers \ {w} : ~Writing(v)

(* The cache only loses entries. *)
Shrinks == \A k \in Key : Live(k)' => Live(k) /\ cache'[k] = cache[k]

(* The tables that responses show. *)
Shown == <<posts, post2cat, comments, cats, pages, options>>

(* A step that changes one request leaves the others alone. *)
LEMMA BesideOne ==
  ASSUME Types, NEW w \in Workers, NEW r, req' = [req EXCEPT ![w] = r]
  PROVE  Beside(w) /\ req'[w] = r
BY DEF Types, ReqOK, Beside

(* A write that begins leaves nothing clean. *)
LEMMA BesideEnter ==
  ASSUME Types, NEW w \in Workers, NEW r, EnterWrite(w, r)
  PROVE  /\ Beside(w) /\ req'[w] = r
         /\ \A v \in Workers \ {w} : ~CleanReader(v)'
<1>1. req'[w] = r
  BY DEF EnterWrite
<1>2. ASSUME NEW v \in Workers \ {w}
      PROVE  /\ req'[v].op = req[v].op /\ req'[v].pc = req[v].pc
             /\ ~Reading(v) => req'[v] = req[v]
             /\ ~CleanReader(v)'
  <2>1. req[v] \in Request
    BY DEF Types, ReqOK
  <2>2. CASE Reading(v)
    <3>1. req'[v] = [req[v] EXCEPT !.clean = 0]
      BY <2>2 DEF EnterWrite
    <3> QED BY <2>1, <2>2, <3>1 DEF Request, CleanReader
  <2>3. CASE ~Reading(v)
    <3>1. req'[v] = req[v]
      BY <2>3 DEF EnterWrite
    <3> QED BY <2>3, <3>1 DEF CleanReader, Reading
  <2> QED BY <2>2, <2>3
<1> QED BY <1>1, <1>2 DEF Beside

(* A request that is not rendering, and not writing either. *)
LEMMA EarlyFree ==
  ASSUME NEW w \in Workers, \A v \in Workers \ {w} : req'[v] = req[v],
         req'[w].pc \notin ReaderPcs \cup {"tx", "fail", "after"}
  PROVE  Beside(w) /\ Free(w)
BY DEF Beside, Free, Writing, CleanReader, Reading, ReaderFresh

(* A request that ends is neither rendering nor writing. *)
LEMMA FinishFree ==
  ASSUME Types, NEW w \in Workers, Finish(w)
  PROVE  Beside(w) /\ Free(w)
<1>1. Idle.pc \notin ReaderPcs \cup {"tx", "fail", "after"}
  BY DEF Idle, ReaderPcs
<1>2. req'[w] = Idle /\ \A v \in Workers \ {w} : req'[v] = req[v]
  BY DEF Types, ReqOK, Finish
<1> QED BY <1>1, <1>2, EarlyFree

(* Where the handlers that render begin. *)
Starts(op, pc) ==
    \/ op \in PostViews \cup PageViews \cup {"feed_cat"} /\ pc = "row"
    \/ op = "feed_comments" /\ pc = "comments"
    \/ op = "feed_posts" /\ pc = "posts"
    \/ op \in {"admin_page", "preview_page"} /\ pc = "options"

(* A response that begins has read nothing yet. *)
LEMMA BeginFree ==
  ASSUME Types, NEW w \in Workers, NEW op, NEW pc, Starts(op, pc), NEW id, NEW z,
         Begin(w, op, pc, id, z)
  PROVE  Beside(w) /\ Free(w)
<1> DEFINE cl == IF \A v \in Workers \ {w} : ~Writing(v) THEN 1 ELSE 0
           r == [Idle EXCEPT !.op = op, !.pc = pc, !.id = id, !.zeros = z, !.clean = cl]
<1>1. req' = [req EXCEPT ![w] = r]
  BY DEF Begin
<1>2. r.op = op /\ r.pc = pc /\ r.clean = cl /\ r.side = NoSide
  BY DEF Idle
<1>3. cl = 1 => \A v \in Workers \ {w} : ~Writing(v)
  OBVIOUS
<1> HIDE DEF r, cl
<1>4. Beside(w) /\ req'[w] = r
  BY <1>1, BesideOne
<1>5. pc \in {"row", "comments", "posts", "options"}
  BY DEF Starts
<1>6. ~Writing(w)'
  BY <1>2, <1>4, <1>5 DEF Writing
<1>7. CleanReader(w)' => \A v \in Workers \ {w} : ~Writing(v)
  BY <1>2, <1>3, <1>4 DEF CleanReader
<1>8. OptionsRead(req[w])'
  BY <1>2, <1>4, <1>5 DEF OptionsRead, HasOptions, Starts, NoSide, PostViews
<1>9. BodyRead(req[w])'
  BY <1>2, <1>4, <1>5 DEF BodyRead, BeforeComments, Starts, PostViews, PageViews
<1>10. FeedRead(req[w])'
  BY <1>2, <1>4, <1>5 DEF FeedRead, Starts, PostViews, PageViews
<1>11. SideRead(req[w])'
  BY <1>2, <1>4, <1>5 DEF SideRead
<1> QED BY <1>4, <1>6, <1>7, <1>8, <1>9, <1>10, <1>11 DEF Free, ReaderFresh

(* The same for a page of the administration. *)
LEMMA AdminFree ==
  ASSUME Types, NEW w \in Workers, RenderAdmin(w)
  PROVE  Beside(w) /\ Free(w)
BY BeginFree DEF RenderAdmin, Starts

-----------------------------------------------------------------------------
(* The parts of the invariant, one by one.                                 *)

(* No write begins, so clean responses stay alone. *)
LEMMA AloneStays ==
  ASSUME CleanAlone, NEW w \in Workers, Beside(w), Free(w)
  PROVE  CleanAlone'
<1> SUFFICES ASSUME NEW u \in Workers, NEW v \in Workers, CleanReader(u)', Writing(v)'
             PROVE  FALSE
  BY DEF CleanAlone
<1>1. v # w
  BY DEF Free
<1>2. Writing(v)
  BY <1>1 DEF Beside, Writing
<1>3. CASE u = w
  BY <1>1, <1>2, <1>3 DEF Free
<1>4. CASE u # w
  BY <1>2, <1>4 DEF Beside, CleanAlone, CleanReader, Reading
<1> QED BY <1>3, <1>4

(* What has been risen stays risen while the cache only loses entries. *)
LEMMA RisenStays ==
  ASSUME RisenGone, NEW w \in Workers, Beside(w), Shrinks, req'[w].pc # "tx"
  PROVE  RisenGone'
<1> SUFFICES ASSUME NEW v \in Workers, req'[v].pc = "tx", NEW t \in (DueOf(req[v]) \ req[v].rises)',
                    NEW k \in Key, Live(k)'
             PROVE  t \notin cache'[k].trig
  BY DEF RisenGone
<1>1. v # w /\ req[v].pc = "tx" /\ req'[v] = req[v]
  BY DEF Beside, Reading, ReaderPcs
<1>2. t \in DueOf(req[v]) \ req[v].rises
  BY <1>1 DEF DueOf, InsertRises, EditRises, RemoveRises, SendRises, CommentRises
<1>3. Live(k) /\ cache'[k] = cache[k]
  BY DEF Shrinks
<1> QED BY <1>1, <1>2, <1>3 DEF RisenGone

(* An overdue entry stays overdue while the request that owes its rise goes on. *)
LEMMA OverdueStays ==
  ASSUME NEW w \in Workers, Beside(w), NEW k \in Key, cache'[k] = cache[k], Overdue(k),
         req[w].pc = "after" => req[w].rises = {}
  PROVE  Overdue(k)'
<1>1. PICK v \in Workers : req[v].pc = "after" /\ req[v].rises \cap cache[k].trig # {}
  BY DEF Overdue
<1>2. v # w
  BY <1>1
<1>3. req'[v] = req[v]
  BY <1>1, <1>2 DEF Beside, Reading, ReaderPcs
<1> QED BY <1>1, <1>3 DEF Overdue

(* What a response has read stays fresh while the tables stay. *)
LEMMA ReaderStays ==
  ASSUME NEW v \in Workers, CleanReader(v)' => req'[v] = req[v],
         UNCHANGED <<Shown, lost>>, ReaderFresh(v)
  PROVE  ReaderFresh(v)'
<1> SUFFICES ASSUME CleanReader(v)'
             PROVE  (OptionsRead(req[v]) /\ BodyRead(req[v]) /\ FeedRead(req[v]) /\ SideRead(req[v]))'
  BY DEF ReaderFresh
<1>1. req'[v] = req[v] /\ CleanReader(v)
  BY DEF CleanReader, Reading
<1>2. UNCHANGED <<posts, post2cat, comments, cats, pages, options, lost>>
  BY DEF Shown
<1>3. OptionsRead(req[v])'
  BY <1>1, <1>2 DEF ReaderFresh, OptionsRead, HasOptions
<1>4. BodyRead(req[v])'
  BY <1>1, <1>2, CommentsQueried, LinksQueried DEF ReaderFresh, BodyRead, ShowsRow, ShowsPage
<1>5. FeedRead(req[v])'
  BY <1>1, <1>2, PostsQueried DEF ReaderFresh, FeedRead, ShowsName, NoPostLost
<1>6. SideRead(req[v])'
  BY <1>1, <1>2, PagesQueried, CategoriesQueried, CountsQueried
  DEF ReaderFresh, SideRead, ShowsPages, ShowsCats, NoPostLost, NoPageLost
<1> QED BY <1>3, <1>4, <1>5, <1>6

(* The links that forms know of stay while posts and links stay. *)
LEMMA LinksStay ==
  ASSUME LinksRead, NEW w \in Workers, Beside(w), UNCHANGED <<posts, post2cat>>, lost \subseteq lost',
         ~At(w, "edit", "tx")'
  PROVE  LinksRead'
<1> SUFFICES ASSUME NEW v \in Workers, At(v, "edit", "tx")', posts'[req'[v].post] # NoRow,
                    <<"post", req'[v].post>> \notin lost'
             PROVE  Linked(req[v].post)' \subseteq req'[v].inUse
  BY DEF LinksRead
<1>1. v # w /\ req'[v] = req[v]
  BY DEF Beside, Reading, ReaderPcs, At
<1> QED BY <1>1 DEF LinksRead, At, Linked

(* The free ids stay free while categories and pages stay. *)
LEMMA IdsStay ==
  ASSUME FreeIds, UNCHANGED <<cats, pages>>, nextId'.cat = nextId.cat, nextId'.page = nextId.page
  PROVE  FreeIds'
BY DEF FreeIds

(* Only categories and pages rise after their commit. *)
LEMMA AfterStays ==
  ASSUME AfterOps, NEW w \in Workers, Beside(w),
         req'[w].pc = "after" => req'[w].op \in {"form", "page"}
  PROVE  AfterOps'
<1> SUFFICES ASSUME NEW v \in Workers, req'[v].pc = "after", v # w
             PROVE  req'[v].op \in {"form", "page"}
  BY DEF AfterOps
<1>1. req'[v] = req[v]
  BY DEF Beside, Reading, ReaderPcs
<1> QED BY <1>1 DEF AfterOps

(* The recorded triggers of an entry that stays. *)
LEMMA RecordStays ==
  ASSUME NEW k \in Key, cache'[k] = cache[k], EntryRecorded(k) PROVE EntryRecorded(k)'
BY DEF EntryRecorded

(* A step that writes no table and takes no new lock. *)
LEMMA FreeStep ==
  ASSUME Types, FreshInv, NEW w \in Workers, Beside(w), Free(w), Shrinks,
         UNCHANGED <<Shown, lost>>, nextId'.cat = nextId.cat, nextId'.page = nextId.page,
         req[w].pc = "after" => req[w].rises = {}
  PROVE  FreshInv'
<1>1. UNCHANGED <<posts, post2cat, comments, cats, pages, options>>
  BY DEF Shown
<1>2. req'[w].pc # "tx"
  BY DEF Free, Writing
<1>3. CleanAlone'
  BY AloneStays DEF FreshInv
<1>4. RisenGone'
  BY <1>2, RisenStays DEF FreshInv
<1>5. LinksRead'
  BY <1>1, <1>2, LinksStay DEF FreshInv, At
<1>6. FreeIds'
  BY <1>1, IdsStay DEF FreshInv
<1>7. ASSUME NEW k \in Key, Live(k)'
      PROVE  (EntryRecorded(k) /\ (Overdue(k) \/ EntryFresh(k)))'
  <2>1. Live(k) /\ cache'[k] = cache[k]
    BY <1>7 DEF Shrinks
  <2>2. EntryRecorded(k) /\ (Overdue(k) \/ EntryFresh(k))
    BY <2>1 DEF FreshInv, CacheFresh
  <2> QED BY <1>1, <2>1, <2>2, RecordStays, OverdueStays, EntryStays DEF Live
<1>8. ASSUME NEW v \in Workers PROVE ReaderFresh(v)'
  BY ReaderStays DEF FreshInv, Free, Beside
<1>9. AfterOps'
  BY AfterStays DEF FreshInv, Free, Writing
<1> QED BY <1>3, <1>4, <1>5, <1>6, <1>7, <1>8, <1>9 DEF FreshInv, CacheFresh

-----------------------------------------------------------------------------
(* The steps of requests that write.                                       *)

(* The step does no harm to entries that have none of the triggers. *)
Harmless(R) == \A k \in Key :
    Live(k) /\ EntryRecorded(k) /\ EntryFresh(k) /\ cache[k].trig \cap R = {} => EntryFresh(k)'

(* A cache that stays loses nothing. *)
LEMMA SameShrinks == UNCHANGED cache => Shrinks
BY DEF Shrinks, Live

(* The first statement of a transaction. *)
LEMMA EnterStep ==
  ASSUME Types, FreshInv, NEW w \in Workers, NEW r, EnterWrite(w, r), req[w].pc # "after",
         r.pc = "fail" \/ (r.pc = "tx" /\ r.rises = DueOf(r)),
         UNCHANGED <<Shown, cache>>, lost \subseteq lost',
         nextId'.cat = nextId.cat, nextId'.page = nextId.page,
         r.op = "edit" /\ r.pc = "tx" /\ posts[r.post] # NoRow /\ <<"post", r.post>> \notin lost' =>
            Linked(r.post) \subseteq r.inUse
  PROVE  FreshInv'
<1>1. UNCHANGED <<posts, post2cat, comments, cats, pages, options>>
  BY DEF Shown
<1>2. Beside(w) /\ req'[w] = r /\ \A v \in Workers : ~CleanReader(v)'
  BY BesideEnter DEF CleanReader, Reading, ReaderPcs
<1>3. CleanAlone' /\ \A v \in Workers : ReaderFresh(v)'
  BY <1>2 DEF CleanAlone, ReaderFresh
<1>4. RisenGone'
  <2> SUFFICES ASSUME NEW v \in Workers, req'[v].pc = "tx", NEW t \in (DueOf(req[v]) \ req[v].rises)',
                      NEW k \in Key, Live(k)'
               PROVE  t \notin cache'[k].trig
    BY DEF RisenGone
  <2>1. CASE v = w
    BY <1>2, <2>1 DEF DueOf, InsertRises, EditRises, RemoveRises, SendRises, CommentRises
  <2>2. CASE v # w
    <3>1. req[v].pc = "tx" /\ req'[v] = req[v]
      BY <1>2, <2>2 DEF Beside, Reading, ReaderPcs
    <3>2. t \in DueOf(req[v]) \ req[v].rises
      BY <3>1 DEF DueOf, InsertRises, EditRises, RemoveRises, SendRises, CommentRises
    <3> QED BY <3>1, <3>2 DEF FreshInv, RisenGone, Live
  <2> QED BY <2>1, <2>2
<1>5. LinksRead'
  <2> SUFFICES ASSUME NEW v \in Workers, At(v, "edit", "tx")', posts'[req'[v].post] # NoRow,
                      <<"post", req'[v].post>> \notin lost'
               PROVE  Linked(req[v].post)' \subseteq req'[v].inUse
    BY DEF LinksRead
  <2>1. CASE v = w
    BY <1>1, <1>2, <2>1 DEF At, Linked
  <2>2. CASE v # w
    <3>1. req'[v] = req[v]
      BY <1>2, <2>2 DEF Beside, Reading, ReaderPcs, At
    <3> QED BY <1>1, <3>1 DEF FreshInv, LinksRead, At, Linked
  <2> QED BY <2>1, <2>2
<1>6. FreeIds'
  BY <1>1, IdsStay DEF FreshInv
<1>7. ASSUME NEW k \in Key, Live(k)'
      PROVE  (EntryRecorded(k) /\ (Overdue(k) \/ EntryFresh(k)))'
  <2>1. Live(k) /\ cache'[k] = cache[k]
    BY <1>7 DEF Live
  <2>2. EntryRecorded(k) /\ (Overdue(k) \/ EntryFresh(k))
    BY <2>1 DEF FreshInv, CacheFresh
  <2> QED BY <1>1, <1>2, <2>1, <2>2, RecordStays, OverdueStays, EntryStays DEF Live
<1>8. AfterOps'
  BY <1>2, AfterStays DEF FreshInv
<1> QED BY <1>3, <1>4, <1>5, <1>6, <1>7, <1>8 DEF FreshInv, CacheFresh

(* A commit when everything has been risen: no response under way is clean. *)
LEMMA CommitStep ==
  ASSUME Types, FreshInv, NEW w \in Workers, Beside(w), Free(w), UNCHANGED cache,
         req[w].pc = "tx", req[w].rises = {}, Harmless(DueOf(req[w])), LinksRead', FreeIds'
  PROVE  FreshInv'
<1>1. Shrinks /\ req'[w].pc # "tx"
  BY SameShrinks DEF Free, Writing
<1>2. CleanAlone' /\ RisenGone' /\ AfterOps'
  BY <1>1, AloneStays, RisenStays, AfterStays DEF FreshInv, Free, Writing
<1>3. ASSUME NEW v \in Workers PROVE ReaderFresh(v)'
  <2>1. ~CleanReader(v)
    BY DEF FreshInv, CleanAlone, Writing
  <2>2. CASE v = w
    BY <2>2 DEF Free
  <2>3. CASE v # w
    BY <2>1, <2>3 DEF Beside, ReaderFresh, CleanReader, Reading
  <2> QED BY <2>2, <2>3
<1>4. ASSUME NEW k \in Key, Live(k)'
      PROVE  (EntryRecorded(k) /\ (Overdue(k) \/ EntryFresh(k)))'
  <2>1. Live(k) /\ cache'[k] = cache[k]
    BY <1>4 DEF Live
  <2>2. EntryRecorded(k) /\ (Overdue(k) \/ EntryFresh(k))
    BY <2>1 DEF FreshInv, CacheFresh
  <2>3. cache[k].trig \cap DueOf(req[w]) = {}
    BY <2>1 DEF FreshInv, RisenGone
  <2>4. EntryFresh(k) => EntryFresh(k)'
    BY <2>1, <2>2, <2>3 DEF Harmless
  <2> QED BY <2>1, <2>2, <2>4, RecordStays, OverdueStays
<1> QED BY <1>2, <1>3, <1>4 DEF FreshInv, CacheFresh

(* A commit that is followed by the rises. *)
LEMMA AfterStep ==
  ASSUME Types, FreshInv, NEW w \in Workers, NEW r, EnterWrite(w, r), UNCHANGED cache,
         req[w].pc # "after", r.pc = "after", r.op \in {"form", "page"}, Harmless(r.rises),
         LinksRead', FreeIds'
  PROVE  FreshInv'
<1>1. Beside(w) /\ req'[w] = r /\ \A v \in Workers : ~CleanReader(v)'
  BY BesideEnter DEF CleanReader, Reading, ReaderPcs
<1>2. CleanAlone' /\ \A v \in Workers : ReaderFresh(v)'
  BY <1>1 DEF CleanAlone, ReaderFresh
<1>3. RisenGone' /\ AfterOps'
  BY <1>1, SameShrinks, RisenStays, AfterStays DEF FreshInv
<1>4. ASSUME NEW k \in Key, Live(k)'
      PROVE  (EntryRecorded(k) /\ (Overdue(k) \/ EntryFresh(k)))'
  <2>1. Live(k) /\ cache'[k] = cache[k]
    BY <1>4 DEF Live
  <2>2. EntryRecorded(k) /\ (Overdue(k) \/ EntryFresh(k))
    BY <2>1 DEF FreshInv, CacheFresh
  <2>3. cache[k].trig \cap r.rises # {} => Overdue(k)'
    BY <1>1, <2>1 DEF Overdue
  <2>4. EntryFresh(k) => EntryFresh(k)' \/ Overdue(k)'
    BY <2>1, <2>2, <2>3 DEF Harmless
  <2> QED BY <1>1, <2>1, <2>2, <2>4, RecordStays, OverdueStays
<1> QED BY <1>2, <1>3, <1>4 DEF FreshInv, CacheFresh

(* cache().rise takes away every entry with the trigger. *)
LEMMA RiseStep ==
  ASSUME Types, FreshInv, NEW w \in Workers, Rise(w)
  PROVE  FreshInv'
<1>1. PICK t \in req[w].rises : CacheRise(t) /\ req' = [req EXCEPT ![w].rises = @ \ {t}]
  BY DEF Rise
<1>2. Writing(w) /\ UNCHANGED <<posts, post2cat, comments, cats, pages, options, nextId, lost>>
  BY DEF Rise, db
<1>3. req[w] \in Request /\ req \in [Workers -> Request]
  BY DEF Types, ReqOK
<1>4. /\ req'[w].pc = req[w].pc /\ req'[w].op = req[w].op /\ req'[w].rises = req[w].rises \ {t}
      /\ req'[w].add = req[w].add /\ req'[w].open = req[w].open /\ req'[w].post = req[w].post
      /\ req'[w].change = req[w].change /\ req'[w].inUse = req[w].inUse
  BY <1>1, <1>3 DEF Request
<1>5. \A v \in Workers \ {w} : req'[v] = req[v]
  BY <1>1, <1>3
<1>6. \A k \in Key : Live(k)' => Live(k) /\ cache'[k] = cache[k] /\ t \notin cache[k].trig
  BY <1>1, NoRowAssumption DEF CacheRise, Live
<1>7. \A v \in Workers : ~CleanReader(v)'
  <2>1. ~CleanReader(w)'
    BY <1>2, <1>4 DEF CleanReader, Reading, ReaderPcs, Writing
  <2>2. \A v \in Workers \ {w} : ~CleanReader(v)'
    BY <1>2, <1>5 DEF FreshInv, CleanAlone, CleanReader, Reading
  <2> QED BY <2>1, <2>2
<1>8. CleanAlone' /\ \A v \in Workers : ReaderFresh(v)'
  BY <1>7 DEF CleanAlone, ReaderFresh
<1>9. RisenGone'
  <2> SUFFICES ASSUME NEW v \in Workers, req'[v].pc = "tx", NEW u \in (DueOf(req[v]) \ req[v].rises)',
                      NEW k \in Key, Live(k)'
               PROVE  u \notin cache'[k].trig
    BY DEF RisenGone
  <2>1. CASE v = w
    <3>1. u \in DueOf(req[v])
      BY <1>4, <2>1 DEF DueOf, InsertRises, EditRises, RemoveRises, SendRises, CommentRises
    <3>2. u = t \/ u \notin req[v].rises
      BY <1>4, <2>1
    <3> QED BY <1>4, <1>6, <2>1, <3>1, <3>2 DEF FreshInv, RisenGone
  <2>2. CASE v # w
    <3>1. u \in DueOf(req[v]) \ req[v].rises
      BY <1>5, <2>2 DEF DueOf, InsertRises, EditRises, RemoveRises, SendRises, CommentRises
    <3> QED BY <1>5, <1>6, <2>2, <3>1 DEF FreshInv, RisenGone
  <2> QED BY <2>1, <2>2
<1>10. LinksRead'
  BY <1>2, <1>4, <1>5 DEF FreshInv, LinksRead, At, Linked
<1>11. FreeIds'
  BY <1>2, IdsStay DEF FreshInv
<1>12. ASSUME NEW k \in Key, Live(k)'
       PROVE  (EntryRecorded(k) /\ (Overdue(k) \/ EntryFresh(k)))'
  <2>1. Live(k) /\ cache'[k] = cache[k] /\ t \notin cache[k].trig
    BY <1>6, <1>12
  <2>2. EntryRecorded(k) /\ (Overdue(k) \/ EntryFresh(k))
    BY <2>1 DEF FreshInv, CacheFresh
  <2>3. ASSUME Overdue(k) PROVE Overdue(k)'
    <3>1. PICK v \in Workers : req[v].pc = "after" /\ req[v].rises \cap cache[k].trig # {}
      BY <2>3 DEF Overdue
    <3>2. req'[v].pc = "after" /\ req'[v].rises \cap cache'[k].trig # {}
      BY <1>4, <1>5, <2>1, <3>1
    <3> QED BY <3>2 DEF Overdue
  <2> QED BY <1>2, <2>1, <2>2, <2>3, RecordStays, EntryStays DEF Live
<1>13. AfterOps'
  BY <1>4, <1>5 DEF FreshInv, AfterOps
<1> QED BY <1>8, <1>9, <1>10, <1>11, <1>12, <1>13 DEF FreshInv, CacheFresh

-----------------------------------------------------------------------------
(* Requests before their transaction, and those that end.                  *)

(* Emptying the cache only loses entries. *)
LEMMA ClearShrinks == CacheClear => Shrinks
BY DEF CacheClear, Shrinks, Live

(* Requests that begin to render, or that end. *)
LEMMA StartFree ==
  ASSUME Types, FreshInv, NEW w \in Workers,
         \/ DisplayPost(w) \/ DisplayPage(w) \/ Preview(w)
         \/ FeedComments(w) \/ FeedPosts(w) \/ FeedCat(w) \/ AdminForm(w) \/ ClearCache(w)
         \/ AfterRises(w) \/ Rollback(w) \/ LockTimeout(w)
  PROVE  /\ Beside(w) /\ Free(w) /\ Shrinks /\ UNCHANGED <<Shown, lost, nextId>>
         /\ req[w].pc = "after" => req[w].rises = {}
<1>1. UNCHANGED <<Shown, lost, nextId>>
  BY DEF DisplayPost, DisplayPage, Preview, FeedComments, FeedPosts, FeedCat, AdminForm, ClearCache,
         AfterRises, Rollback, LockTimeout, db, Shown
<1>2. Shrinks
  BY SameShrinks, ClearShrinks
  DEF DisplayPost, DisplayPage, Preview, FeedComments, FeedPosts, FeedCat, AdminForm, ClearCache,
         AfterRises, Rollback, LockTimeout
<1>3. Beside(w) /\ Free(w)
  <2>1. CASE \/ DisplayPost(w) \/ DisplayPage(w) \/ Preview(w)
             \/ FeedComments(w) \/ FeedPosts(w) \/ FeedCat(w)
    BY <2>1, BeginFree
    DEF DisplayPost, DisplayPage, Preview, FeedComments, FeedPosts, FeedCat, Starts, PostViews, PageViews
  <2>2. CASE \/ AdminForm(w) \/ ClearCache(w) \/ AfterRises(w) \/ Rollback(w) \/ LockTimeout(w)
    BY <2>2, AdminFree, FinishFree DEF AdminForm, ClearCache, AfterRises, Rollback, LockTimeout
  <2> QED BY <2>1, <2>2
<1>4. req[w].pc = "after" => req[w].rises = {}
  <2>1. IsIdle(w) => req[w].pc # "after"
    BY DEF FreshInv, AfterOps, IsIdle
  <2> QED BY <2>1 DEF DisplayPost, DisplayPage, Preview, FeedComments, FeedPosts, FeedCat, AdminForm,
          ClearCache, AfterRises, Rollback, LockTimeout, Blocked
<1> QED BY <1>1, <1>2, <1>3, <1>4

(* So they keep the invariant. *)
LEMMA StartFresh ==
  ASSUME Types, FreshInv, NEW w \in Workers,
         \/ DisplayPost(w) \/ DisplayPage(w) \/ Preview(w)
         \/ FeedComments(w) \/ FeedPosts(w) \/ FeedCat(w) \/ AdminForm(w) \/ ClearCache(w)
         \/ AfterRises(w) \/ Rollback(w) \/ LockTimeout(w)
  PROVE  FreshInv'
BY StartFree, FreeStep

(* The statements that handlers execute before their transaction. *)
LEMMA ReadFree ==
  ASSUME Types, FreshInv, NEW w \in Workers,
         \/ PostStart(w) \/ PostIsOpen(w) \/ PostInUse(w) \/ PostForm(w)
         \/ Postback(w) \/ SendSelect(w) \/ CommentStart(w) \/ CatRemove(w) \/ PageIsOpen(w)
  PROVE  Beside(w) /\ Free(w) /\ UNCHANGED <<Shown, lost, nextId, cache>> /\ req[w].pc # "after"
<1>r. req \in [Workers -> Request] /\ req[w] \in Request
  BY DEF Types, ReqOK
<1>1. UNCHANGED <<Shown, lost, nextId, cache>>
  BY DEF PostStart, PostIsOpen, PostInUse, PostForm, Postback, SendSelect, CommentStart, CatRemove,
         PageIsOpen, db, Shown
<1>2. Beside(w) /\ Free(w)
  <2> DEFINE Early == /\ \A v \in Workers \ {w} : req'[v] = req[v]
                      /\ req'[w].pc \notin ReaderPcs \cup {"tx", "fail", "after"}
  <2>e. ASSUME NEW r, r.pc \in {"form", "is_open", "exec", "select"}, req' = [req EXCEPT ![w] = r]
        PROVE  Early
    BY <1>r, <2>e DEF ReaderPcs
  <2>1. CASE PostStart(w)
    <3>1. Early
      <4>1. PICK p \in {0} \cup PostId :
              req' = [req EXCEPT ![w] = [Idle EXCEPT !.op = "post", !.post = p,
                                           !.pc = IF p = 0 THEN "form" ELSE "is_open"]]
        BY <2>1 DEF PostStart
      <4> DEFINE r == [Idle EXCEPT !.op = "post", !.post = p,
                                   !.pc = IF p = 0 THEN "form" ELSE "is_open"]
      <4>2. r.pc \in {"form", "is_open"} /\ req' = [req EXCEPT ![w] = r]
        BY <4>1 DEF Idle
      <4> HIDE DEF r
      <4> QED BY <1>r, <4>2 DEF ReaderPcs
    <3> QED BY <3>1, EarlyFree
  <2>2. CASE PostIsOpen(w)
    <3>1. Finish(w) \/ Early
      BY <1>r, <2>2 DEF PostIsOpen, Request, ReaderPcs
    <3> QED BY <3>1, EarlyFree, FinishFree
  <2>3. CASE PostInUse(w)
    <3>1. Early
      BY <1>r, <2>3 DEF PostInUse, Request, ReaderPcs
    <3> QED BY <3>1, EarlyFree
  <2>4. CASE PostForm(w)
    <3>1. Finish(w) \/ RenderAdmin(w) \/ Early
      <4>1. ASSUME NEW t, NEW change, NEW now, NEW add, NEW del, PostSave(w, t, change, now, add, del)
            PROVE  Early
        BY <1>r, <4>1 DEF PostSave, Request, ReaderPcs
      <4>2. ASSUME req' = [req EXCEPT ![w].op = "remove", ![w].pc = "exec"] PROVE Early
        BY <1>r, <4>2 DEF Request, ReaderPcs
      <4> HIDE DEF Early
      <4> QED BY <2>4, <4>1, <4>2 DEF PostForm
    <3> QED BY <3>1, EarlyFree, FinishFree, AdminFree
  <2>5. CASE Postback(w)
    <3>1. Early \/ \E p, z : Begin(w, "render_post", "row", p, z)
      <4>1. PICK p \in PostId, z \in Spellings, t \in Texts :
              \/ Begin(w, "render_post", "row", p, z)
              \/ req' = [req EXCEPT ![w] = [Idle EXCEPT !.op = "send", !.pc = "select",
                             !.id = p, !.zeros = z, !.post = p, !.text = t]]
        BY <2>5 DEF Postback
      <4> DEFINE r == [Idle EXCEPT !.op = "send", !.pc = "select", !.id = p, !.zeros = z,
                                   !.post = p, !.text = t]
      <4>2. r.pc = "select"
        BY DEF Idle
      <4>3. Begin(w, "render_post", "row", p, z) \/ req' = [req EXCEPT ![w] = r]
        BY <4>1
      <4> HIDE DEF r, Early
      <4> QED BY <2>e, <4>2, <4>3
    <3> QED BY <3>1, EarlyFree, BeginFree DEF Starts, PostViews
  <2>6. CASE SendSelect(w)
    <3>1. Finish(w) \/ Early \/ Begin(w, "render_post", "row", req[w].id, req[w].zeros)
      BY <1>r, <2>6 DEF SendSelect, Goto, Request, ReaderPcs
    <3> QED BY <3>1, EarlyFree, FinishFree, BeginFree DEF Starts, PostViews
  <2>7. CASE CommentStart(w)
    <3>1. Early
      <4>1. PICK k \in CommentId, op \in {"erase", "amend"}, t \in Texts :
              req' = [req EXCEPT ![w] = [Idle EXCEPT !.op = op, !.pc = "exec",
                        !.comment = k, !.post = comments[k].post,
                        !.text = IF op = "amend" THEN t ELSE NoRow]]
        BY <2>7 DEF CommentStart
      <4> DEFINE r == [Idle EXCEPT !.op = op, !.pc = "exec", !.comment = k,
                         !.post = comments[k].post, !.text = IF op = "amend" THEN t ELSE NoRow]
      <4>2. r.pc = "exec" /\ req' = [req EXCEPT ![w] = r]
        BY <4>1 DEF Idle
      <4> HIDE DEF r
      <4> QED BY <1>r, <4>2 DEF ReaderPcs
    <3> QED BY <3>1, EarlyFree
  <2>8. CASE CatRemove(w)
    <3>1. RenderAdmin(w) \/ Early
      <4> DEFINE r(c, x) == [Idle EXCEPT !.op = "cat_remove", !.pc = "exec", !.id = c, !.change = x]
      <4>1. RenderAdmin(w) \/ \E c, x : req' = [req EXCEPT ![w] = r(c, x)]
        BY <2>8 DEF CatRemove
      <4>2. \A c, x : r(c, x).pc = "exec"
        BY DEF Idle
      <4> HIDE DEF r, Early
      <4> QED BY <2>e, <4>1, <4>2
    <3> QED BY <3>1, EarlyFree, AdminFree
  <2>9. CASE PageIsOpen(w)
    <3>1. Early
      <4>1. PICK i \in PageId : req' = [req EXCEPT ![w] = [Idle EXCEPT !.op = "page", !.pc = "exec",
              !.id = i, !.open = pages[i].open]]
        BY <2>9 DEF PageIsOpen
      <4> DEFINE r == [Idle EXCEPT !.op = "page", !.pc = "exec", !.id = i, !.open = pages[i].open]
      <4>2. r.pc = "exec" /\ req' = [req EXCEPT ![w] = r]
        BY <4>1 DEF Idle
      <4> HIDE DEF r
      <4> QED BY <1>r, <4>2 DEF ReaderPcs
    <3> QED BY <3>1, EarlyFree
  <2> QED BY <2>1, <2>2, <2>3, <2>4, <2>5, <2>6, <2>7, <2>8, <2>9
<1>3. req[w].pc # "after"
  <2>1. IsIdle(w) => req[w].pc # "after"
    BY DEF FreshInv, AfterOps, IsIdle
  <2> QED BY <2>1 DEF PostStart, PostIsOpen, PostInUse, PostForm, Postback, SendSelect, CommentStart,
          CatRemove, PageIsOpen, At
<1> QED BY <1>1, <1>2, <1>3

(* So they keep the invariant. *)
LEMMA ReadFresh ==
  ASSUME Types, FreshInv, NEW w \in Workers,
         \/ PostStart(w) \/ PostIsOpen(w) \/ PostInUse(w) \/ PostForm(w)
         \/ Postback(w) \/ SendSelect(w) \/ CommentStart(w) \/ CatRemove(w) \/ PageIsOpen(w)
  PROVE  FreshInv'
BY ReadFree, SameShrinks, FreeStep

(* What they leave: a transaction with everything still to be risen, or one *)
(* that is about to fail.                                                  *)
Begun(w, r) ==
    /\ EnterWrite(w, r)
    /\ r.pc = "fail" \/ (r.pc = "tx" /\ r.rises = DueOf(r))
    /\ r.op = "edit" /\ r.pc = "tx" /\ posts[r.post] # NoRow /\ <<"post", r.post>> \notin lost' =>
          Linked(r.post) \subseteq r.inUse

(* The first statements of the transactions. *)
LEMMA ExecEnters ==
  ASSUME Types, FreshInv, NEW w \in Workers,
         \/ PostInsert(w) \/ PostRemove(w) \/ PostEdit(w)
         \/ SendInsert(w) \/ CommentExec(w) \/ OptionsExec(w)
  PROVE  /\ UNCHANGED <<Shown, cache>> /\ lost \subseteq lost'
         /\ nextId'.cat = nextId.cat /\ nextId'.page = nextId.page /\ req[w].pc # "after"
         /\ \/ Finish(w) /\ lost' = lost
            \/ \E r : Begun(w, r)
<1>r. req \in [Workers -> Request] /\ req[w] \in Request
  BY DEF Types, ReqOK
<1>1. UNCHANGED <<Shown, cache>> /\ lost \subseteq lost'
  BY DEF PostInsert, PostRemove, PostEdit, SendInsert, CommentExec, OptionsExec, db, Shown
<1>2. nextId'.cat = nextId.cat /\ nextId'.page = nextId.page
  BY DEF PostInsert, PostRemove, PostEdit, SendInsert, CommentExec, OptionsExec, db,
         Types, TableOK, NextIds
<1>3. req[w].pc # "after"
  <2>1. IsIdle(w) => req[w].pc # "after"
    BY DEF FreshInv, AfterOps, IsIdle
  <2> QED BY <2>1 DEF PostInsert, PostRemove, PostEdit, SendInsert, CommentExec, OptionsExec, At
<1> DEFINE Goal == (Finish(w) /\ lost' = lost) \/ \E r : Begun(w, r)
<1>5. ASSUME PostInsert(w) PROVE Goal
  <2> DEFINE r == [req[w] EXCEPT !.pc = "tx", !.post = nextId.post, !.rises = InsertRises(req[w])]
             f == [req[w] EXCEPT !.pc = "fail", !.post = nextId.post,
                                 !.rises = JoinRises(req[w], Existing)]
  <2>1. req[w].op = "insert"
    BY <1>5 DEF PostInsert, At
  <2>2. f.pc = "fail" /\ r.pc = "tx" /\ r.op # "edit" /\ f.op # "edit" /\ r.rises = DueOf(r)
    BY <1>r, <2>1 DEF Request, DueOf, InsertRises
  <2>3. (Finish(w) /\ lost' = lost) \/ EnterWrite(w, r) \/ EnterWrite(w, f)
    BY <1>5 DEF PostInsert
  <2> HIDE DEF r, f
  <2> QED BY <2>2, <2>3 DEF Begun
<1>6. ASSUME PostRemove(w) PROVE Goal
  <2> DEFINE r == [req[w] EXCEPT !.pc = "tx", !.rises = RemoveRises(req[w])]
  <2>1. req[w].op = "remove" /\ EnterWrite(w, r)
    BY <1>6 DEF PostRemove, At
  <2>2. r.pc = "tx" /\ r.op # "edit" /\ r.rises = DueOf(r)
    BY <1>r, <2>1 DEF Request, DueOf, RemoveRises
  <2> HIDE DEF r
  <2> QED BY <2>1, <2>2 DEF Begun
<1>7. ASSUME PostEdit(w) PROVE Goal
  <2> DEFINE r == [req[w] EXCEPT !.pc = "tx", !.rises = EditRises(req[w])]
             f == [req[w] EXCEPT !.pc = "fail", !.rises = FailRises(req[w])]
  <2>1. req[w].op = "edit"
    BY <1>7 DEF PostEdit, At
  <2>2. /\ f.pc = "fail" /\ r.pc = "tx" /\ r.rises = DueOf(r)
        /\ r.post = req[w].post /\ r.inUse = req[w].inUse
    BY <1>r, <2>1 DEF Request, DueOf, EditRises
  <2>3. \/ Finish(w) /\ lost' = lost
        \/ EnterWrite(w, f)
        \/ /\ EnterWrite(w, r)
           /\ lost' = IF EditIsStale(req[w]) THEN lost \cup {<<"post", req[w].post>>} ELSE lost
    BY <1>7 DEF PostEdit
  <2>4. ASSUME lost' = IF EditIsStale(req[w]) THEN lost \cup {<<"post", req[w].post>>} ELSE lost,
               posts[req[w].post] # NoRow, <<"post", req[w].post>> \notin lost'
        PROVE  Linked(req[w].post) \subseteq req[w].inUse
    BY <2>4 DEF EditIsStale
  <2> HIDE DEF r, f
  <2>5. CASE EnterWrite(w, f)
    BY <2>2, <2>5 DEF Begun
  <2>6. CASE /\ EnterWrite(w, r)
             /\ lost' = IF EditIsStale(req[w]) THEN lost \cup {<<"post", req[w].post>>} ELSE lost
    BY <2>2, <2>4, <2>6 DEF Begun
  <2> QED BY <2>3, <2>5, <2>6
<1>8. ASSUME SendInsert(w) PROVE Goal
  <2> DEFINE r == [req[w] EXCEPT !.pc = "tx", !.comment = nextId.comment, !.rises = SendRises(req[w])]
  <2>1. req[w].op = "send"
    BY <1>8 DEF SendInsert, At
  <2>2. r.pc = "tx" /\ r.op # "edit" /\ r.rises = DueOf(r)
    BY <1>r, <2>1 DEF Request, DueOf, SendRises
  <2>3. (Finish(w) /\ lost' = lost) \/ EnterWrite(w, r)
    BY <1>8 DEF SendInsert
  <2> HIDE DEF r
  <2> QED BY <2>2, <2>3 DEF Begun
<1>9. ASSUME CommentExec(w) PROVE Goal
  <2> DEFINE r == [req[w] EXCEPT !.pc = "tx", !.rises = CommentRises(req[w])]
  <2>1. req[w].op \in {"erase", "amend"} /\ EnterWrite(w, r)
    BY <1>9 DEF CommentExec
  <2>2. r.pc = "tx" /\ r.op # "edit" /\ r.rises = DueOf(r)
    BY <1>r, <2>1 DEF Request, DueOf, CommentRises
  <2> HIDE DEF r
  <2> QED BY <2>1, <2>2 DEF Begun
<1>10. ASSUME OptionsExec(w) PROVE Goal
  <2>1. PICK t \in Texts : EnterWrite(w, [Idle EXCEPT !.op = "options", !.pc = "tx", !.text = t,
                                                      !.rises = {OptionsKey}])
    BY <1>10 DEF OptionsExec
  <2> DEFINE r == [Idle EXCEPT !.op = "options", !.pc = "tx", !.text = t, !.rises = {OptionsKey}]
  <2>2. r.pc = "tx" /\ r.op # "edit" /\ r.rises = DueOf(r)
    BY DEF Idle, DueOf
  <2>3. EnterWrite(w, r)
    BY <2>1
  <2> HIDE DEF r
  <2> QED BY <2>2, <2>3 DEF Begun
<1> QED BY <1>1, <1>2, <1>3, <1>5, <1>6, <1>7, <1>8, <1>9, <1>10

(* So they keep the invariant. *)
LEMMA ExecFresh ==
  ASSUME Types, FreshInv, NEW w \in Workers,
         \/ PostInsert(w) \/ PostRemove(w) \/ PostEdit(w)
         \/ SendInsert(w) \/ CommentExec(w) \/ OptionsExec(w)
  PROVE  FreshInv'
<1>1. CASE Finish(w) /\ lost' = lost
  BY <1>1, ExecEnters, FinishFree, SameShrinks, FreeStep
<1>2. ASSUME NEW r, Begun(w, r) PROVE FreshInv'
  BY <1>2, ExecEnters, EnterStep DEF Begun
<1> QED BY <1>1, <1>2, ExecEnters

(* The cache is emptied, by a new language or by a restart. *)
LEMMA ClearFresh ==
  ASSUME Types, FreshInv, \/ Restart \/ \E w \in Workers : NewLanguage(w)
  PROVE  FreshInv'
<1>1. UNCHANGED <<posts, post2cat, comments, cats, pages, options, nextId, lost>>
  BY DEF Restart, NewLanguage, db
<1>2. CacheClear
  BY DEF Restart, NewLanguage
<1>3. \A k \in Key : ~Live(k)'
  BY <1>2 DEF CacheClear, Live
<1>4. CacheFresh' /\ RisenGone'
  BY <1>3 DEF CacheFresh, RisenGone
<1>5. FreeIds'
  BY <1>1, IdsStay DEF FreshInv
<1>6. CASE Restart
  <2>1. \A v \in Workers : req'[v].pc = "idle"
    BY <1>6 DEF Restart, Idle
  <2>2. AfterOps' /\ CleanAlone' /\ LinksRead' /\ \A v \in Workers : ReaderFresh(v)'
    BY <2>1 DEF AfterOps, CleanAlone, LinksRead, At, ReaderFresh, CleanReader, Reading, ReaderPcs
  <2> QED BY <1>4, <1>5, <2>2 DEF FreshInv
<1>7. CASE \E w \in Workers : NewLanguage(w)
  <2>1. req' = req
    BY <1>7 DEF NewLanguage
  <2>2. AfterOps' /\ CleanAlone' /\ LinksRead'
    BY <1>1, <2>1 DEF FreshInv, AfterOps, CleanAlone, CleanReader, Reading, Writing, LinksRead, At, Linked
  <2>3. \A v \in Workers : ReaderFresh(v)'
    BY <1>1, <2>1, ReaderStays DEF FreshInv, Shown
  <2> QED BY <1>4, <1>5, <2>2, <2>3 DEF FreshInv
<1> QED BY <1>6, <1>7

-----------------------------------------------------------------------------
(* Commits that change one post, its links and its comments.               *)

(* The comments of a post stay when only those of others change. *)
LEMMA RowsElsewhere ==
  ASSUME NEW q, \A j \in CommentId : \/ comments'[j] = comments[j]
                                     \/ /\ comments[j] = NoRow \/ comments[j].post # q
                                        /\ comments'[j] = NoRow \/ comments'[j].post # q
  PROVE  RowsOf(q)' = RowsOf(q)
<1>1. CommentsOf(q)' = CommentsOf(q) /\ \A j \in CommentsOf(q) : comments'[j] = comments[j]
  BY DEF CommentsOf
<1> QED BY <1>1 DEF RowsOf, CommentRows

(* A feed without the trigger of the post that changes. *)
LEMMA FeedsKept ==
  ASSUME Facts, NEW k \in Key, cache'[k] = cache[k], EntryRecorded(k), FreshFeeds(k),
         UNCHANGED <<lost, cats>>, NEW p \in PostId,
         \A q \in PostId \ {p} : posts'[q] = posts[q] /\ post2cat'[q] = post2cat[q],
         PostKey(p, 0) \notin cache[k].trig \/ posts[p] = NoRow,
         k = RssPosts /\ NoPostLost =>
            (p \in OpenPosts' => p \in OpenPosts /\ posts'[p].publish = posts[p].publish),
         \A c \in CatId : k = RssKey(c, 0) /\ NoPostLost =>
            (p \in OpenIn(c)' => p \in OpenIn(c) /\ post2cat'[p][c].publish = post2cat[p][c].publish)
  PROVE  FreshFeeds(k)'
<1> DEFINE b == cache[k].body
<1>1. NoPostLost' = NoPostLost
  BY DEF NoPostLost
<1>2. ASSUME k = RssPosts, NoPostLost PROVE b.posts \in PostFeeds'
  <2>1. b.posts \in PostFeeds /\ ListRecorded(b, cache[k].trig)
    BY <1>2 DEF FreshFeeds, EntryRecorded
  <2>2. PICK ps \in RecentPosts : b.posts = PostRows(ps)
    BY <2>1 DEF PostFeeds
  <2>3. ps \subseteq OpenPosts /\ OpenPosts \subseteq PostId
    BY <2>2 DEF RecentPosts, Newest, OpenPosts
  <2>4. ASSUME NEW x \in b.posts PROVE x[1] \in OpenPosts /\ x[1] # p
    <3>1. PICK q \in ps : x = <<q, posts[q].text>>
      BY <2>2, <2>4 DEF PostRows
    <3>2. PostKey(x[1], 0) \in cache[k].trig
      BY <2>1, <2>4 DEF ListRecorded
    <3> QED BY <2>3, <3>1, <3>2 DEF OpenPosts
  <2>5. OpenPosts' \subseteq OpenPosts
    BY <1>2 DEF OpenPosts
  <2>6. \A x \in b.posts : x[1] \in OpenPosts' /\ posts'[x[1]].text = posts[x[1]].text
    BY <2>3, <2>4 DEF OpenPosts
  <2>7. \A q \in OpenPosts' : posts'[q].publish = posts[q].publish
    BY <1>2, <2>3, <2>5
  <2> QED BY <2>1, <2>5, <2>6, <2>7, PostFeedStays
<1>3. ASSUME NEW c \in CatId, k = RssKey(c, 0), NoPostLost PROVE b.posts \in CatFeeds(c)'
  <2>1. b.posts \in CatFeeds(c) /\ ListRecorded(b, cache[k].trig)
    BY <1>3 DEF FreshFeeds, EntryRecorded
  <2>2. PICK ps \in RecentIn(c) : b.posts = PostRows(ps)
    BY <2>1 DEF CatFeeds
  <2>3. ps \subseteq OpenIn(c) /\ OpenIn(c) \subseteq PostId
    BY <2>2 DEF RecentIn, Newest, OpenIn
  <2>4. ASSUME NEW x \in b.posts PROVE x[1] \in OpenIn(c) /\ x[1] # p
    <3>1. PICK q \in ps : x = <<q, posts[q].text>>
      BY <2>2, <2>4 DEF PostRows
    <3>2. PostKey(x[1], 0) \in cache[k].trig
      BY <2>1, <2>4 DEF ListRecorded
    <3>3. q \in PostId /\ c \in Linked(q)
      BY <2>3, <3>1 DEF OpenIn, Linked
    <3>4. posts[q] # NoRow
      BY <3>3 DEF Facts, PublishSync
    <3> QED BY <2>3, <3>1, <3>2, <3>4
  <2>5. OpenIn(c)' \subseteq OpenIn(c)
    BY <1>3 DEF OpenIn
  <2>6. \A x \in b.posts : x[1] \in OpenIn(c)' /\ posts'[x[1]].text = posts[x[1]].text
    BY <2>3, <2>4 DEF OpenIn
  <2>7. \A q \in OpenIn(c)' : post2cat'[q][c].publish = post2cat[q][c].publish
    BY <1>3, <2>3, <2>5
  <2> QED BY <2>1, <2>5, <2>6, <2>7, CatFeedStays
<1>4. \A c \in CatId : k = RssKey(c, 0) => ShowsName(c, cache[k].body)'
  BY DEF FreshFeeds, ShowsName
<1> QED BY <1>1, <1>2, <1>3, <1>4 DEF FreshFeeds

(* Such a commit does no harm to the entries without R when R has the      *)
(* triggers of what it changes.                                            *)
LEMMA OnePost ==
  ASSUME Types, Facts, NEW p \in PostId, NEW R, UNCHANGED <<cache, cats, pages, options, lost>>,
         \A q \in PostId \ {p} : posts'[q] = posts[q] /\ post2cat'[q] = post2cat[q],
         \A j \in CommentId : \/ comments'[j] = comments[j]
                              \/ /\ comments[j] = NoRow \/ comments[j].post = p
                                 /\ comments'[j] = NoRow \/ comments'[j].post = p,
         comments' = comments \/ CommentsKey \in R,
         PostKey(p, 0) \in R \/ posts[p] = NoRow,
         AllPosts \in R \/ (NoPostLost =>
            (p \in OpenPosts' => p \in OpenPosts /\ posts'[p].publish = posts[p].publish)),
         \A c \in CatId : CatTrigger(c, 0) \in R \/ (NoPostLost =>
            (p \in OpenIn(c)' => p \in OpenIn(c) /\ post2cat'[p][c].publish = post2cat[p][c].publish))
  PROVE  Harmless(R)
<1> SUFFICES ASSUME NEW k \in Key, Live(k), EntryRecorded(k), EntryFresh(k), cache[k].trig \cap R = {}
             PROVE  EntryFresh(k)'
  BY DEF Harmless
<1>1. /\ cache[k] # NoRow /\ cache'[k] = cache[k] /\ k \in cache[k].trig
      /\ NoPostLost' = NoPostLost /\ NoPageLost' = NoPageLost
  BY DEF Live, EntryRecorded, NoPostLost, NoPageLost
<1>2. FreshOptions(k)' /\ FreshPage(k)'
  BY <1>1, OptionsStay, PageStays DEF EntryFresh
<1>3. FreshPost(k)'
  <2>1. ASSUME NEW q \in PostId, k = PostKey(q, 0), posts[q] # NoRow
        PROVE  /\ posts'[q] # NoRow /\ posts'[q].open = posts[q].open /\ posts'[q].text = posts[q].text
               /\ RowsOf(q)' = RowsOf(q) /\ CategoriesOf(q)' = CategoriesOf(q)
    <3>1. q # p
      BY <1>1, <2>1
    <3>2. posts'[q] = posts[q] /\ post2cat'[q] = post2cat[q]
      BY <3>1
    <3>3. RowsOf(q)' = RowsOf(q)
      BY <3>1, RowsElsewhere
    <3>4. CategoriesOf(q)' = CategoriesOf(q)
      BY <3>2 DEF CategoriesOf, Linked, Existing
    <3> QED BY <2>1, <3>2, <3>3, <3>4
  <2> QED BY <1>1, <2>1, PostStays DEF EntryFresh
<1>4. FreshSide(k)'
  <2>1. \A c \in CatId : CatTrigger(c, 0) \in cache[k].trig /\ NoPostLost' => OpenIn(c)' \subseteq OpenIn(c)
    BY <1>1 DEF OpenIn
  <2> QED BY <1>1, <2>1, SideStays, PagesQueried, CategoriesQueried DEF EntryFresh
<1>5. FreshComments(k)'
  <2>1. CASE k = CommentsKey
    BY <1>1, <2>1, CommentsStay DEF EntryFresh
  <2>2. CASE k # CommentsKey
    BY <2>2 DEF FreshComments
  <2> QED BY <2>1, <2>2
<1>6. FreshFeeds(k)'
  <2>1. k = RssPosts => AllPosts \in cache[k].trig
    BY DEF EntryRecorded
  <2>2. \A c \in CatId : k = RssKey(c, 0) => CatTrigger(c, 0) \in cache[k].trig
    BY DEF EntryRecorded
  <2>3. PostKey(p, 0) \notin cache[k].trig \/ posts[p] = NoRow
    OBVIOUS
  <2> QED BY <1>1, <2>1, <2>2, <2>3, FeedsKept DEF EntryFresh
<1> QED BY <1>2, <1>3, <1>4, <1>5, <1>6 DEF EntryFresh

(* The transaction of another edit is about another post. *)
LEMMA LinksElsewhere ==
  ASSUME Types, TxInv, LinksRead, NEW w \in Workers, Beside(w), Free(w), NEW p \in PostId, LocksPost(w, p),
         \A q \in PostId \ {p} : posts'[q] = posts[q] /\ post2cat'[q] = post2cat[q], UNCHANGED lost
  PROVE  LinksRead'
<1> SUFFICES ASSUME NEW v \in Workers, At(v, "edit", "tx")', posts'[req'[v].post] # NoRow,
                    <<"post", req'[v].post>> \notin lost'
             PROVE  Linked(req[v].post)' \subseteq req'[v].inUse
  BY DEF LinksRead
<1>1. v # w /\ req'[v] = req[v] /\ At(v, "edit", "tx")
  BY DEF Free, Writing, Beside, Reading, ReaderPcs, At
<1>2. req[v].post \in PostId
  BY <1>1 DEF Types, ReqOK, LocalsOK, LocalOK, At
<1>3. LocksPost(v, req[v].post)
  BY <1>1 DEF LocksPost, InTx, At
<1>4. req[v].post # p
  BY <1>1, <1>2, <1>3 DEF TxInv, PostLockExclusive
<1>5. posts'[req[v].post] = posts[req[v].post] /\ post2cat'[req[v].post] = post2cat[req[v].post]
  BY <1>2, <1>4
<1> QED BY <1>1, <1>5 DEF LinksRead, Linked

(***************************************************************************)
(* A commit that changes the post p, its links and its comments, with R    *)
(* for what is risen: R has the triggers of the post, of the feed of       *)
(* comments, and of every list that the post joins or moves in.            *)
(***************************************************************************)
PostChange(p, R) ==
    /\ UNCHANGED <<cats, pages, options, nextId, cache, lost>>
    /\ \A q \in PostId \ {p} : posts'[q] = posts[q] /\ post2cat'[q] = post2cat[q]
    /\ \A j \in CommentId : \/ comments'[j] = comments[j]
                            \/ /\ comments[j] = NoRow \/ comments[j].post = p
                               /\ comments'[j] = NoRow \/ comments'[j].post = p
    /\ comments' = comments \/ CommentsKey \in R
    /\ PostKey(p, 0) \in R \/ posts[p] = NoRow
    /\ AllPosts \in R \/ (NoPostLost =>
          (p \in OpenPosts' => p \in OpenPosts /\ posts'[p].publish = posts[p].publish))
    /\ \A c \in CatId : CatTrigger(c, 0) \in R \/ (NoPostLost =>
          (p \in OpenIn(c)' => p \in OpenIn(c) /\ post2cat'[p][c].publish = post2cat[p][c].publish))

(* The transaction of w is about a post that it holds, and has risen what is due. *)
Settles(w) == /\ req[w].pc = "tx" /\ req[w].rises = {}
              /\ req[w].post \in PostId /\ LocksPost(w, req[w].post)
              /\ PostChange(req[w].post, DueOf(req[w]))

(* Such a commit keeps the invariant. *)
LEMMA PostCommit ==
  ASSUME Types, Facts, TxInv, FreshInv, NEW w \in Workers, Settles(w), Beside(w), Free(w)
  PROVE  FreshInv'
<1> DEFINE p == req[w].post
           R == DueOf(req[w])
<1>1. /\ p \in PostId /\ LocksPost(w, p) /\ PostChange(p, R)
      /\ req[w].pc = "tx" /\ req[w].rises = {}
  BY DEF Settles
<1>2. Harmless(R)
  <2> HIDE DEF p, R
  <2> QED BY <1>1, OnePost DEF PostChange
<1>3. LinksRead'
  <2> HIDE DEF p, R
  <2> QED BY <1>1, LinksElsewhere DEF FreshInv, PostChange
<1>4. FreeIds' /\ UNCHANGED cache
  BY <1>1, IdsStay DEF FreshInv, PostChange
<1> QED BY <1>1, <1>2, <1>3, <1>4, CommitStep

(* The commit of a new post. *)
LEMMA InsertChange ==
  ASSUME Types, TxInv, NEW w \in Workers, PostInsertCommit(w)
  PROVE  Settles(w)
<1> DEFINE r == req[w]
           p == r.post
<1>1. /\ r.op = "insert" /\ r.pc = "tx" /\ r.rises = {} /\ r \in Request /\ p \in PostId
      /\ posts[p] = NoRow /\ LocksPost(w, p) /\ TableOK
  BY DEF PostInsertCommit, At, Types, ReqOK, LocalsOK, LocalOK, TxInv, TxHolds, InsertHolds, LocksPost, InTx
<1>2. /\ UNCHANGED <<comments, cats, pages, options, nextId, cache, lost>>
      /\ posts'[p].open = r.open
      /\ \A c \in CatId : c \notin r.add => post2cat'[p][c] = NoRow
      /\ \A q \in PostId \ {p} : posts'[q] = posts[q] /\ post2cat'[q] = post2cat[q]
  BY <1>1 DEF PostInsertCommit, TableOK
<1>4. DueOf(r) = {CatTrigger(c, 0) : c \in r.add} \cup (IF r.open = 1 THEN {AllPosts} ELSE {})
  BY <1>1 DEF DueOf, InsertRises
<1>5. AllPosts \in DueOf(r) \/ p \notin OpenPosts'
  BY <1>2, <1>4 DEF OpenPosts
<1>6. \A c \in CatId : CatTrigger(c, 0) \in DueOf(r) \/ p \notin OpenIn(c)'
  BY <1>2, <1>4 DEF OpenIn
<1>7. PostChange(p, DueOf(r))
  <2> HIDE DEF r, p
  <2> QED BY <1>1, <1>2, <1>5, <1>6 DEF PostChange
<1> QED BY <1>1, <1>7 DEF Settles

(* The commit of a removal. *)
LEMMA RemoveChange ==
  ASSUME Types, TxInv, NEW w \in Workers, PostRemoveCommit(w)
  PROVE  Settles(w)
<1> DEFINE r == req[w]
           p == r.post
<1>1. /\ r.op = "remove" /\ r.pc = "tx" /\ r.rises = {} /\ r \in Request /\ p \in PostId
      /\ LocksPost(w, p) /\ TableOK
  BY DEF PostRemoveCommit, At, Types, ReqOK, LocalsOK, LocalOK, LocksPost, InTx
<1>2. /\ UNCHANGED <<cats, pages, options, nextId, cache, lost>>
      /\ posts'[p] = NoRow /\ \A c \in CatId : post2cat'[p][c] = NoRow
      /\ \A q \in PostId \ {p} : posts'[q] = posts[q] /\ post2cat'[q] = post2cat[q]
  BY <1>1 DEF PostRemoveCommit, TableOK
<1>3. \A j \in CommentId : \/ comments'[j] = comments[j]
                           \/ comments[j].post = p /\ comments'[j] = NoRow
  BY DEF PostRemoveCommit, CommentsOf
<1>5. DueOf(r) = {CommentsKey, PostKey(p, 0)}
  BY <1>1 DEF DueOf, RemoveRises
<1>6. p \notin OpenPosts' /\ \A c \in CatId : p \notin OpenIn(c)'
  BY <1>2 DEF OpenPosts, OpenIn
<1>7. PostChange(p, DueOf(r))
  <2>1. CommentsKey \in DueOf(r) /\ PostKey(p, 0) \in DueOf(r)
    BY <1>5
  <2> HIDE DEF r, p
  <2> QED BY <1>1, <1>2, <1>3, <1>6, <2>1 DEF PostChange
<1> QED BY <1>1, <1>7 DEF Settles

(* An edit that changes what lists show rises the triggers of the lists:   *)
(* the links it publishes are those the form knew of, unless it is         *)
(* recorded as outdated.                                                   *)
LEMMA EditChange ==
  ASSUME Types, TxInv, LinksRead, NEW w \in Workers, PostEditCommit(w)
  PROVE  Settles(w)
<1> DEFINE r == req[w]
           p == r.post
<1>1. /\ r.op = "edit" /\ r.pc = "tx" /\ r.rises = {} /\ r \in Request /\ p \in PostId
      /\ LocksPost(w, p) /\ TableOK
  BY DEF PostEditCommit, At, Types, ReqOK, LocalsOK, LocalOK, LocksPost, InTx
<1>2. /\ UNCHANGED <<comments, cats, pages, options, nextId, cache, lost>>
      /\ \A q \in PostId \ {p} : posts'[q] = posts[q] /\ post2cat'[q] = post2cat[q]
  BY <1>1 DEF PostEditCommit, TableOK
<1>4. /\ PostKey(p, 0) \in DueOf(r)
      /\ \A c \in r.add : CatTrigger(c, 0) \in DueOf(r)
      /\ r.change = 1 => AllPosts \in DueOf(r) /\ \A c \in r.inUse : CatTrigger(c, 0) \in DueOf(r)
  BY <1>1 DEF DueOf, EditRises
<1>5. r.change \in {0, 1} /\ r.open \in {0, 1}
  BY <1>1 DEF Request, Flag
<1>6. CASE posts[p] = NoRow
  <2>1. UNCHANGED <<posts, post2cat>>
    BY <1>6 DEF PostEditCommit
  <2>2. OpenPosts' = OpenPosts /\ \A c \in CatId : OpenIn(c)' = OpenIn(c)
    BY <2>1 DEF OpenPosts, OpenIn
  <2>3. PostChange(p, DueOf(r))
    <3> HIDE DEF r, p
    <3> QED BY <1>1, <1>2, <1>4, <2>1, <2>2 DEF PostChange
  <2> QED BY <1>1, <2>3 DEF Settles
<1>7. CASE posts[p] # NoRow
  <2>1. /\ posts' = [posts EXCEPT ![p] = EditedPost(r)]
        /\ post2cat' = [post2cat EXCEPT ![p] = [c \in CatId |-> EditedLink(r, c)]]
    BY <1>7 DEF PostEditCommit
  <2>2. posts[p] \in Post
    BY <1>1, <1>7 DEF TableOK
  <2>3. posts'[p] = EditedPost(r) /\ \A c \in CatId : post2cat'[p][c] = EditedLink(r, c)
    BY <1>1, <2>1 DEF TableOK
  <2>4. AllPosts \in DueOf(r) \/ (NoPostLost =>
            (p \in OpenPosts' => p \in OpenPosts /\ posts'[p].publish = posts[p].publish))
    <3> SUFFICES ASSUME r.change = 0, NoPostLost, p \in OpenPosts'
                 PROVE  p \in OpenPosts /\ posts'[p].publish = posts[p].publish
      BY <1>4, <1>5
    <3>1. posts'[p].open = r.open /\ posts'[p].publish = posts[p].publish
      BY <2>2, <2>3 DEF EditedPost, Publishing, Post
    <3>2. r.open = 1
      BY <3>1 DEF OpenPosts
    <3>3. posts[p].open = 1
      <4>1. At(w, "edit", "tx") /\ <<"post", p>> \notin lost
        BY <1>1 DEF NoPostLost, At
      <4>2. EditHolds(w)
        BY DEF TxInv, TxHolds
      <4>3. WasOpen(r) = posts[p].open
        BY <1>7, <4>1, <4>2 DEF EditHolds
      <4>4. WasOpen(r) = r.open
        BY DEF WasOpen, Flipped
      <4> QED BY <3>2, <4>3, <4>4
    <3> QED BY <1>7, <3>1, <3>3 DEF OpenPosts
  <2>5. ASSUME NEW c \in CatId, CatTrigger(c, 0) \notin DueOf(r), NoPostLost, p \in OpenIn(c)'
        PROVE  p \in OpenIn(c) /\ post2cat'[p][c].publish = post2cat[p][c].publish
    <3>1. c \notin r.add
      BY <1>4, <2>5
    <3>2. post2cat'[p][c] # NoRow /\ post2cat'[p][c].open = 1
      BY <2>5 DEF OpenIn
    <3>3. post2cat[p][c] # NoRow
      BY <2>3, <3>1, <3>2 DEF EditedLink
    <3>4. c \in Linked(p)
      BY <3>3 DEF Linked
    <3>5. Linked(p) \subseteq r.inUse
      BY <1>1, <1>7, <2>5 DEF LinksRead, At, NoPostLost
    <3>6. r.change = 0
      BY <1>4, <1>5, <2>5, <3>4, <3>5
    <3>7. /\ post2cat'[p][c].open = post2cat[p][c].open
          /\ post2cat'[p][c].publish = post2cat[p][c].publish
      <4>1. c \notin r.del
        BY <2>3, <3>2 DEF EditedLink
      <4>2. EditedLink(r, c) = [open |-> post2cat[p][c].open, publish |-> post2cat[p][c].publish]
        BY <3>1, <3>3, <3>6, <4>1 DEF EditedLink, Publishing
      <4> QED BY <2>3, <4>2
    <3> QED BY <1>1, <3>2, <3>3, <3>7 DEF OpenIn
  <2>6. PostChange(p, DueOf(r))
    <3> HIDE DEF r, p
    <3> QED BY <1>1, <1>2, <1>4, <2>4, <2>5 DEF PostChange
  <2> QED BY <1>1, <2>6 DEF Settles
<1> QED BY <1>6, <1>7

(* The comments. *)
LEMMA CountedChange ==
  ASSUME Types, TxInv, NEW w \in Workers, SendCommit(w) \/ EraseCommit(w)
  PROVE  Settles(w)
<1> DEFINE r == req[w]
           p == r.post
           j == r.comment
<1>1. /\ r.op \in {"send", "erase"} /\ r.pc = "tx" /\ r.rises = {} /\ r \in Request /\ p \in PostId
      /\ j \in CommentId /\ LocksPost(w, p) /\ TableOK
  BY DEF SendCommit, EraseCommit, At, Types, ReqOK, LocalsOK, LocalOK, LocksPost, InTx
<1>2. UNCHANGED <<post2cat, cats, pages, options, nextId, cache, lost>>
  BY DEF SendCommit, EraseCommit
<1>4. CommentsKey \in DueOf(r) /\ PostKey(p, 0) \in DueOf(r)
  BY <1>1 DEF DueOf, SendRises, CommentRises
<1>5. /\ \A i \in CommentId \ {j} : comments'[i] = comments[i]
      /\ comments[j] = NoRow \/ comments[j].post = p
      /\ comments'[j] = NoRow \/ comments'[j].post = p
  <2>1. CASE SendCommit(w)
    <3>1. At(w, "send", "tx") /\ comments' = [comments EXCEPT ![j] = [post |-> p, text |-> r.text]]
      BY <2>1 DEF SendCommit
    <3>2. comments[j] = NoRow
      BY <3>1 DEF TxInv, TxHolds, SendHolds
    <3> HIDE DEF r, p, j
    <3>3. /\ comments'[j] = [post |-> p, text |-> r.text]
          /\ \A i \in CommentId \ {j} : comments'[i] = comments[i]
      BY <1>1, <3>1 DEF TableOK
    <3> QED BY <3>2, <3>3
  <2>2. CASE EraseCommit(w)
    <3>1. At(w, "erase", "tx") /\ comments' = [comments EXCEPT ![j] = NoRow]
      BY <2>2 DEF EraseCommit
    <3>2. comments[j] = NoRow \/ comments[j].post = p
      BY <3>1 DEF TxInv, TxHolds, CommentHolds, At
    <3> HIDE DEF r, p, j
    <3> QED BY <1>1, <3>1, <3>2 DEF TableOK
  <2> QED BY <2>1, <2>2
<1>6. /\ \A q \in PostId \ {p} : posts'[q] = posts[q]
      /\ p \in OpenPosts' => p \in OpenPosts /\ posts'[p].publish = posts[p].publish
  <2> DEFINE n == Recount(p, comments')
  <2>1. posts' = posts \/ (posts[p] # NoRow /\ posts' = [posts EXCEPT ![p].count = n])
    <3>1. CASE SendCommit(w)
      <4>1. posts' = [posts EXCEPT ![p].count = n] /\ At(w, "send", "tx")
        BY <3>1 DEF SendCommit
      <4>2. posts[p] # NoRow
        BY <4>1 DEF TxInv, TxHolds, SendHolds
      <4> QED BY <4>1, <4>2
    <3>2. CASE EraseCommit(w)
      BY <3>2 DEF EraseCommit
    <3> QED BY <3>1, <3>2
  <2> HIDE DEF r, p, n
  <2>2. CASE posts' = posts
    BY <2>2 DEF OpenPosts
  <2>3. CASE posts[p] # NoRow /\ posts' = [posts EXCEPT ![p].count = n]
    <3>2. posts[p] \in Post
      BY <1>1, <2>3 DEF TableOK
    <3>3. posts'[p].open = posts[p].open /\ posts'[p].publish = posts[p].publish
      BY <1>1, <2>3, <3>2 DEF TableOK, Post
    <3>4. \A q \in PostId \ {p} : posts'[q] = posts[q]
      BY <1>1, <2>3 DEF TableOK
    <3> QED BY <2>3, <3>3, <3>4 DEF OpenPosts
  <2> QED BY <2>1, <2>2, <2>3
<1>7. \A c \in CatId : OpenIn(c)' = OpenIn(c)
  BY <1>2, CountsQueried
<1>8. PostChange(p, DueOf(r))
  <2> HIDE DEF r, p, j
  <2> QED BY <1>1, <1>2, <1>4, <1>5, <1>6, <1>7 DEF PostChange
<1> QED BY <1>1, <1>8 DEF Settles

(* So these commits keep the invariant. *)
LEMMA SettledFresh ==
  ASSUME Types, Facts, TxInv, FreshInv, NEW w \in Workers,
         \/ PostInsertCommit(w) \/ PostRemoveCommit(w) \/ PostEditCommit(w)
         \/ SendCommit(w) \/ EraseCommit(w)
  PROVE  FreshInv'
<1>1. Settles(w)
  BY InsertChange, RemoveChange, EditChange, CountedChange DEF FreshInv
<1>2. Beside(w) /\ Free(w)
  BY FinishFree, AdminFree, BeginFree
  DEF PostInsertCommit, PostRemoveCommit, PostEditCommit, SendCommit, EraseCommit, Starts, PostViews
<1> QED BY <1>1, <1>2, PostCommit

(* The commit of a changed comment. *)
LEMMA AmendFresh ==
  ASSUME Types, Facts, TxInv, FreshInv, NEW w \in Workers, AmendCommit(w)
  PROVE  FreshInv'
<1> DEFINE r == req[w]
           p == r.post
           j == r.comment
<1>1. /\ r.op = "amend" /\ r.pc = "tx" /\ r.rises = {} /\ r \in Request /\ p \in PostId
      /\ j \in CommentId /\ TableOK
  BY DEF AmendCommit, At, Types, ReqOK, LocalsOK, LocalOK
<1>2. UNCHANGED <<posts, post2cat, cats, pages, options, nextId, cache, lost>>
  BY DEF AmendCommit
<1>3. Beside(w) /\ Free(w)
  BY FinishFree DEF AmendCommit
<1>4. CommentsKey \in DueOf(r) /\ PostKey(p, 0) \in DueOf(r)
  BY <1>1 DEF DueOf, CommentRises
<1>5. /\ \A i \in CommentId \ {j} : comments'[i] = comments[i]
      /\ comments[j] = NoRow \/ comments[j].post = p
      /\ comments'[j] = NoRow \/ comments'[j].post = p
  <2>1. comments[j] # NoRow => comments[j].post = p /\ comments[j] \in Comment
    BY <1>1 DEF TxInv, TxHolds, CommentHolds, TableOK
  <2>2. \/ comments[j] = NoRow /\ comments' = comments
        \/ comments[j] # NoRow /\ comments' = [comments EXCEPT ![j].text = r.text]
    BY DEF AmendCommit
  <2> QED BY <1>1, <2>1, <2>2 DEF TableOK, Comment
<1>6. OpenPosts' = OpenPosts /\ \A c \in CatId : OpenIn(c)' = OpenIn(c)
  BY <1>2 DEF OpenPosts, OpenIn
<1>7. Harmless(DueOf(r))
  <2> HIDE DEF r, p, j
  <2> QED BY <1>1, <1>2, <1>4, <1>5, <1>6, OnePost
<1>8. LinksRead'
  <2>1. ~At(w, "edit", "tx")'
    BY <1>3 DEF Free, Writing, At
  <2> QED BY <1>2, <1>3, <2>1, LinksStay DEF FreshInv
<1>9. FreeIds'
  BY <1>2, IdsStay DEF FreshInv
<1> QED BY <1>1, <1>2, <1>3, <1>7, <1>8, <1>9, CommitStep

(* The options: every entry that shows them has the trigger. *)
LEMMA OptionsFreshStep ==
  ASSUME Types, FreshInv, NEW w \in Workers, OptionsCommit(w)
  PROVE  FreshInv'
<1>1. /\ req[w].op = "options" /\ req[w].pc = "tx" /\ req[w].rises = {}
      /\ UNCHANGED <<posts, post2cat, comments, cats, pages, nextId, cache, lost>>
  BY DEF OptionsCommit, At
<1>2. Beside(w) /\ Free(w)
  BY AdminFree DEF OptionsCommit
<1>3. DueOf(req[w]) = {OptionsKey}
  BY <1>1 DEF DueOf
<1>4. Harmless(DueOf(req[w]))
  <2> SUFFICES ASSUME NEW k \in Key, Live(k), EntryRecorded(k), EntryFresh(k),
                      cache[k].trig \cap DueOf(req[w]) = {}
               PROVE  EntryFresh(k)'
    BY DEF Harmless
  <2>1. k = SidebarInfo /\ cache[k].side.options = NoRow
    BY <1>3 DEF EntryRecorded
  <2>2. cache[k] # NoRow /\ cache'[k] = cache[k] /\ lost \subseteq lost'
    BY <1>1 DEF Live
  <2>3. FreshOptions(k)'
    BY <2>1, <2>2 DEF FreshOptions
  <2>4. FreshPost(k)' /\ FreshPage(k)'
    BY <1>1, <2>2, PostStays, PageStays, CommentsQueried, LinksQueried DEF EntryFresh
  <2>5. FreshSide(k)'
    BY <1>1, <2>2, SideStays, PagesQueried, CategoriesQueried, CountsQueried DEF EntryFresh
  <2>6. FreshComments(k)' /\ FreshFeeds(k)'
    BY <1>1, <2>2, CommentsStay, FeedsStay DEF EntryFresh
  <2> QED BY <2>3, <2>4, <2>5, <2>6 DEF EntryFresh
<1>5. LinksRead'
  <2>1. ~At(w, "edit", "tx")'
    BY <1>2 DEF Free, Writing, At
  <2> QED BY <1>1, <1>2, <2>1, LinksStay DEF FreshInv
<1>6. FreeIds'
  BY <1>1, IdsStay DEF FreshInv
<1> QED BY <1>1, <1>2, <1>4, <1>5, <1>6, CommitStep

-----------------------------------------------------------------------------
(* Categories: the rises follow the commit.                                *)

(* A commit that changes the category c, and at most takes links to it away. *)
CategoryChange(c, R) ==
    /\ UNCHANGED <<posts, comments, pages, options, cache, lost>>
    /\ \A d \in CatId \ {c} : /\ cats'[d] = cats[d]
                              /\ \A p \in PostId : post2cat'[p][d] = post2cat[p][d]
    /\ \A p \in PostId : Linked(p)' \subseteq Linked(p)
    /\ CatsTrigger \in R
    /\ CatTrigger(c, 0) \in R \/ cats[c] = NoRow

(* It does no harm to entries without its triggers. *)
LEMMA OneCategory ==
  ASSUME Types, NEW c \in CatId, NEW R, CategoryChange(c, R)
  PROVE  Harmless(R)
<1> USE DEF CategoryChange
<1> SUFFICES ASSUME NEW k \in Key, Live(k), EntryRecorded(k), EntryFresh(k), cache[k].trig \cap R = {}
             PROVE  EntryFresh(k)'
  BY DEF Harmless
<1>1. cache[k] # NoRow /\ cache'[k] = cache[k] /\ NoPostLost' = NoPostLost
  BY DEF Live, NoPostLost
<1>2. k \notin WithSidebar
  BY DEF EntryRecorded, SideRecorded
<1>3. \A p \in PostId : k # PostKey(p, 0)
  BY <1>2, SpellingAssumption DEF WithSidebar
<1>4. FreshOptions(k)' /\ FreshPage(k)' /\ FreshComments(k)'
  BY <1>1, OptionsStay, PageStays, CommentsStay DEF EntryFresh
<1>5. FreshPost(k)' /\ FreshSide(k)'
  BY <1>2, <1>3 DEF FreshPost, FreshSide
<1>6. PostFeeds' = PostFeeds
  BY DEF PostFeeds, RecentPosts, Newest, PostRows, OpenPosts, PublishOf
<1>7. ASSUME NEW d \in CatId, k = RssKey(d, 0)
      PROVE  (ShowsName(d, cache[k].body) /\ (NoPostLost => cache[k].body.posts \in CatFeeds(d)))'
  <2>1. ShowsName(d, cache[k].body) /\ (NoPostLost => cache[k].body.posts \in CatFeeds(d))
    BY <1>7 DEF EntryFresh, FreshFeeds
  <2>2. CatTrigger(d, 0) \in cache[k].trig
    BY <1>7 DEF EntryRecorded
  <2>3. d # c
    BY <2>1, <2>2 DEF ShowsName
  <2>4. cats'[d] = cats[d] /\ \A p \in PostId : post2cat'[p][d] = post2cat[p][d]
    BY <2>3
  <2>5. OpenIn(d)' = OpenIn(d) /\ OpenIn(d) \subseteq PostId
    BY <2>4 DEF OpenIn
  <2>6. RecentIn(d)' = RecentIn(d)
    <3> DEFINE D(p) == post2cat[p][d].publish
    <3>1. RecentIn(d)' =
            {T \in SUBSET OpenIn(d) :
               /\ Cardinality(T) <= FeedLimit
               /\ Cardinality(T) = FeedLimit \/ T = OpenIn(d)
               /\ \A x \in T, y \in OpenIn(d) \ T : D(x)' >= D(y)'}
      BY <2>5 DEF RecentIn, Newest
    <3>2. \A x \in OpenIn(d) : D(x)' = D(x)
      BY <2>4, <2>5
    <3>3. RecentIn(d) =
            {T \in SUBSET OpenIn(d) :
               /\ Cardinality(T) <= FeedLimit
               /\ Cardinality(T) = FeedLimit \/ T = OpenIn(d)
               /\ \A x \in T, y \in OpenIn(d) \ T : D(x) >= D(y)}
      BY DEF RecentIn, Newest
    <3> QED BY <3>1, <3>2, <3>3
  <2>7. CatFeeds(d)' = CatFeeds(d)
    BY <2>6 DEF CatFeeds, PostRows
  <2> QED BY <1>1, <2>1, <2>4, <2>7 DEF ShowsName
<1>8. FreshFeeds(k)'
  BY <1>1, <1>6, <1>7 DEF EntryFresh, FreshFeeds
<1> QED BY <1>4, <1>5, <1>8 DEF EntryFresh

(* Fewer links are still among those of the form. *)
LEMMA LinksFall ==
  ASSUME Types, LinksRead, NEW w \in Workers, Beside(w), UNCHANGED posts, lost \subseteq lost',
         \A p \in PostId : Linked(p)' \subseteq Linked(p), ~At(w, "edit", "tx")'
  PROVE  LinksRead'
<1> SUFFICES ASSUME NEW v \in Workers, At(v, "edit", "tx")', posts'[req'[v].post] # NoRow,
                    <<"post", req'[v].post>> \notin lost'
             PROVE  Linked(req[v].post)' \subseteq req'[v].inUse
  BY DEF LinksRead
<1>1. v # w /\ req'[v] = req[v]
  BY DEF Beside, Reading, ReaderPcs, At
<1>2. Linked(req[v].post) \subseteq req[v].inUse
  BY <1>1 DEF LinksRead, At
<1>3. req[v].post \in PostId
  BY <1>1 DEF Types, ReqOK, LocalsOK, LocalOK, At
<1>4. Linked(req[v].post)' \subseteq Linked(req[v].post)
  BY <1>1, <1>3 DEF Linked
<1> QED BY <1>1, <1>2, <1>4

(* The request after the commit of a category or a page. *)
LEMMA AfterFields ==
  ASSUME Types, NEW w \in Workers, NEW op, NEW rises, AfterCommit(w, op, rises)
  PROVE  \E r : EnterWrite(w, r) /\ r.pc = "after" /\ r.op = op /\ r.rises = rises
<1> DEFINE r == [req[w] EXCEPT !.op = op, !.pc = "after", !.rises = rises]
<1>1. EnterWrite(w, r)
  BY DEF AfterCommit
<1>2. r.pc = "after" /\ r.op = op /\ r.rises = rises
  BY DEF Types, ReqOK, Request
<1> HIDE DEF r
<1> QED BY <1>1, <1>2

(* A commit of a category, with the rises that follow. *)
LEMMA CategoryCommit ==
  ASSUME Types, FreshInv, NEW w \in Workers, NEW c \in CatId, NEW R,
         AfterCommit(w, "form", R), req[w].pc # "after", CategoryChange(c, R), FreeIds'
  PROVE  FreshInv'
<1>1. Harmless(R) /\ UNCHANGED cache
  BY OneCategory DEF CategoryChange
<1>2. PICK r : EnterWrite(w, r) /\ r.pc = "after" /\ r.op = "form" /\ r.rises = R
  BY AfterFields
<1>3. Beside(w) /\ req'[w] = r
  BY <1>2, BesideEnter
<1>4. LinksRead'
  BY <1>2, <1>3, LinksFall DEF FreshInv, At, CategoryChange
<1> QED BY <1>1, <1>2, <1>4, AfterStep

(* A new, a renamed and a removed category. *)
LEMMA CategoryCommits ==
  ASSUME Types, FreshInv, NEW w \in Workers, CatAdd(w) \/ CatRename(w) \/ CatDelete(w)
  PROVE  /\ req[w].pc # "after"
         /\ \/ Finish(w) /\ UNCHANGED <<db, cache, lost>>
            \/ \E c \in CatId : \E R :
                 AfterCommit(w, "form", R) /\ CategoryChange(c, R) /\ FreeIds'
<1>1. req[w].pc # "after"
  <2>1. IsIdle(w) => req[w].pc # "after"
    BY DEF FreshInv, AfterOps, IsIdle
  <2> QED BY <2>1 DEF CatAdd, CatRename, CatDelete, At
<1>2. TableOK /\ FreeIds
  BY DEF Types, FreshInv
<1>3. CASE CatAdd(w)
  <2> DEFINE c == nextId.cat
  <2>1. PICK name \in Texts : cats' = [cats EXCEPT ![c] = name]
    BY <1>3 DEF CatAdd
  <2>2. /\ c <= MaxCat /\ nextId' = [nextId EXCEPT !.cat = @ + 1]
        /\ AfterCommit(w, "form", {CatsTrigger})
        /\ UNCHANGED <<posts, post2cat, comments, pages, options, cache, lost>>
    BY <1>3 DEF CatAdd
  <2>3. c \in CatId /\ nextId \in NextIds
    BY <1>2, <2>2, IdAssumption DEF TableOK, NextIds, CatId
  <2>4. cats[c] = NoRow
    BY <1>2, <2>3 DEF FreeIds, NextIds
  <2>5. nextId'.cat = c + 1 /\ nextId'.page = nextId.page
    BY <2>2, <2>3 DEF NextIds
  <2>6. c \in Nat
    BY <2>3 DEF NextIds
  <2> HIDE DEF c
  <2>7. \A d \in CatId \ {c} : cats'[d] = cats[d]
    BY <1>2, <2>1 DEF TableOK
  <2>8. FreeIds'
    <3>1. \A d \in CatId : d >= c + 1 => cats'[d] = NoRow
      <4> SUFFICES ASSUME NEW d \in CatId, d >= c + 1 PROVE cats'[d] = NoRow
        OBVIOUS
      <4>1. d # c /\ d >= c
        BY <2>6 DEF CatId
      <4> QED BY <1>2, <2>7, <4>1 DEF FreeIds, c
    <3> QED BY <1>2, <2>2, <2>5, <3>1 DEF FreeIds
  <2>9. \A p : Linked(p)' = Linked(p)
    BY <2>2 DEF Linked
  <2> QED BY <1>1, <2>2, <2>3, <2>4, <2>7, <2>8, <2>9 DEF CategoryChange
<1>4. CASE CatRename(w)
  <2>1. PICK c \in CatId, name \in Texts :
          /\ cats' = [cats EXCEPT ![c] = IF cats[c] = NoRow THEN NoRow ELSE name]
          /\ AfterCommit(w, "form", CatRises(c))
    BY <1>4 DEF CatRename
  <2>2. UNCHANGED <<posts, post2cat, comments, pages, options, nextId, cache, lost>>
    BY <1>4 DEF CatRename
  <2>3. /\ \A d \in CatId \ {c} : cats'[d] = cats[d]
        /\ cats[c] = NoRow => cats'[c] = NoRow
    BY <1>2, <2>1 DEF TableOK
  <2>4. FreeIds'
    BY <1>2, <2>2, <2>3 DEF FreeIds
  <2>5. \A p : Linked(p)' = Linked(p)
    BY <2>2 DEF Linked
  <2>6. CatsTrigger \in CatRises(c) /\ CatTrigger(c, 0) \in CatRises(c)
    BY DEF CatRises
  <2> QED BY <1>1, <2>1, <2>2, <2>3, <2>4, <2>5, <2>6 DEF CategoryChange
<1>5. CASE CatDelete(w)
  <2> DEFINE c == req[w].id
  <2>1. UNCHANGED <<posts, comments, pages, options, nextId, cache, lost>>
    BY <1>5 DEF CatDelete
  <2>2. c \in CatId
    BY <1>5 DEF CatDelete, At, Types, ReqOK, LocalsOK, LocalOK
  <2>3. \/ Finish(w) /\ UNCHANGED <<cats, post2cat>>
        \/ /\ cats' = [cats EXCEPT ![c] = NoRow]
           /\ post2cat' = [p \in PostId |-> [post2cat[p] EXCEPT ![c] = NoRow]]
           /\ AfterCommit(w, "form", CatRises(c))
    BY <1>5 DEF CatDelete
  <2> HIDE DEF c
  <2>4. CASE Finish(w) /\ UNCHANGED <<cats, post2cat>>
    BY <1>1, <2>1, <2>4 DEF db
  <2>5. CASE /\ cats' = [cats EXCEPT ![c] = NoRow]
             /\ post2cat' = [p \in PostId |-> [post2cat[p] EXCEPT ![c] = NoRow]]
             /\ AfterCommit(w, "form", CatRises(c))
    <3>1. \A p \in PostId : post2cat[p] \in [CatId -> Link \cup {NoRow}]
      BY <1>2 DEF TableOK
    <3>2. \A p \in PostId : /\ \A d \in CatId \ {c} : post2cat'[p][d] = post2cat[p][d]
                            /\ post2cat'[p][c] = NoRow
      BY <2>2, <2>5, <3>1
    <3>3. \A d \in CatId \ {c} : cats'[d] = cats[d]
      BY <1>2, <2>5 DEF TableOK
    <3>4. cats'[c] = NoRow
      BY <1>2, <2>2, <2>5 DEF TableOK
    <3>5. FreeIds'
      BY <1>2, <2>1, <3>3, <3>4 DEF FreeIds
    <3>6. \A p \in PostId : Linked(p)' \subseteq Linked(p)
      BY <3>2 DEF Linked
    <3>7. CatsTrigger \in CatRises(c) /\ CatTrigger(c, 0) \in CatRises(c)
      BY DEF CatRises
    <3> QED BY <1>1, <2>1, <2>2, <2>5, <3>2, <3>3, <3>5, <3>6, <3>7 DEF CategoryChange
  <2> QED BY <2>3, <2>4, <2>5
<1> QED BY <1>3, <1>4, <1>5

(* So these commits keep the invariant. *)
LEMMA CategoryFresh ==
  ASSUME Types, FreshInv, NEW w \in Workers, CatAdd(w) \/ CatRename(w) \/ CatDelete(w)
  PROVE  FreshInv'
<1>1. CASE Finish(w) /\ UNCHANGED <<db, cache, lost>>
  <2>1. UNCHANGED <<Shown, lost>> /\ UNCHANGED nextId /\ UNCHANGED cache
    BY <1>1 DEF Shown, db
  <2> QED BY <1>1, <2>1, CategoryCommits, FinishFree, SameShrinks, FreeStep
<1> QED BY <1>1, CategoryCommits, CategoryCommit

-----------------------------------------------------------------------------
(* Pages: the rises follow the statement, if there are any.                *)

(* Every entry that shows pages has the trigger of their list. *)
LEMMA PagesRisen ==
  ASSUME Types, NEW R, UNCHANGED <<cache, posts, post2cat, comments, cats, options>>,
         lost \subseteq lost', PagesTrigger \in R
  PROVE  Harmless(R)
<1> SUFFICES ASSUME NEW k \in Key, Live(k), EntryRecorded(k), EntryFresh(k), cache[k].trig \cap R = {}
             PROVE  EntryFresh(k)'
  BY DEF Harmless
<1>1. cache[k] # NoRow /\ cache'[k] = cache[k]
  BY DEF Live
<1>2. k \notin WithSidebar
  BY DEF EntryRecorded, SideRecorded
<1>3. (\A p \in PostId : k # PostKey(p, 0)) /\ \A i \in PageId : k # PageKey(i, 0)
  BY <1>2, SpellingAssumption DEF WithSidebar
<1>4. FreshOptions(k)' /\ FreshComments(k)' /\ FreshFeeds(k)'
  BY <1>1, OptionsStay, CommentsStay, FeedsStay DEF EntryFresh
<1>5. FreshPost(k)' /\ FreshSide(k)' /\ FreshPage(k)'
  BY <1>2, <1>3 DEF FreshPost, FreshSide, FreshPage
<1> QED BY <1>4, <1>5 DEF EntryFresh

(* A change of a page that visitors see, or saw. *)
LEMMA PageCommit ==
  ASSUME Types, FreshInv, NEW w \in Workers, NEW op \in {"form", "page"}, NEW R,
         AfterCommit(w, op, R), req[w].pc # "after", PagesTrigger \in R,
         UNCHANGED <<cache, posts, post2cat, comments, cats, options>>,
         lost \subseteq lost', FreeIds'
  PROVE  FreshInv'
<1>1. Harmless(R)
  BY PagesRisen
<1>2. PICK r : EnterWrite(w, r) /\ r.pc = "after" /\ r.op = op /\ r.rises = R
  BY AfterFields
<1>3. Beside(w) /\ req'[w] = r
  BY <1>2, BesideEnter
<1>4. LinksRead'
  BY <1>2, <1>3, LinksStay DEF FreshInv, At
<1> QED BY <1>1, <1>2, <1>4, AfterStep

(* A page that nobody can see, before and after, unless its status was     *)
(* not the one that the handler had read.                                  *)
Hidden(i) == pages[i] = NoRow \/ pages[i].open = 0

(* Then no list of pages and no page that visitors see changes. *)
LEMMA UnseenChange ==
  ASSUME NEW i \in PageId, \A j \in PageId \ {i} : pages'[j] = pages[j], lost \subseteq lost',
         <<"page", i>> \notin lost' => Hidden(i) /\ Hidden(i)'
  PROVE  /\ NoPageLost' => OpenPages' = OpenPages
         /\ \A j \in PageId : \A b : ShowsPage(j, b) => ShowsPage(j, b)'
<1>1. ASSUME NoPageLost' PROVE OpenPages' = OpenPages
  <2> DEFINE S == {j \in PageId : pages[j] # NoRow /\ pages[j].open = 1}
  <2>1. Hidden(i) /\ Hidden(i)'
    BY <1>1 DEF NoPageLost
  <2>2. i \notin S /\ i \notin S'
    BY <2>1 DEF Hidden
  <2>3. S' = S /\ \A j \in S : pages'[j] = pages[j]
    BY <2>2
  <2> HIDE DEF S
  <2>4. OpenPages = {<<j, pages[j].text>> : j \in S} /\ OpenPages' = {<<j, pages'[j].text>> : j \in S'}
    BY DEF OpenPages, S
  <2> QED BY <2>3, <2>4
<1>2. ASSUME NEW j \in PageId, NEW b, ShowsPage(j, b) PROVE ShowsPage(j, b)'
  BY <1>2 DEF ShowsPage, Hidden
<1> QED BY <1>1, <1>2

(* Such a change needs no rise, and clean responses may go on. *)
LEMMA UnseenStep ==
  ASSUME Types, FreshInv, NEW w \in Workers, Beside(w), Free(w), req[w].pc # "after",
         UNCHANGED <<cache, posts, post2cat, comments, cats, options>>, FreeIds',
         NEW i \in PageId, \A j \in PageId \ {i} : pages'[j] = pages[j], lost \subseteq lost',
         <<"page", i>> \notin lost' => Hidden(i) /\ Hidden(i)'
  PROVE  FreshInv'
<1>1. Shrinks /\ req'[w].pc # "tx"
  BY SameShrinks DEF Free, Writing
<1>2. CleanAlone' /\ RisenGone' /\ AfterOps'
  BY <1>1, AloneStays, RisenStays, AfterStays DEF FreshInv, Free, Writing
<1>3. LinksRead'
  BY <1>1, LinksStay DEF FreshInv, At
<1>4. /\ NoPageLost' => OpenPages' = OpenPages
      /\ \A j \in PageId : \A b : ShowsPage(j, b) => ShowsPage(j, b)'
  BY UnseenChange
<1>5. ASSUME NEW k \in Key, Live(k)'
      PROVE  (EntryRecorded(k) /\ (Overdue(k) \/ EntryFresh(k)))'
  <2>1. Live(k) /\ cache'[k] = cache[k] /\ cache[k] # NoRow
    BY <1>5 DEF Live
  <2>2. EntryRecorded(k) /\ (Overdue(k) \/ EntryFresh(k))
    BY <2>1 DEF FreshInv, CacheFresh
  <2>3. ASSUME EntryFresh(k) PROVE EntryFresh(k)'
    <3>1. FreshOptions(k)' /\ FreshComments(k)' /\ FreshFeeds(k)'
      BY <2>1, <2>3, OptionsStay, CommentsStay, FeedsStay DEF EntryFresh
    <3>2. FreshPost(k)'
      BY <2>1, <2>3, PostStays, CommentsQueried, LinksQueried DEF EntryFresh
    <3>3. FreshPage(k)'
      BY <1>4, <2>1, <2>3 DEF EntryFresh, FreshPage
    <3>4. FreshSide(k)'
      BY <1>4, <2>1, <2>2, <2>3, SideStays, CategoriesQueried, CountsQueried DEF EntryFresh
    <3> QED BY <3>1, <3>2, <3>3, <3>4 DEF EntryFresh
  <2> QED BY <2>1, <2>2, <2>3, RecordStays, OverdueStays
<1>6. ASSUME NEW v \in Workers PROVE ReaderFresh(v)'
  <2>1. CASE v = w
    BY <2>1 DEF Free
  <2>2. CASE v # w
    <3> SUFFICES ASSUME CleanReader(v)'
                 PROVE  (OptionsRead(req[v]) /\ BodyRead(req[v]) /\ FeedRead(req[v]) /\ SideRead(req[v]))'
      BY DEF ReaderFresh
    <3>1. req'[v] = req[v] /\ CleanReader(v)
      BY <2>2 DEF Beside, CleanReader, Reading
    <3>2. OptionsRead(req[v]) /\ BodyRead(req[v]) /\ FeedRead(req[v]) /\ SideRead(req[v])
      BY <3>1 DEF FreshInv, ReaderFresh
    <3>3. req[v].op = "display_page" => req[v].id \in PageId
      BY DEF Types, ReqOK, LocalsOK, LocalOK, PageViews
    <3>4. OptionsRead(req[v])'
      BY <3>1, <3>2 DEF OptionsRead, HasOptions
    <3>5. BodyRead(req[v])'
      BY <1>4, <3>1, <3>2, <3>3, CommentsQueried, LinksQueried DEF BodyRead, ShowsRow
    <3>6. FeedRead(req[v])'
      BY <3>1, <3>2, PostsQueried, LostGrows DEF FeedRead, ShowsName
    <3>7. SideRead(req[v])'
      BY <1>4, <3>1, <3>2, CategoriesQueried, CountsQueried, LostGrows DEF SideRead, ShowsPages, ShowsCats
    <3> QED BY <3>4, <3>5, <3>6, <3>7
  <2> QED BY <2>1, <2>2
<1> QED BY <1>2, <1>3, <1>5, <1>6 DEF FreshInv, CacheFresh

(* A new, a changed and a removed page. *)
LEMMA PageChangeFresh ==
  ASSUME Types, FreshInv, NEW w \in Workers, PageInsert(w) \/ PageDelete(w) \/ PageUpdate(w)
  PROVE  FreshInv'
<1>1. req[w].pc # "after"
  <2>1. IsIdle(w) => req[w].pc # "after"
    BY DEF FreshInv, AfterOps, IsIdle
  <2> QED BY <2>1 DEF PageInsert, PageDelete, PageUpdate, At
<1>2. TableOK /\ FreeIds
  BY DEF Types, FreshInv
<1>3. UNCHANGED <<cache, posts, post2cat, comments, cats, options>> /\ lost \subseteq lost'
  BY DEF PageInsert, PageDelete, PageUpdate, PageLost
<1>4. CASE PageInsert(w)
  <2>i. PICK i : i = nextId.page
    OBVIOUS
  <2>1. PICK t \in Texts, open \in Flag :
          /\ pages' = [pages EXCEPT ![i] = [text |-> t, open |-> open]]
          /\ IF open = 1 THEN AfterCommit(w, "page", {PagesTrigger}) ELSE RenderAdmin(w) \/ Finish(w)
    BY <1>4, <2>i DEF PageInsert
  <2>2. i <= MaxPage /\ nextId' = [nextId EXCEPT !.page = @ + 1]
    BY <1>4, <2>i DEF PageInsert
  <2>3. i \in PageId /\ nextId \in NextIds
    BY <1>2, <2>i, <2>2, IdAssumption DEF TableOK, NextIds, PageId
  <2>4. pages[i] = NoRow /\ i \in Nat
    BY <1>2, <2>i, <2>3 DEF FreeIds, NextIds
  <2>5. nextId'.page = i + 1 /\ nextId'.cat = nextId.cat
    BY <2>i, <2>2, <2>3 DEF NextIds
  <2>6. pages'[i].open = open /\ \A j \in PageId \ {i} : pages'[j] = pages[j]
    BY <1>2, <2>1, <2>3 DEF TableOK
  <2>7. FreeIds'
    <3>1. \A j \in PageId : j >= i + 1 => pages'[j] = NoRow
      <4> SUFFICES ASSUME NEW j \in PageId, j >= i + 1 PROVE pages'[j] = NoRow
        OBVIOUS
      <4>1. j # i /\ j >= i
        BY <2>4 DEF PageId
      <4> QED BY <1>2, <2>i, <2>6, <4>1 DEF FreeIds
    <3> QED BY <1>2, <1>3, <2>5, <3>1 DEF FreeIds
  <2>8. CASE open = 1
    BY <1>1, <1>3, <2>1, <2>7, <2>8, PageCommit
  <2>9. CASE open # 1
    <3>1. Beside(w) /\ Free(w)
      BY <2>1, <2>9, AdminFree, FinishFree
    <3>2. Hidden(i) /\ Hidden(i)'
      BY <2>4, <2>6, <2>9 DEF Hidden, Flag
    <3> QED BY <1>1, <1>3, <2>3, <2>6, <2>7, <3>1, <3>2, UnseenStep
  <2> QED BY <2>8, <2>9
<1>i. PICK i : i = req[w].id
  OBVIOUS
<1>5. ASSUME PageDelete(w) \/ PageUpdate(w)
      PROVE  /\ i \in PageId /\ PageLost(w) /\ nextId' = nextId
             /\ \A j \in PageId \ {i} : pages'[j] = pages[j]
             /\ pages[i] = NoRow => pages'[i] = NoRow
  <2>1. i \in PageId /\ PageLost(w) /\ nextId' = nextId
    BY <1>5, <1>i DEF PageDelete, PageUpdate, At, Types, ReqOK, LocalsOK, LocalOK
  <2>2. CASE PageDelete(w)
    BY <1>2, <1>i, <2>1, <2>2 DEF PageDelete, TableOK
  <2>3. CASE PageUpdate(w)
    <3>1. PICK t \in Texts, change \in Flag : pages' = [pages EXCEPT ![i] =
            IF @ = NoRow THEN NoRow ELSE [text |-> t, open |-> Flipped(req[w].open, change)]]
      BY <1>i, <2>3 DEF PageUpdate
    <3> QED BY <1>2, <2>1, <3>1 DEF TableOK
  <2> QED BY <1>5, <2>1, <2>2, <2>3
<1>6. ASSUME PageDelete(w) \/ PageUpdate(w) PROVE FreeIds'
  BY <1>2, <1>3, <1>5, <1>6 DEF FreeIds
<1>7. ASSUME PageDelete(w) \/ PageUpdate(w), NEW op \in {"form", "page"},
             AfterCommit(w, op, PageRises(i))
      PROVE  FreshInv'
  <2>1. PagesTrigger \in PageRises(i)
    BY DEF PageRises
  <2> QED BY <1>1, <1>3, <1>6, <1>7, <2>1, PageCommit
<1>8. ASSUME PageDelete(w) \/ PageUpdate(w), RenderAdmin(w) \/ Finish(w), req[w].open = 0, Hidden(i)'
      PROVE  FreshInv'
  <2>1. <<"page", i>> \notin lost' => Hidden(i)
    BY <1>5, <1>8, <1>i DEF PageLost, Hidden
  <2>2. Beside(w) /\ Free(w)
    BY <1>8, AdminFree, FinishFree
  <2>3. <<"page", i>> \notin lost' => Hidden(i) /\ Hidden(i)'
    BY <1>8, <2>1
  <2> QED BY <1>1, <1>3, <1>5, <1>6, <1>8, <2>2, <2>3, UnseenStep
<1>9. req[w].open \in {0, 1}
  BY DEF Types, ReqOK, Request, Flag
<1>10. CASE PageDelete(w)
  <2>1. CASE req[w].open = 1
    BY <1>7, <1>10, <1>i, <2>1 DEF PageDelete
  <2>2. CASE req[w].open = 0
    <3>1. Finish(w) /\ pages' = [pages EXCEPT ![i] = NoRow] /\ UNCHANGED nextId
      BY <1>10, <1>i, <2>2 DEF PageDelete
    <3>2. Hidden(i)'
      <4>1. i \in PageId /\ pages'[i] = NoRow
        BY <1>2, <1>5, <1>10, <3>1 DEF TableOK
      <4> QED BY <4>1 DEF Hidden
    <3> QED BY <1>8, <1>10, <2>2, <3>1, <3>2
  <2> QED BY <1>9, <2>1, <2>2
<1>11. CASE PageUpdate(w)
  <2>1. PICK t \in Texts, change \in Flag, stay \in BOOLEAN :
         /\ pages' = [pages EXCEPT ![i] =
                        IF @ = NoRow THEN NoRow
                        ELSE [text |-> t, open |-> Flipped(req[w].open, change)]]
         /\ IF PageShown(Flipped(req[w].open, change), change)
            THEN AfterCommit(w, IF stay THEN "form" ELSE "page", PageRises(i))
            ELSE IF stay THEN RenderAdmin(w) ELSE Finish(w)
    BY <1>11, <1>i DEF PageUpdate
  <2>2. CASE PageShown(Flipped(req[w].open, change), change)
    BY <1>7, <1>11, <2>1, <2>2
  <2>3. CASE ~PageShown(Flipped(req[w].open, change), change)
    <3>1. change = 0 /\ req[w].open = 0 /\ Flipped(req[w].open, change) = 0
      BY <1>9, <2>3 DEF PageShown, Flipped, Flag
    <3>2. RenderAdmin(w) \/ Finish(w)
      BY <2>1, <2>3
    <3>3. pages'[i] = IF pages[i] = NoRow THEN NoRow ELSE [text |-> t, open |-> 0]
      BY <1>2, <1>5, <1>11, <2>1, <3>1 DEF TableOK
    <3>4. Hidden(i)'
      <4>1. pages'[i] = NoRow \/ pages'[i].open = 0
        BY <3>3
      <4> QED BY <4>1 DEF Hidden
    <3> QED BY <1>8, <1>11, <3>1, <3>2, <3>4
  <2> QED BY <2>2, <2>3
<1> QED BY <1>4, <1>10, <1>11

-----------------------------------------------------------------------------
(* Responses: what they read, and what they store.                         *)

(* What is fresh depends on the tables only. *)
LEMMA ReadsFrame ==
  ASSUME NEW r, UNCHANGED <<Shown, lost>>
  PROVE  /\ OptionsRead(r)' <=> OptionsRead(r)
         /\ BodyRead(r)' <=> BodyRead(r)
         /\ FeedRead(r)' <=> FeedRead(r)
         /\ SideRead(r)' <=> SideRead(r)
<1>1. UNCHANGED <<posts, post2cat, comments, cats, pages, options, lost>>
  BY DEF Shown
<1>2. OptionsRead(r)' <=> OptionsRead(r)
  BY <1>1 DEF OptionsRead, HasOptions
<1>3. BodyRead(r)' <=> BodyRead(r)
  BY <1>1, CommentsQueried, LinksQueried DEF BodyRead, ShowsRow, ShowsPage
<1>4. FeedRead(r)' <=> FeedRead(r)
  BY <1>1, PostsQueried DEF FeedRead, ShowsName, NoPostLost
<1>5. SideRead(r)' <=> SideRead(r)
  BY <1>1, PagesQueried, CategoriesQueried, CountsQueried
  DEF SideRead, ShowsPages, ShowsCats, NoPostLost, NoPageLost
<1> QED BY <1>2, <1>3, <1>4, <1>5

(* The request goes on, or is answered. *)
LEMMA ViewFree ==
  ASSUME Types, FreshInv, NEW w \in Workers, Reading(w), UNCHANGED <<Shown, lost>>,
         NEW r, req' = [req EXCEPT ![w] = r], r.pc \in ReaderPcs, r.clean = 1 => req[w].clean = 1,
         CleanReader(w) /\ r.clean = 1 => OptionsRead(r) /\ BodyRead(r) /\ FeedRead(r) /\ SideRead(r)
  PROVE  Beside(w) /\ Free(w)
<1>1. Beside(w) /\ req'[w] = r
  BY BesideOne
<1>2. ~Writing(w)'
  BY <1>1 DEF Writing, ReaderPcs
<1>3. CleanReader(w)' => CleanReader(w) /\ r.clean = 1
  BY <1>1 DEF CleanReader
<1>4. CleanReader(w)' => \A v \in Workers \ {w} : ~Writing(v)
  BY <1>3 DEF FreshInv, CleanAlone
<1>5. ReaderFresh(w)'
  <2> SUFFICES ASSUME CleanReader(w)'
               PROVE  (OptionsRead(req[w]) /\ BodyRead(req[w]) /\ FeedRead(req[w]) /\ SideRead(req[w]))'
    BY DEF ReaderFresh
  <2>1. PICK s : s = r
    OBVIOUS
  <2>2. OptionsRead(s) /\ BodyRead(s) /\ FeedRead(s) /\ SideRead(s)
    BY <1>3, <2>1
  <2>3. OptionsRead(s)' /\ BodyRead(s)' /\ FeedRead(s)' /\ SideRead(s)'
    BY <2>2, ReadsFrame
  <2>4. req'[w] = s
    BY <1>1, <2>1
  <2> QED BY <2>3, <2>4 DEF OptionsRead, HasOptions, BodyRead, FeedRead, SideRead
<1> QED BY <1>1, <1>2, <1>4, <1>5 DEF Free

(* It goes on without touching the cache. *)
LEMMA ViewGoes ==
  ASSUME Types, FreshInv, NEW w \in Workers, Reading(w), UNCHANGED <<db, cache, lost>>,
         NEW r, req' = [req EXCEPT ![w] = r], r.pc \in ReaderPcs, r.clean = 1 => req[w].clean = 1,
         CleanReader(w) /\ r.clean = 1 => OptionsRead(r) /\ BodyRead(r) /\ FeedRead(r) /\ SideRead(r)
  PROVE  FreshInv'
<1>1. UNCHANGED <<Shown, lost, nextId, cache>>
  BY DEF db, Shown
<1>2. Beside(w) /\ Free(w)
  BY <1>1, ViewFree
<1>3. req[w].pc # "after"
  BY DEF Reading, ReaderPcs
<1> QED BY <1>1, <1>2, <1>3, SameShrinks, FreeStep

(* It ends without touching the cache. *)
LEMMA ViewEnds ==
  ASSUME Types, FreshInv, NEW w \in Workers, Reading(w), UNCHANGED <<db, cache, lost>>, Finish(w)
  PROVE  FreshInv'
<1>1. UNCHANGED <<Shown, lost, nextId, cache>>
  BY DEF db, Shown
<1>2. req[w].pc # "after"
  BY DEF Reading, ReaderPcs
<1> QED BY <1>1, <1>2, FinishFree, SameShrinks, FreeStep

(* What a clean response finds in the cache is fresh: nobody is between a  *)
(* commit and its rises.                                                   *)
LEMMA CleanHit ==
  ASSUME FreshInv, NEW w \in Workers, CleanReader(w), NEW k \in Key, Live(k)
  PROVE  EntryRecorded(k) /\ EntryFresh(k)
BY DEF FreshInv, CacheFresh, Overdue, CleanAlone, Writing

(* A clean response stores what is fresh: nobody writes. *)
LEMMA StoreStep ==
  ASSUME Types, FreshInv, NEW w \in Workers, Beside(w), Free(w), Reading(w),
         UNCHANGED <<db, lost>>, NEW k \in Key, NEW e, CacheStore(k, e),
         e # NoRow, e.clean = 1 => CleanReader(w),
         e.clean = 1 => EntryRecorded(k)' /\ EntryFresh(k)'
  PROVE  FreshInv'
<1>1. UNCHANGED <<Shown, lost, nextId>> /\ UNCHANGED <<posts, post2cat, comments, cats, pages, options>>
  BY DEF db, Shown
<1>2. req[w].pc # "after"
  BY DEF Reading, ReaderPcs
<1>3. cache'[k] = e /\ \A x \in Key \ {k} : Live(x)' => Live(x) /\ cache'[x] = cache[x]
  BY DEF CacheStore, Live
<1>4. CASE e.clean # 1
  <2>1. Shrinks
    BY <1>3, <1>4 DEF Shrinks, Live
  <2> QED BY <1>1, <1>2, <2>1, FreeStep
<1>5. CASE e.clean = 1
  <2>1. \A v \in Workers : ~Writing(v)
    BY <1>5 DEF FreshInv, CleanAlone
  <2>2. \A v \in Workers : ~Writing(v)'
    BY <2>1 DEF Free, Beside, Writing
  <2>3. CleanAlone' /\ RisenGone' /\ AfterOps' /\ LinksRead'
    BY <2>2 DEF CleanAlone, RisenGone, AfterOps, LinksRead, Writing, At
  <2>4. FreeIds'
    BY <1>1, IdsStay DEF FreshInv
  <2>5. ASSUME NEW x \in Key \ {k}, Live(x)' PROVE (EntryRecorded(x) /\ EntryFresh(x))'
    <3>1. Live(x) /\ cache'[x] = cache[x] /\ cache[x] # NoRow
      BY <1>3, <2>5 DEF Live
    <3>2. EntryRecorded(x) /\ EntryFresh(x)
      BY <1>5, <3>1, CleanHit
    <3> QED BY <1>1, <3>1, <3>2, RecordStays, EntryStays
  <2>6. CacheFresh'
    BY <1>5, <2>5 DEF CacheFresh
  <2>7. ASSUME NEW v \in Workers PROVE ReaderFresh(v)'
    BY <1>1, ReaderStays DEF FreshInv, Free, Beside
  <2> QED BY <2>3, <2>4, <2>6, <2>7 DEF FreshInv
<1> QED BY <1>4, <1>5

(* The body does not depend on how far the options and the sidebar are. *)
MidPcs == {"options", "opt_select", "opt_store"}
LatePcs == {"frame", "info", "side_pages", "side_cats", "store_info", "store_frame", "store"}

(* Where a response goes on after the options. *)
LEMMA AfterOptionsPc ==
  ASSUME NEW op
  PROVE  /\ op \in PostViews => AfterOptions(op) = "comments"
         /\ op \in PageViews => AfterOptions(op) = "frame"
         /\ op \notin PostViews \cup PageViews => AfterOptions(op) = "store"
BY DEF AfterOptions, PostViews, PageViews

(* A body is as fresh as it was after a step that leaves it alone. *)
LEMMA BodyKept ==
  ASSUME NEW q, NEW r, r.op = q.op, r.id = q.id, r.zeros = q.zeros, q.trig \subseteq r.trig,
         r.body.text = q.body.text, r.body.comments = q.body.comments,
         r.body.cats = q.body.cats, r.body.posts = q.body.posts,
         \/ q.pc \in MidPcs /\ r.pc \in MidPcs \cup {AfterOptions(q.op)}
         \/ q.pc \in LatePcs /\ r.pc \in LatePcs,
         BodyRead(q), FeedRead(q)
  PROVE  BodyRead(r) /\ FeedRead(r)
<1>1. q.op \in PostViews => AfterOptions(q.op) = "comments"
  BY AfterOptionsPc
<1>2. q.op \notin PostViews => AfterOptions(q.op) \in {"frame", "store"}
  BY AfterOptionsPc
<1>3. q.op = "display_post" => q.op \in PostViews
  BY DEF PostViews
<1>4. q.op \in {"display_page", "feed_comments", "feed_posts", "feed_cat"} => q.op \notin PostViews
  BY DEF PostViews
<1>5. q.pc # "row" /\ q.pc # "comments" /\ q.pc # "posts" /\ r.pc # "row" /\ r.pc # "posts"
  BY <1>1, <1>2 DEF MidPcs, LatePcs
<1>6. q.op = "display_post" => (q.pc \in BeforeComments => r.pc \in BeforeComments) /\ q.pc # "cats"
  BY <1>1, <1>3 DEF MidPcs, LatePcs, BeforeComments
<1>7. q.op = "display_post" => (r.pc \in BeforeComments => q.pc \in BeforeComments) /\ r.pc # "cats"
  BY <1>1, <1>3 DEF MidPcs, LatePcs, BeforeComments
<1>8. BodyRead(r)
  BY <1>5, <1>6, <1>7 DEF BodyRead, ShowsRow, ShowsPage
<1>9. FeedRead(r)
  BY <1>5 DEF FeedRead, ShowsName, ListRecorded
<1> QED BY <1>8, <1>9

(* The rows that requests are about. *)
LEMMA PostRowFresh ==
  ASSUME Types, FreshInv, NEW w \in Workers, PostRow(w)
  PROVE  FreshInv'
<1> DEFINE p == req[w].id
           r == [req[w] EXCEPT !.body.text = posts[p].text, !.pc = "options"]
<1>1. /\ req[w] \in Request /\ req[w].op \in PostViews /\ req[w].pc = "row" /\ Reading(w)
      /\ p \in PostId /\ UNCHANGED <<db, cache, lost>> /\ TableOK
  BY DEF PostRow, Types, ReqOK, LocalsOK, LocalOK, Reading, ReaderPcs
<1>2. \/ Finish(w)
      \/ /\ posts[p] # NoRow /\ (req[w].op = "display_post" => posts[p].open # 0)
         /\ req' = [req EXCEPT ![w] = r]
  BY <1>1 DEF PostRow
<1>3. CASE Finish(w)
  BY <1>1, <1>3, ViewEnds
<1>4. CASE /\ posts[p] # NoRow /\ (req[w].op = "display_post" => posts[p].open # 0)
           /\ req' = [req EXCEPT ![w] = r]
  <2>1. /\ r.pc = "options" /\ r.op = req[w].op /\ r.id = p /\ r.clean = req[w].clean
        /\ r.side = req[w].side /\ r.body.text = posts[p].text
    BY <1>1 DEF Request, Body
  <2>2. posts[p].open \in {0, 1}
    BY <1>1, <1>4 DEF TableOK, Post, Flag
  <2> HIDE DEF r
  <2>3. ASSUME CleanReader(w) PROVE OptionsRead(r) /\ BodyRead(r) /\ FeedRead(r) /\ SideRead(r)
    <3>1. OptionsRead(req[w])
      BY <2>3 DEF FreshInv, ReaderFresh
    <3>2. OptionsRead(r)
      BY <1>1, <2>1, <3>1 DEF OptionsRead, HasOptions
    <3>3. BodyRead(r)
      BY <1>1, <1>4, <2>1, <2>2 DEF BodyRead, ShowsRow, BeforeComments, PostViews
    <3>4. FeedRead(r) /\ SideRead(r)
      BY <1>1, <2>1 DEF FeedRead, SideRead, PostViews
    <3> QED BY <3>2, <3>3, <3>4
  <2>4. r.pc \in ReaderPcs
    BY <2>1 DEF ReaderPcs
  <2> QED BY <1>1, <1>4, <2>1, <2>3, <2>4, ViewGoes
<1> QED BY <1>2, <1>3, <1>4

(* The row of a page. *)
LEMMA PageRowFresh ==
  ASSUME Types, FreshInv, NEW w \in Workers, PageRow(w)
  PROVE  FreshInv'
<1> DEFINE i == req[w].id
           r == [req[w] EXCEPT !.body.text = pages[i].text, !.pc = "options"]
<1>1. /\ req[w] \in Request /\ req[w].op \in PageViews /\ req[w].pc = "row" /\ Reading(w)
      /\ i \in PageId /\ UNCHANGED <<db, cache, lost>> /\ TableOK
  BY DEF PageRow, Types, ReqOK, LocalsOK, LocalOK, Reading, ReaderPcs
<1>2. \/ Finish(w)
      \/ /\ pages[i] # NoRow /\ (req[w].op = "display_page" => pages[i].open # 0)
         /\ req' = [req EXCEPT ![w] = r]
  BY <1>1 DEF PageRow
<1>3. CASE Finish(w)
  BY <1>1, <1>3, ViewEnds
<1>4. CASE /\ pages[i] # NoRow /\ (req[w].op = "display_page" => pages[i].open # 0)
           /\ req' = [req EXCEPT ![w] = r]
  <2>1. /\ r.pc = "options" /\ r.op = req[w].op /\ r.id = i /\ r.clean = req[w].clean
        /\ r.side = req[w].side /\ r.body.text = pages[i].text
    BY <1>1 DEF Request, Body
  <2>2. pages[i].open \in {0, 1}
    BY <1>1, <1>4 DEF TableOK, Page, Flag
  <2> HIDE DEF r
  <2>3. ASSUME CleanReader(w) PROVE OptionsRead(r) /\ BodyRead(r) /\ FeedRead(r) /\ SideRead(r)
    <3>1. OptionsRead(req[w])
      BY <2>3 DEF FreshInv, ReaderFresh
    <3>2. OptionsRead(r)
      BY <1>1, <2>1, <3>1 DEF OptionsRead, HasOptions
    <3>3. BodyRead(r)
      BY <1>1, <1>4, <2>1, <2>2 DEF BodyRead, ShowsPage, PageViews
    <3>4. FeedRead(r) /\ SideRead(r)
      BY <1>1, <2>1 DEF FeedRead, SideRead, PageViews
    <3> QED BY <3>2, <3>3, <3>4
  <2>4. r.pc \in ReaderPcs
    BY <2>1 DEF ReaderPcs
  <2> QED BY <1>1, <1>4, <2>1, <2>3, <2>4, ViewGoes
<1> QED BY <1>2, <1>3, <1>4

(* The name of the category of a feed, with its trigger. *)
LEMMA FeedCatRowFresh ==
  ASSUME Types, FreshInv, NEW w \in Workers, FeedCatRow(w)
  PROVE  FreshInv'
<1> DEFINE c == req[w].id
           r == [req[w] EXCEPT !.body.text = cats[c], !.trig = {CatTrigger(c, req[w].zeros)},
                               !.pc = "posts"]
<1>1. /\ req[w] \in Request /\ req[w].op = "feed_cat" /\ req[w].pc = "row" /\ Reading(w)
      /\ UNCHANGED <<db, cache, lost>>
  BY DEF FeedCatRow, At, Types, ReqOK, Reading, ReaderPcs
<1>2. Finish(w) \/ (cats[c] # NoRow /\ req' = [req EXCEPT ![w] = r])
  BY <1>1 DEF FeedCatRow
<1>3. CASE Finish(w)
  BY <1>1, <1>3, ViewEnds
<1>4. CASE cats[c] # NoRow /\ req' = [req EXCEPT ![w] = r]
  <2>1. /\ r.pc = "posts" /\ r.op = req[w].op /\ r.id = c /\ r.clean = req[w].clean
        /\ r.zeros = req[w].zeros /\ r.trig = {CatTrigger(c, req[w].zeros)}
        /\ r.side = req[w].side /\ r.body.text = cats[c]
    BY <1>1 DEF Request, Body
  <2> HIDE DEF r
  <2>2. ASSUME CleanReader(w) PROVE OptionsRead(r) /\ BodyRead(r) /\ FeedRead(r) /\ SideRead(r)
    <3>1. OptionsRead(req[w])
      BY <2>2 DEF FreshInv, ReaderFresh
    <3>2. OptionsRead(r)
      BY <1>1, <2>1, <3>1 DEF OptionsRead, HasOptions
    <3>3. FeedRead(r)
      BY <1>1, <1>4, <2>1 DEF FeedRead, ShowsName
    <3>4. BodyRead(r) /\ SideRead(r)
      BY <1>1, <2>1 DEF BodyRead, SideRead
    <3> QED BY <3>2, <3>3, <3>4
  <2>3. r.pc \in ReaderPcs
    BY <2>1 DEF ReaderPcs
  <2> QED BY <1>1, <1>4, <2>1, <2>2, <2>3, ViewGoes
<1> QED BY <1>2, <1>3, <1>4

(* The queries of the bodies. *)
LEMMA PostCommentsFresh ==
  ASSUME Types, FreshInv, NEW w \in Workers, PostComments(w)
  PROVE  FreshInv'
<1> DEFINE p == req[w].id
           r == [req[w] EXCEPT !.body.comments = RowsOf(p), !.pc = "cats"]
<1>1. /\ req[w] \in Request /\ req[w].op \in PostViews /\ req[w].pc = "comments" /\ Reading(w)
      /\ UNCHANGED <<db, cache, lost>>
  BY DEF PostComments, Types, ReqOK, Reading, ReaderPcs
<1>2. req' = [req EXCEPT ![w] = r]
  BY <1>1 DEF PostComments, RowsOf
<1>3. /\ r.pc = "cats" /\ r.op = req[w].op /\ r.id = p /\ r.clean = req[w].clean
      /\ r.trig = req[w].trig /\ r.side = req[w].side /\ r.body.text = req[w].body.text
      /\ r.body.options = req[w].body.options /\ r.body.comments = RowsOf(p)
  BY <1>1 DEF Request, Body
<1> HIDE DEF r
<1>4. ASSUME CleanReader(w) PROVE OptionsRead(r) /\ BodyRead(r) /\ FeedRead(r) /\ SideRead(r)
  <2>1. OptionsRead(req[w]) /\ BodyRead(req[w])
    BY <1>4 DEF FreshInv, ReaderFresh
  <2>2. OptionsRead(r)
    BY <1>1, <1>3, <2>1 DEF OptionsRead, HasOptions
  <2>3. BodyRead(r)
    BY <1>1, <1>3, <2>1 DEF BodyRead, ShowsRow, BeforeComments, PostViews
  <2>4. FeedRead(r) /\ SideRead(r)
    BY <1>1, <1>3 DEF FeedRead, SideRead, PostViews
  <2> QED BY <2>2, <2>3, <2>4
<1>5. r.pc \in ReaderPcs
  BY <1>3 DEF ReaderPcs
<1> QED BY <1>1, <1>2, <1>3, <1>4, <1>5, ViewGoes

(* The categories of a post. *)
LEMMA PostCategoriesFresh ==
  ASSUME Types, FreshInv, NEW w \in Workers, PostCategories(w)
  PROVE  FreshInv'
<1> DEFINE p == req[w].id
           r == [req[w] EXCEPT !.body.cats = CategoriesOf(p), !.pc = "frame"]
<1>1. /\ req[w] \in Request /\ req[w].op \in PostViews /\ req[w].pc = "cats" /\ Reading(w)
      /\ UNCHANGED <<db, cache, lost>>
  BY DEF PostCategories, Types, ReqOK, Reading, ReaderPcs
<1>2. req' = [req EXCEPT ![w] = r]
  BY <1>1 DEF PostCategories
<1>3. /\ r.pc = "frame" /\ r.op = req[w].op /\ r.id = p /\ r.clean = req[w].clean
      /\ r.trig = req[w].trig /\ r.side = req[w].side /\ r.body.text = req[w].body.text
      /\ r.body.options = req[w].body.options /\ r.body.comments = req[w].body.comments
      /\ r.body.cats = CategoriesOf(p)
  BY <1>1 DEF Request, Body
<1> HIDE DEF r
<1>4. ASSUME CleanReader(w) PROVE OptionsRead(r) /\ BodyRead(r) /\ FeedRead(r) /\ SideRead(r)
  <2>1. OptionsRead(req[w]) /\ BodyRead(req[w])
    BY <1>4 DEF FreshInv, ReaderFresh
  <2>2. OptionsRead(r)
    BY <1>1, <1>3, <2>1 DEF OptionsRead, HasOptions
  <2>3. BodyRead(r)
    BY <1>1, <1>3, <2>1 DEF BodyRead, ShowsRow, BeforeComments, PostViews
  <2>4. FeedRead(r) /\ SideRead(r)
    BY <1>1, <1>3 DEF FeedRead, SideRead, PostViews
  <2> QED BY <2>2, <2>3, <2>4
<1>5. r.pc \in ReaderPcs
  BY <1>3 DEF ReaderPcs
<1> QED BY <1>1, <1>2, <1>3, <1>4, <1>5, ViewGoes

(* The latest comments. *)
LEMMA FeedCommentsFresh ==
  ASSUME Types, FreshInv, NEW w \in Workers, FeedCommentRows(w)
  PROVE  FreshInv'
<1>1. /\ req[w] \in Request /\ req[w].op = "feed_comments" /\ req[w].pc = "comments" /\ Reading(w)
      /\ UNCHANGED <<db, cache, lost>>
  BY DEF FeedCommentRows, At, Types, ReqOK, Reading, ReaderPcs
<1>2. PICK ks \in RecentComments :
        req' = [req EXCEPT ![w].body.comments = CommentRows(ks), ![w].pc = "options"]
  BY DEF FeedCommentRows
<1> DEFINE r == [req[w] EXCEPT !.body.comments = CommentRows(ks), !.pc = "options"]
<1>3. req' = [req EXCEPT ![w] = r]
  BY <1>1, <1>2
<1>4. /\ r.pc = "options" /\ r.op = req[w].op /\ r.clean = req[w].clean
      /\ r.side = req[w].side /\ r.body.comments = CommentRows(ks)
  BY <1>1 DEF Request, Body
<1> HIDE DEF r
<1>5. ASSUME CleanReader(w) PROVE OptionsRead(r) /\ BodyRead(r) /\ FeedRead(r) /\ SideRead(r)
  <2>1. OptionsRead(req[w])
    BY <1>5 DEF FreshInv, ReaderFresh
  <2>2. OptionsRead(r)
    BY <1>1, <1>4, <2>1 DEF OptionsRead, HasOptions
  <2>3. CommentRows(ks) \in CommentFeeds
    BY <1>2 DEF CommentFeeds
  <2>4. BodyRead(r)
    BY <1>1, <1>4, <2>3 DEF BodyRead
  <2>5. FeedRead(r) /\ SideRead(r)
    BY <1>1, <1>4 DEF FeedRead, SideRead
  <2> QED BY <2>2, <2>4, <2>5
<1>6. r.pc \in ReaderPcs
  BY <1>4 DEF ReaderPcs
<1> QED BY <1>1, <1>3, <1>4, <1>5, <1>6, ViewGoes

(* The latest posts, each of them a trigger. *)
LEMMA FeedPostsFresh ==
  ASSUME Types, FreshInv, NEW w \in Workers, FeedPostRows(w)
  PROVE  FreshInv'
<1>1. /\ req[w] \in Request /\ req[w].op \in {"feed_posts", "feed_cat"} /\ req[w].pc = "posts"
      /\ Reading(w) /\ UNCHANGED <<db, cache, lost>>
  BY DEF FeedPostRows, At, Types, ReqOK, Reading, ReaderPcs
<1>2. PICK ps, T : /\ ListPosts(w, ps, T)
                   /\ \/ req[w].op = "feed_posts" /\ ps \in RecentPosts /\ T = {AllPosts}
                      \/ req[w].op = "feed_cat" /\ ps \in RecentIn(req[w].id)
  BY DEF FeedPostRows, At
<1> DEFINE r == [req[w] EXCEPT !.body.posts = PostRows(ps), !.pc = "options",
                               !.trig = @ \cup {PostKey(p, 0) : p \in ps} \cup T]
<1>3. req' = [req EXCEPT ![w] = r]
  BY <1>1, <1>2 DEF ListPosts
<1>4. /\ r.pc = "options" /\ r.op = req[w].op /\ r.id = req[w].id /\ r.zeros = req[w].zeros
      /\ r.clean = req[w].clean /\ r.side = req[w].side /\ r.body.posts = PostRows(ps)
      /\ r.body.text = req[w].body.text /\ r.trig = req[w].trig \cup {PostKey(p, 0) : p \in ps} \cup T
  BY <1>1 DEF Request, Body
<1> HIDE DEF r
<1>5. ASSUME CleanReader(w) PROVE OptionsRead(r) /\ BodyRead(r) /\ FeedRead(r) /\ SideRead(r)
  <2>1. OptionsRead(req[w]) /\ FeedRead(req[w])
    BY <1>5 DEF FreshInv, ReaderFresh
  <2>2. OptionsRead(r)
    BY <1>1, <1>4, <2>1 DEF OptionsRead, HasOptions
  <2>3. ListRecorded(r.body, r.trig)
    <3> SUFFICES ASSUME NEW x \in r.body.posts PROVE PostKey(x[1], 0) \in r.trig
      BY DEF ListRecorded
    <3>1. PICK p \in ps : x = <<p, posts[p].text>>
      BY <1>4 DEF PostRows
    <3>2. PostKey(p, 0) \in r.trig /\ x[1] = p
      BY <1>4, <3>1
    <3> QED BY <3>2
  <2>4. CASE req[w].op = "feed_posts"
    <3>1. r.body.posts \in PostFeeds /\ AllPosts \in r.trig
      BY <1>2, <1>4, <2>4 DEF PostFeeds
    <3>2. FeedRead(r)
      BY <1>4, <2>3, <2>4, <3>1 DEF FeedRead
    <3> QED BY <1>4, <2>2, <2>4, <3>2 DEF BodyRead, SideRead
  <2>5. CASE req[w].op = "feed_cat"
    <3>1. r.body.posts \in CatFeeds(r.id)
      BY <1>2, <1>4, <2>5 DEF CatFeeds
    <3>2. ShowsName(r.id, r.body) /\ CatTrigger(r.id, r.zeros) \in r.trig
      BY <1>1, <1>4, <2>1, <2>5 DEF FeedRead, ShowsName
    <3>3. FeedRead(r)
      BY <1>4, <2>3, <2>5, <3>1, <3>2 DEF FeedRead
    <3> QED BY <1>4, <2>2, <2>5, <3>3 DEF BodyRead, SideRead
  <2> QED BY <1>1, <2>4, <2>5
<1>6. r.pc \in ReaderPcs
  BY <1>4 DEF ReaderPcs
<1> QED BY <1>1, <1>3, <1>4, <1>5, <1>6, ViewGoes

(* The options, from the cache or from the table. *)
LEMMA OptionsHitFresh ==
  ASSUME Types, FreshInv, NEW w \in Workers, Options(w) \/ OptionsSelect(w)
  PROVE  FreshInv'
<1>1. /\ req[w] \in Request /\ req[w].pc \in {"options", "opt_select"} /\ Reading(w)
      /\ UNCHANGED <<db, cache, lost>> /\ OptionsKey \in Key
  BY DEF Options, OptionsSelect, Types, ReqOK, Reading, ReaderPcs, Key
<1>2. CleanReader(w) => OptionsRead(req[w]) /\ BodyRead(req[w]) /\ FeedRead(req[w])
  BY DEF FreshInv, ReaderFresh
<1>3. ASSUME req' = [req EXCEPT ![w].pc = "opt_select"] PROVE FreshInv'
  <2> DEFINE r == [req[w] EXCEPT !.pc = "opt_select"]
  <2>1. req' = [req EXCEPT ![w] = r]
    BY <1>3
  <2>2. /\ r.pc = "opt_select" /\ r.op = req[w].op /\ r.id = req[w].id /\ r.zeros = req[w].zeros
        /\ r.clean = req[w].clean /\ r.side = req[w].side /\ r.body = req[w].body /\ r.trig = req[w].trig
    BY <1>1 DEF Request
  <2> HIDE DEF r
  <2>3. CleanReader(w) => BodyRead(r) /\ FeedRead(r)
    BY <1>1, <1>2, <2>2, BodyKept DEF MidPcs
  <2>4. CleanReader(w) => OptionsRead(r) /\ SideRead(r)
    BY <1>1, <1>2, <2>2 DEF OptionsRead, HasOptions, SideRead
  <2>5. r.pc \in ReaderPcs
    BY <2>2 DEF ReaderPcs
  <2> QED BY <1>1, <2>1, <2>2, <2>3, <2>4, <2>5, ViewGoes
<1>4. ASSUME req' = [req EXCEPT ![w].body.options = options, ![w].pc = "opt_store"] PROVE FreshInv'
  <2> DEFINE r == [req[w] EXCEPT !.body.options = options, !.pc = "opt_store"]
  <2>1. req' = [req EXCEPT ![w] = r]
    BY <1>1, <1>4
  <2>2. /\ r.pc = "opt_store" /\ r.op = req[w].op /\ r.id = req[w].id /\ r.zeros = req[w].zeros
        /\ r.clean = req[w].clean /\ r.side = req[w].side /\ r.trig = req[w].trig
        /\ r.body.options = options
        /\ r.body.text = req[w].body.text /\ r.body.comments = req[w].body.comments
        /\ r.body.cats = req[w].body.cats /\ r.body.posts = req[w].body.posts
    BY <1>1 DEF Request, Body
  <2> HIDE DEF r
  <2>3. CleanReader(w) => BodyRead(r) /\ FeedRead(r)
    BY <1>1, <1>2, <2>2, BodyKept DEF MidPcs
  <2>4. CleanReader(w) => OptionsRead(r) /\ SideRead(r)
    BY <1>1, <1>2, <2>2 DEF OptionsRead, HasOptions, SideRead
  <2>5. r.pc \in ReaderPcs
    BY <2>2 DEF ReaderPcs
  <2> QED BY <1>1, <2>1, <2>2, <2>3, <2>4, <2>5, ViewGoes
<1>5. ASSUME cache[OptionsKey] # NoRow, req[w].pc = "options",
             req' = [req EXCEPT ![w].body.options = cache[OptionsKey].body.options,
                                ![w].trig = @ \cup cache[OptionsKey].trig,
                                ![w].clean = IF cache[OptionsKey].clean = 1 THEN @ ELSE 0,
                                ![w].pc = AfterOptions(req[w].op)]
      PROVE  FreshInv'
  <2> DEFINE e == cache[OptionsKey]
             r == [req[w] EXCEPT !.body.options = e.body.options, !.trig = @ \cup e.trig,
                                 !.clean = IF e.clean = 1 THEN @ ELSE 0, !.pc = AfterOptions(req[w].op)]
  <2>1. req' = [req EXCEPT ![w] = r]
    BY <1>1, <1>5
  <2>2. /\ r.pc = AfterOptions(req[w].op) /\ r.op = req[w].op /\ r.id = req[w].id
        /\ r.zeros = req[w].zeros /\ r.clean = (IF e.clean = 1 THEN req[w].clean ELSE 0)
        /\ r.side = req[w].side /\ r.trig = req[w].trig \cup e.trig
        /\ r.body.options = e.body.options
        /\ r.body.text = req[w].body.text /\ r.body.comments = req[w].body.comments
        /\ r.body.cats = req[w].body.cats /\ r.body.posts = req[w].body.posts
    BY <1>1 DEF Request, Body
  <2>3. r.clean = 1 => req[w].clean = 1 /\ Live(OptionsKey)
    BY <1>5, <2>2 DEF Live
  <2> HIDE DEF r
  <2>4. ASSUME CleanReader(w), r.clean = 1 PROVE OptionsRead(r) /\ BodyRead(r) /\ FeedRead(r) /\ SideRead(r)
    <3>1. EntryRecorded(OptionsKey) /\ EntryFresh(OptionsKey)
      BY <1>1, <2>3, <2>4, CleanHit
    <3>2. OptionsKey \in e.trig /\ e.body.options = options
      BY <3>1 DEF EntryRecorded, EntryFresh, FreshOptions, OptionsKey, SidebarInfo, Sidebar
    <3>3. req[w].side.options = NoRow
      BY <1>2, <1>5, <2>4 DEF OptionsRead
    <3>4. OptionsRead(r)
      BY <2>2, <3>2, <3>3, AfterOptionsPc DEF OptionsRead
    <3>5. BodyRead(r) /\ FeedRead(r)
      BY <1>1, <1>2, <1>5, <2>2, <2>4, BodyKept DEF MidPcs
    <3>6. SideRead(r)
      BY <2>2, AfterOptionsPc DEF SideRead
    <3> QED BY <3>4, <3>5, <3>6
  <2>5. r.pc \in ReaderPcs
    BY <2>2, AfterOptionsPc DEF ReaderPcs
  <2> QED BY <1>1, <2>1, <2>3, <2>4, <2>5, ViewGoes
<1> QED BY <1>3, <1>4, <1>5 DEF Options, OptionsSelect, Missing, Goto

(* The options are stored under a key that is their trigger. *)
LEMMA OptionsStoreFresh ==
  ASSUME Types, FreshInv, NEW w \in Workers, OptionsStore(w)
  PROVE  FreshInv'
<1> DEFINE r == [req[w] EXCEPT !.trig = @ \cup {OptionsKey}, !.pc = AfterOptions(req[w].op)]
           e == [body |-> [NoBody EXCEPT !.options = req[w].body.options], side |-> NoSide,
                 trig |-> {OptionsKey}, clean |-> req[w].clean]
<1>1. /\ req[w] \in Request /\ req[w].pc = "opt_store" /\ Reading(w)
      /\ UNCHANGED <<db, lost>> /\ OptionsKey \in Key
  BY DEF OptionsStore, Types, ReqOK, Reading, ReaderPcs, Key
<1>2. req' = [req EXCEPT ![w] = r] /\ CacheStore(OptionsKey, e)
  BY DEF OptionsStore
<1>3. /\ r.pc = AfterOptions(req[w].op) /\ r.op = req[w].op /\ r.id = req[w].id
      /\ r.zeros = req[w].zeros /\ r.clean = req[w].clean
      /\ r.side = req[w].side /\ r.trig = req[w].trig \cup {OptionsKey} /\ r.body = req[w].body
  BY <1>1 DEF Request
<1>4. /\ e.body.options = req[w].body.options /\ e.side.options = NoRow /\ e.trig = {OptionsKey}
      /\ e.clean = req[w].clean
  BY DEF NoBody, NoSide
<1>5. e \in Entry
  <2>1. [NoBody EXCEPT !.options = req[w].body.options] \in Body /\ NoSide \in Side
    BY <1>1 DEF Request, Body, NoBody, Side, NoSide
  <2>2. {OptionsKey} \subseteq Trigger /\ req[w].clean \in Flag
    BY <1>1 DEF Trigger, Request
  <2> QED BY <2>1, <2>2 DEF Entry
<1>6. e # NoRow
  BY <1>5, NoRowAssumption
<1> HIDE DEF r, e
<1>7. UNCHANGED <<Shown, lost>> /\ UNCHANGED options
  BY <1>1 DEF db, Shown
<1>8. CleanReader(w) => OptionsRead(req[w]) /\ BodyRead(req[w]) /\ FeedRead(req[w])
  BY DEF FreshInv, ReaderFresh
<1>9. CleanReader(w) => req[w].side.options = NoRow /\ req[w].body.options = options
  BY <1>1, <1>8 DEF OptionsRead
<1>10. CleanReader(w) => OptionsRead(r) /\ SideRead(r)
  BY <1>3, <1>9, AfterOptionsPc DEF OptionsRead, SideRead
<1>11. CleanReader(w) => BodyRead(r) /\ FeedRead(r)
  BY <1>1, <1>3, <1>8, BodyKept DEF MidPcs
<1>12. r.pc \in ReaderPcs
  BY <1>3, AfterOptionsPc DEF ReaderPcs
<1>13. Beside(w) /\ Free(w)
  BY <1>1, <1>2, <1>3, <1>7, <1>10, <1>11, <1>12, ViewFree
<1>14. cache'[OptionsKey] = e
  BY <1>1, <1>2 DEF CacheStore
<1>15. EntryRecorded(OptionsKey)'
  BY <1>4, <1>14 DEF EntryRecorded, OptionsKey, SidebarInfo, WithSidebar, Sidebar, RssPosts,
         PostKey, PageKey, RssKey
<1>16. CleanReader(w) => EntryFresh(OptionsKey)'
  <2>1. CleanReader(w) => FreshOptions(OptionsKey)'
    BY <1>4, <1>7, <1>9, <1>14 DEF FreshOptions
  <2>2. /\ FreshPost(OptionsKey)' /\ FreshPage(OptionsKey)' /\ FreshSide(OptionsKey)'
        /\ FreshComments(OptionsKey)' /\ FreshFeeds(OptionsKey)'
    BY DEF FreshPost, FreshPage, FreshSide, FreshComments, FreshFeeds, OptionsKey, SidebarInfo,
           WithSidebar, Sidebar, RssPosts, PostKey, PageKey, RssKey, CommentsKey
  <2> QED BY <2>1, <2>2 DEF EntryFresh
<1>17. e.clean = 1 => CleanReader(w)
  BY <1>1, <1>4 DEF CleanReader
<1> QED BY <1>1, <1>2, <1>6, <1>13, <1>15, <1>16, <1>17, StoreStep

(* The sidebar, from the cache or from the tables. *)
LEMMA FrameFresh ==
  ASSUME Types, FreshInv, NEW w \in Workers, Frame(w)
  PROVE  FreshInv'
<1>1. /\ req[w] \in Request /\ req[w].pc = "frame" /\ Reading(w)
      /\ UNCHANGED <<db, cache, lost>> /\ Sidebar \in Key
  BY DEF Frame, Types, ReqOK, Reading, ReaderPcs, Key
<1>2. CleanReader(w) => OptionsRead(req[w]) /\ BodyRead(req[w]) /\ FeedRead(req[w])
  BY DEF FreshInv, ReaderFresh
<1>3. CASE Missing(Sidebar)
  <2> DEFINE r == [req[w] EXCEPT !.pc = "info"]
  <2>1. req' = [req EXCEPT ![w] = r]
    BY <1>3 DEF Frame, Goto
  <2>2. /\ r.pc = "info" /\ r.op = req[w].op /\ r.id = req[w].id /\ r.zeros = req[w].zeros
        /\ r.clean = req[w].clean /\ r.side = req[w].side /\ r.body = req[w].body /\ r.trig = req[w].trig
    BY <1>1 DEF Request
  <2> HIDE DEF r
  <2>3. CleanReader(w) => BodyRead(r) /\ FeedRead(r)
    BY <1>1, <1>2, <2>2, BodyKept DEF LatePcs
  <2>4. CleanReader(w) => OptionsRead(r) /\ SideRead(r)
    BY <1>1, <1>2, <2>2 DEF OptionsRead, HasOptions, SideRead
  <2>5. r.pc \in ReaderPcs
    BY <2>2 DEF ReaderPcs
  <2> QED BY <1>1, <2>1, <2>2, <2>3, <2>4, <2>5, ViewGoes
<1>4. CASE ~Missing(Sidebar)
  <2> DEFINE e == cache[Sidebar]
             r == [req[w] EXCEPT !.side = e.side, !.trig = @ \cup e.trig,
                                 !.clean = IF e.clean = 1 THEN @ ELSE 0, !.pc = "store"]
  <2>1. req' = [req EXCEPT ![w] = r]
    BY <1>1, <1>4 DEF Frame
  <2>2. /\ r.pc = "store" /\ r.op = req[w].op /\ r.id = req[w].id
        /\ r.zeros = req[w].zeros /\ r.clean = (IF e.clean = 1 THEN req[w].clean ELSE 0)
        /\ r.side = e.side /\ r.trig = req[w].trig \cup e.trig /\ r.body = req[w].body
    BY <1>1 DEF Request
  <2>3. r.clean = 1 => req[w].clean = 1 /\ Live(Sidebar)
    BY <1>4, <2>2 DEF Live, Missing
  <2> HIDE DEF r
  <2>4. ASSUME CleanReader(w), r.clean = 1 PROVE OptionsRead(r) /\ BodyRead(r) /\ FeedRead(r) /\ SideRead(r)
    <3>1. EntryRecorded(Sidebar) /\ EntryFresh(Sidebar)
      BY <1>1, <2>3, <2>4, CleanHit
    <3>2. e.side.options \in {NoRow, options}
      BY <3>1 DEF EntryFresh, FreshOptions
    <3>3. ShowsPages(r.side) /\ ShowsCats(r.side) /\ SideRecorded(r.side, e.trig)
      BY <2>2, <3>1 DEF EntryRecorded, EntryFresh, FreshSide, WithSidebar
    <3>4. req[w].body.options = options /\ OptionsKey \in req[w].trig
      BY <1>1, <1>2, <2>4 DEF OptionsRead, HasOptions
    <3>5. OptionsRead(r)
      BY <2>2, <3>2, <3>4 DEF OptionsRead
    <3>6. BodyRead(r) /\ FeedRead(r)
      BY <1>1, <1>2, <2>2, <2>4, BodyKept DEF LatePcs
    <3>7. SideRead(r)
      BY <2>2, <3>3 DEF SideRead, SideRecorded
    <3> QED BY <3>5, <3>6, <3>7
  <2>5. r.pc \in ReaderPcs
    BY <2>2 DEF ReaderPcs
  <2> QED BY <1>1, <2>1, <2>3, <2>4, <2>5, ViewGoes
<1> QED BY <1>3, <1>4

(* The data of the sidebar, from the cache. *)
LEMMA InfoFresh ==
  ASSUME Types, FreshInv, NEW w \in Workers, Info(w)
  PROVE  FreshInv'
<1>1. /\ req[w] \in Request /\ req[w].pc = "info" /\ Reading(w)
      /\ UNCHANGED <<db, cache, lost>> /\ SidebarInfo \in Key
  BY DEF Info, Types, ReqOK, Reading, ReaderPcs, Key
<1>2. CleanReader(w) => OptionsRead(req[w]) /\ BodyRead(req[w]) /\ FeedRead(req[w])
  BY DEF FreshInv, ReaderFresh
<1>3. CASE Missing(SidebarInfo)
  <2> DEFINE r == [req[w] EXCEPT !.pc = "side_pages"]
  <2>1. req' = [req EXCEPT ![w] = r]
    BY <1>3 DEF Info, Goto
  <2>2. /\ r.pc = "side_pages" /\ r.op = req[w].op /\ r.id = req[w].id /\ r.zeros = req[w].zeros
        /\ r.clean = req[w].clean /\ r.side = req[w].side /\ r.body = req[w].body /\ r.trig = req[w].trig
    BY <1>1 DEF Request
  <2> HIDE DEF r
  <2>3. CleanReader(w) => BodyRead(r) /\ FeedRead(r)
    BY <1>1, <1>2, <2>2, BodyKept DEF LatePcs
  <2>4. CleanReader(w) => OptionsRead(r) /\ SideRead(r)
    BY <1>1, <1>2, <2>2 DEF OptionsRead, HasOptions, SideRead
  <2>5. r.pc \in ReaderPcs
    BY <2>2 DEF ReaderPcs
  <2> QED BY <1>1, <2>1, <2>2, <2>3, <2>4, <2>5, ViewGoes
<1>4. CASE ~Missing(SidebarInfo)
  <2> DEFINE e == cache[SidebarInfo]
             r == [req[w] EXCEPT !.side = e.side, !.rec = e.trig,
                                 !.clean = IF e.clean = 1 THEN @ ELSE 0, !.pc = "store_frame"]
  <2>1. req' = [req EXCEPT ![w] = r]
    BY <1>1, <1>4 DEF Info
  <2>2. /\ r.pc = "store_frame" /\ r.op = req[w].op /\ r.id = req[w].id
        /\ r.zeros = req[w].zeros /\ r.clean = (IF e.clean = 1 THEN req[w].clean ELSE 0)
        /\ r.side = e.side /\ r.trig = req[w].trig /\ r.rec = e.trig /\ r.body = req[w].body
    BY <1>1 DEF Request
  <2>3. r.clean = 1 => req[w].clean = 1 /\ Live(SidebarInfo)
    BY <1>4, <2>2 DEF Live, Missing
  <2> HIDE DEF r
  <2>4. ASSUME CleanReader(w), r.clean = 1 PROVE OptionsRead(r) /\ BodyRead(r) /\ FeedRead(r) /\ SideRead(r)
    <3>1. EntryRecorded(SidebarInfo) /\ EntryFresh(SidebarInfo)
      BY <1>1, <2>3, <2>4, CleanHit
    <3>2. e.side.options = NoRow
      BY <3>1 DEF EntryRecorded
    <3>3. ShowsPages(r.side) /\ ShowsCats(r.side) /\ SideRecorded(r.side, r.rec)
      BY <2>2, <3>1 DEF EntryRecorded, EntryFresh, FreshSide, WithSidebar
    <3>4. req[w].body.options = options /\ OptionsKey \in req[w].trig
      BY <1>1, <1>2, <2>4 DEF OptionsRead, HasOptions
    <3>5. OptionsRead(r)
      BY <2>2, <3>2, <3>4 DEF OptionsRead
    <3>6. BodyRead(r) /\ FeedRead(r)
      BY <1>1, <1>2, <2>2, <2>4, BodyKept DEF LatePcs
    <3>7. SideRead(r)
      BY <2>2, <3>3 DEF SideRead
    <3> QED BY <3>5, <3>6, <3>7
  <2>5. r.pc \in ReaderPcs
    BY <2>2 DEF ReaderPcs
  <2> QED BY <1>1, <2>1, <2>3, <2>4, <2>5, ViewGoes
<1> QED BY <1>3, <1>4

(* The pages of the sidebar, from the table. *)
LEMMA SidePagesFresh ==
  ASSUME Types, FreshInv, NEW w \in Workers, SidePages(w)
  PROVE  FreshInv'
<1> DEFINE r == [req[w] EXCEPT !.side.pages = OpenPages, !.rec = {PagesTrigger}, !.pc = "side_cats"]
<1>1. /\ req[w] \in Request /\ req[w].pc = "side_pages" /\ Reading(w)
      /\ UNCHANGED <<db, cache, lost>>
  BY DEF SidePages, Types, ReqOK, Reading, ReaderPcs
<1>2. req' = [req EXCEPT ![w] = r]
  BY <1>1 DEF SidePages
<1>3. /\ r.pc = "side_cats" /\ r.op = req[w].op /\ r.id = req[w].id /\ r.zeros = req[w].zeros
      /\ r.clean = req[w].clean /\ r.trig = req[w].trig /\ r.body = req[w].body
      /\ r.side.pages = OpenPages /\ r.side.options = req[w].side.options /\ r.rec = {PagesTrigger}
  BY <1>1 DEF Request, Side
<1> HIDE DEF r
<1>4. CleanReader(w) => OptionsRead(req[w]) /\ BodyRead(req[w]) /\ FeedRead(req[w])
  BY DEF FreshInv, ReaderFresh
<1>5. CleanReader(w) => BodyRead(r) /\ FeedRead(r)
  BY <1>1, <1>3, <1>4, BodyKept DEF LatePcs
<1>6. CleanReader(w) => OptionsRead(r)
  BY <1>1, <1>3, <1>4 DEF OptionsRead, HasOptions
<1>7. SideRead(r)
  BY <1>3 DEF SideRead, ShowsPages
<1>8. r.pc \in ReaderPcs
  BY <1>3 DEF ReaderPcs
<1> QED BY <1>1, <1>2, <1>3, <1>5, <1>6, <1>7, <1>8, ViewGoes

(* The number of posts of a category is a number. *)
LEMMA CountType == ASSUME NEW c PROVE CountIn(c) \in Nat
<1>1. IsFiniteSet(PostId)
  BY IdAssumption, FS_Interval DEF PostId
<1>2. IsFiniteSet(OpenIn(c))
  BY <1>1, FS_Subset DEF OpenIn
<1> QED BY <1>2, FS_CardinalityType DEF CountIn

(* The categories of the sidebar, with their triggers. *)
LEMMA SideCatsFresh ==
  ASSUME Types, FreshInv, NEW w \in Workers, SideCats(w)
  PROVE  FreshInv'
<1> DEFINE r == [req[w] EXCEPT !.side.cats = CategoryCounts,
                               !.rec = @ \cup {CatTrigger(c, 0) : c \in Existing}
                                         \cup {CatsTrigger, GeneralInfo},
                               !.pc = "store_info"]
<1>1. /\ req[w] \in Request /\ req[w].pc = "side_cats" /\ Reading(w)
      /\ UNCHANGED <<db, cache, lost>>
  BY DEF SideCats, Types, ReqOK, Reading, ReaderPcs
<1>2. req' = [req EXCEPT ![w] = r]
  BY <1>1 DEF SideCats
<1>3. /\ r.pc = "store_info" /\ r.op = req[w].op /\ r.id = req[w].id /\ r.zeros = req[w].zeros
      /\ r.clean = req[w].clean /\ r.trig = req[w].trig /\ r.body = req[w].body
      /\ r.side.pages = req[w].side.pages /\ r.side.options = req[w].side.options
      /\ r.side.cats = CategoryCounts
      /\ r.rec = req[w].rec \cup {CatTrigger(c, 0) : c \in Existing} \cup {CatsTrigger, GeneralInfo}
  BY <1>1 DEF Request, Side
<1> HIDE DEF r
<1>4. CleanReader(w) => OptionsRead(req[w]) /\ BodyRead(req[w]) /\ FeedRead(req[w]) /\ SideRead(req[w])
  BY DEF FreshInv, ReaderFresh
<1>5. CleanReader(w) => BodyRead(r) /\ FeedRead(r)
  BY <1>1, <1>3, <1>4, BodyKept DEF LatePcs
<1>6. CleanReader(w) => OptionsRead(r)
  BY <1>1, <1>3, <1>4 DEF OptionsRead, HasOptions
<1>7. CategoryCounts = {<<c, cats[c], CountIn(c)>> : c \in Existing}
  BY DEF CategoryCounts, CountIn
<1>8. \A x \in CategoryCounts : x[1] \in Existing /\ x[3] = CountIn(x[1])
  BY <1>7
<1>9. {<<x[1], x[2]>> : x \in CategoryCounts} = CatNames
  <2>1. ASSUME NEW y \in CatNames PROVE \E x \in CategoryCounts : y = <<x[1], x[2]>>
    <3>1. PICK c \in Existing : y = <<c, cats[c]>>
      BY <2>1 DEF CatNames
    <3>2. <<c, cats[c], CountIn(c)>> \in CategoryCounts
      BY <1>7
    <3> QED BY <3>1, <3>2
  <2>2. ASSUME NEW x \in CategoryCounts PROVE <<x[1], x[2]>> \in CatNames
    BY <1>7, <2>2 DEF CatNames
  <2> QED BY <2>1, <2>2
<1>10. ShowsCats(r.side)
  BY <1>3, <1>8, <1>9, CountType DEF ShowsCats
<1>11. CleanReader(w) => SideRead(r)
  <2>1. CleanReader(w) => ShowsPages(r.side) /\ PagesTrigger \in r.rec
    BY <1>1, <1>3, <1>4 DEF SideRead, ShowsPages
  <2>2. CleanReader(w) => SideRecorded(r.side, r.rec)
    BY <1>3, <1>8, <2>1 DEF SideRecorded
  <2> QED BY <1>3, <1>10, <2>1, <2>2 DEF SideRead
<1>12. r.pc \in ReaderPcs
  BY <1>3 DEF ReaderPcs
<1> QED BY <1>1, <1>2, <1>3, <1>5, <1>6, <1>11, <1>12, ViewGoes

(* The data of the sidebar is stored with the triggers recorded for it. *)
LEMMA StoreInfoFresh ==
  ASSUME Types, FreshInv, NEW w \in Workers, StoreInfo(w)
  PROVE  FreshInv'
<1> DEFINE r == [req[w] EXCEPT !.rec = @ \cup {SidebarInfo}, !.pc = "store_frame"]
           e == SideEntry(w, req[w].rec \cup {SidebarInfo})
           k == SidebarInfo
<1>1. /\ req[w] \in Request /\ req[w].pc = "store_info" /\ Reading(w)
      /\ UNCHANGED <<db, lost>> /\ k \in Key
  BY DEF StoreInfo, Types, ReqOK, Reading, ReaderPcs, Key
<1>2. req' = [req EXCEPT ![w] = r] /\ CacheStore(k, e)
  BY DEF StoreInfo
<1>3. /\ r.pc = "store_frame" /\ r.op = req[w].op /\ r.id = req[w].id /\ r.zeros = req[w].zeros
      /\ r.clean = req[w].clean /\ r.trig = req[w].trig /\ r.body = req[w].body
      /\ r.side = req[w].side /\ r.rec = req[w].rec \cup {SidebarInfo}
  BY <1>1 DEF Request
<1>4. e = [body |-> NoBody, side |-> req[w].side, trig |-> req[w].rec \cup {k}, clean |-> req[w].clean]
  BY DEF SideEntry, EntryOf
<1>5. e # NoRow
  <2>1. /\ NoBody \in Body /\ req[w].side \in Side
        /\ req[w].rec \cup {k} \subseteq Trigger /\ req[w].clean \in Flag
    BY <1>1 DEF Request, Body, NoBody, Trigger
  <2>2. e \in Entry
    BY <1>4, <2>1 DEF Entry
  <2> QED BY <2>2, NoRowAssumption
<1> HIDE DEF r, e
<1>6. UNCHANGED <<Shown, lost>> /\ UNCHANGED <<post2cat, cats, pages, options, lost>>
  BY <1>1 DEF db, Shown
<1>7. CleanReader(w) => OptionsRead(req[w]) /\ BodyRead(req[w]) /\ FeedRead(req[w]) /\ SideRead(req[w])
  BY DEF FreshInv, ReaderFresh
<1>8. CleanReader(w) => /\ ShowsPages(req[w].side) /\ ShowsCats(req[w].side)
                        /\ SideRecorded(req[w].side, req[w].rec)
  BY <1>1, <1>7 DEF SideRead
<1>9. CleanReader(w) => BodyRead(r) /\ FeedRead(r)
  BY <1>1, <1>3, <1>7, BodyKept DEF LatePcs
<1>10. CleanReader(w) => OptionsRead(r) /\ req[w].side.options = NoRow
  BY <1>1, <1>3, <1>7 DEF OptionsRead, HasOptions
<1>11. CleanReader(w) => SideRead(r)
  BY <1>3, <1>8 DEF SideRead, SideRecorded
<1>12. r.pc \in ReaderPcs
  BY <1>3 DEF ReaderPcs
<1>13. Beside(w) /\ Free(w)
  BY <1>1, <1>2, <1>3, <1>6, <1>9, <1>10, <1>11, <1>12, ViewFree
<1>14. cache'[k] = e
  BY <1>1, <1>2 DEF CacheStore
<1>15. /\ cache'[k].side = req[w].side /\ cache'[k].trig = req[w].rec \cup {k}
       /\ e.clean = req[w].clean
  BY <1>4, <1>14
<1>16. CleanReader(w) => EntryRecorded(k)'
  <2>1. CleanReader(w) => SideRecorded(cache'[k].side, cache'[k].trig)
    BY <1>8, <1>15 DEF SideRecorded
  <2> QED BY <1>10, <1>15, <2>1 DEF EntryRecorded, SidebarInfo, RssPosts, RssKey
<1>17. CleanReader(w) => EntryFresh(k)'
  <2>1. CleanReader(w) => FreshOptions(k)'
    BY <1>10, <1>15 DEF FreshOptions
  <2>2. FreshPost(k)' /\ FreshPage(k)' /\ FreshComments(k)' /\ FreshFeeds(k)'
    BY DEF FreshPost, FreshPage, FreshComments, FreshFeeds, SidebarInfo, RssPosts,
           PostKey, PageKey, RssKey, CommentsKey
  <2>3. CleanReader(w) => FreshSide(k)'
    BY <1>6, <1>8, <1>15, PagesQueried, CategoriesQueried, CountsQueried
    DEF FreshSide, ShowsPages, ShowsCats, NoPostLost, NoPageLost
  <2> QED BY <2>1, <2>2, <2>3 DEF EntryFresh
<1>18. e.clean = 1 => CleanReader(w)
  BY <1>1, <1>15 DEF CleanReader
<1> QED BY <1>1, <1>2, <1>5, <1>13, <1>16, <1>17, <1>18, StoreStep

(* The frame of the sidebar is stored with these, and that of the options. *)
LEMMA StoreFrameFresh ==
  ASSUME Types, FreshInv, NEW w \in Workers, StoreFrame(w)
  PROVE  FreshInv'
<1> DEFINE T == FrameTriggers(req[w])
           s == [req[w].side EXCEPT !.options = req[w].body.options]
           r == [req[w] EXCEPT !.trig = @ \cup T, !.side = s, !.rec = {}, !.pc = "store"]
           e == [body |-> NoBody, side |-> s, trig |-> T, clean |-> req[w].clean]
           k == Sidebar
<1>1. /\ req[w] \in Request /\ req[w].pc = "store_frame" /\ Reading(w)
      /\ UNCHANGED <<db, lost>> /\ k \in Key
  BY DEF StoreFrame, Types, ReqOK, Reading, ReaderPcs, Key
<1>2. [SideEntry(w, T) EXCEPT !.side.options = req[w].body.options] = e
  <2>1. SideEntry(w, T) = [body |-> NoBody, side |-> req[w].side, trig |-> T, clean |-> req[w].clean]
    BY DEF SideEntry, EntryOf
  <2> HIDE DEF T
  <2> QED BY <1>1, <2>1 DEF Request, Side
<1>3. CacheStore(k, e)
  BY <1>2 DEF StoreFrame
<1>4. req' = [req EXCEPT ![w] = r]
  BY <1>1 DEF StoreFrame
<1>5. T = req[w].rec \cup {OptionsKey, k}
  BY DEF FrameTriggers
<1>6. s.options = req[w].body.options /\ s.pages = req[w].side.pages /\ s.cats = req[w].side.cats
  BY <1>1 DEF Request, Side
<1>7. e # NoRow
  <2>1. NoBody \in Body /\ s \in Side /\ T \subseteq Trigger /\ req[w].clean \in Flag
    BY <1>1, <1>5 DEF Request, Body, NoBody, Side, Trigger, Key
  <2>2. e \in Entry
    BY <2>1 DEF Entry
  <2> QED BY <2>2, NoRowAssumption
<1>8. e.side = s /\ e.trig = T /\ e.clean = req[w].clean
  OBVIOUS
<1>9. /\ r.pc = "store" /\ r.op = req[w].op /\ r.id = req[w].id /\ r.zeros = req[w].zeros
      /\ r.clean = req[w].clean /\ r.trig = req[w].trig \cup T /\ r.body = req[w].body /\ r.side = s
  BY <1>1 DEF Request
<1> HIDE DEF r, e, s, T
<1>10. UNCHANGED <<Shown, lost>> /\ UNCHANGED <<post2cat, cats, pages, options, lost>>
  BY <1>1 DEF db, Shown
<1>11. CleanReader(w) => OptionsRead(req[w]) /\ BodyRead(req[w]) /\ FeedRead(req[w]) /\ SideRead(req[w])
  BY DEF FreshInv, ReaderFresh
<1>12. CleanReader(w) => ShowsPages(s) /\ ShowsCats(s) /\ SideRecorded(s, T)
  BY <1>1, <1>5, <1>6, <1>11 DEF SideRead, ShowsPages, ShowsCats, SideRecorded
<1>13. CleanReader(w) => req[w].body.options = options /\ OptionsKey \in req[w].trig
  BY <1>1, <1>11 DEF OptionsRead, HasOptions
<1>14. CleanReader(w) => OptionsRead(r)
  BY <1>6, <1>9, <1>13 DEF OptionsRead
<1>15. CleanReader(w) => BodyRead(r) /\ FeedRead(r)
  BY <1>1, <1>9, <1>11, BodyKept DEF LatePcs
<1>16. CleanReader(w) => SideRead(r)
  BY <1>9, <1>12 DEF SideRead, SideRecorded
<1>17. r.pc \in ReaderPcs
  BY <1>9 DEF ReaderPcs
<1>18. Beside(w) /\ Free(w)
  BY <1>1, <1>4, <1>9, <1>10, <1>14, <1>15, <1>16, <1>17, ViewFree
<1>19. cache'[k] = e
  BY <1>1, <1>3 DEF CacheStore
<1>20. CleanReader(w) => EntryRecorded(k)'
  BY <1>5, <1>8, <1>12, <1>19 DEF EntryRecorded, Sidebar, SidebarInfo, RssPosts, RssKey
<1>21. CleanReader(w) => EntryFresh(k)'
  <2>1. CleanReader(w) => FreshOptions(k)'
    BY <1>6, <1>8, <1>10, <1>13, <1>19 DEF FreshOptions
  <2>2. FreshPost(k)' /\ FreshPage(k)' /\ FreshComments(k)' /\ FreshFeeds(k)'
    BY DEF FreshPost, FreshPage, FreshComments, FreshFeeds, Sidebar, RssPosts,
           PostKey, PageKey, RssKey, CommentsKey
  <2>3. CleanReader(w) => FreshSide(k)'
    BY <1>8, <1>10, <1>12, <1>19, PagesQueried, CategoriesQueried, CountsQueried
    DEF FreshSide, ShowsPages, ShowsCats, NoPostLost, NoPageLost
  <2> QED BY <2>1, <2>2, <2>3 DEF EntryFresh
<1>22. e.clean = 1 => CleanReader(w)
  BY <1>1, <1>8 DEF CleanReader
<1> QED BY <1>1, <1>3, <1>7, <1>18, <1>20, <1>21, <1>22, StoreStep

(* The key tells what the response is. *)
LEMMA KeyTells ==
  ASSUME NEW q, q.op \in {"display_post", "display_page", "feed_cat", "feed_comments", "feed_posts"},
         NEW k, k = PageKeyOf(q)
  PROVE  /\ k # SidebarInfo
         /\ k \in WithSidebar => q.op \in PostViews \cup PageViews
         /\ \A p : k = PostKey(p, 0) => q.op = "display_post" /\ q.id = p
         /\ \A i : k = PageKey(i, 0) => q.op = "display_page" /\ q.id = i
         /\ k = CommentsKey => q.op = "feed_comments"
         /\ k = RssPosts => q.op = "feed_posts"
         /\ \A c : k = RssKey(c, 0) => q.op = "feed_cat" /\ q.id = c /\ q.zeros = 0
<1> USE DEF SidebarInfo, Sidebar, PostKey, PageKey, RssKey, CommentsKey, RssPosts
<1>1. CASE q.op = "display_post"
  <2>1. k = PostKey(q.id, q.zeros)
    BY <1>1 DEF PageKeyOf
  <2> QED BY <1>1, <2>1 DEF PostViews
<1>2. CASE q.op = "display_page"
  <2>1. k = PageKey(q.id, q.zeros)
    BY <1>2 DEF PageKeyOf
  <2> QED BY <1>2, <2>1 DEF PageViews
<1>3. CASE q.op = "feed_cat"
  <2>1. k = RssKey(q.id, q.zeros)
    BY <1>3 DEF PageKeyOf
  <2> QED BY <1>3, <2>1 DEF WithSidebar
<1>4. CASE q.op = "feed_comments"
  <2>1. k = CommentsKey
    BY <1>4 DEF PageKeyOf
  <2> QED BY <1>4, <2>1 DEF WithSidebar
<1>5. CASE q.op = "feed_posts"
  <2>1. k = RssPosts
    BY <1>5 DEF PageKeyOf
  <2> QED BY <1>5, <2>1 DEF WithSidebar
<1> QED BY <1>1, <1>2, <1>3, <1>4, <1>5

(* store_page: the response is stored with every trigger recorded on the way. *)
LEMMA StorePageFresh ==
  ASSUME Types, FreshInv, NEW w \in Workers, StorePage(w)
  PROVE  FreshInv'
<1>1. /\ req[w] \in Request /\ req[w].pc = "store" /\ Reading(w) /\ LocalOK(req[w])
      /\ UNCHANGED <<db, lost>> /\ Finish(w)
  BY DEF StorePage, Types, ReqOK, LocalsOK, Reading, ReaderPcs
<1>2. req[w].op \in {"display_post", "display_page", "feed_cat", "feed_comments", "feed_posts"}
  BY <1>1 DEF StorePage, Uncached, LocalOK, ReaderPcs, ReaderOps, PostViews, PageViews
<1>3. PICK q : q = req[w]
  OBVIOUS
<1>4. PICK k : k = PageKeyOf(q)
  OBVIOUS
<1>5. k \in Key
  <2>1. q.zeros \in Spellings
    BY <1>1, <1>3 DEF Request
  <2> QED BY <1>1, <1>2, <1>3, <1>4, <2>1, KeyTypes DEF PageKeyOf, LocalOK, PostViews, PageViews
<1> DEFINE e == [body |-> q.body, side |-> q.side, trig |-> q.trig \cup {k}, clean |-> q.clean]
<1>6. CacheStore(k, e)
  BY <1>3, <1>4 DEF StorePage, EntryOf
<1>7. e # NoRow
  <2>1. q.body \in Body /\ q.side \in Side /\ q.trig \cup {k} \subseteq Trigger /\ q.clean \in Flag
    BY <1>1, <1>3, <1>5 DEF Request, Trigger
  <2>2. e \in Entry
    BY <2>1 DEF Entry
  <2> QED BY <2>2, NoRowAssumption
<1>8. e.body = q.body /\ e.side = q.side /\ e.trig = q.trig \cup {k} /\ e.clean = q.clean
  OBVIOUS
<1> HIDE DEF e
<1>9. Beside(w) /\ Free(w)
  BY <1>1, FinishFree
<1>10. cache'[k] = e
  BY <1>5, <1>6 DEF CacheStore
<1>11. UNCHANGED <<posts, post2cat, comments, cats, pages, options, lost>>
  BY <1>1 DEF db
<1>12. /\ k # SidebarInfo
       /\ k \in WithSidebar => q.op \in PostViews \cup PageViews
       /\ \A p : k = PostKey(p, 0) => q.op = "display_post" /\ q.id = p
       /\ \A i : k = PageKey(i, 0) => q.op = "display_page" /\ q.id = i
       /\ k = CommentsKey => q.op = "feed_comments"
       /\ k = RssPosts => q.op = "feed_posts"
       /\ \A c : k = RssKey(c, 0) => q.op = "feed_cat" /\ q.id = c /\ q.zeros = 0
  <2>1. q.op \in {"display_post", "display_page", "feed_cat", "feed_comments", "feed_posts"}
    BY <1>2, <1>3
  <2> QED BY <1>4, <2>1, KeyTells
<1>13. ASSUME CleanReader(w) PROVE EntryRecorded(k)' /\ EntryFresh(k)'
  <2>1. OptionsRead(q) /\ BodyRead(q) /\ FeedRead(q) /\ SideRead(q) /\ q.pc = "store"
    BY <1>1, <1>3, <1>13 DEF FreshInv, ReaderFresh
  <2>2. q.body.options = options /\ OptionsKey \in q.trig /\ q.side.options \in {NoRow, options}
    BY <2>1 DEF OptionsRead, HasOptions
  <2>3. q.op \in PostViews \cup PageViews =>
          ShowsPages(q.side) /\ ShowsCats(q.side) /\ SideRecorded(q.side, q.trig)
    BY <2>1 DEF SideRead
  <2>4. EntryRecorded(k)'
    <3>1. k \in WithSidebar => SideRecorded(q.side, q.trig \cup {k})
      BY <1>12, <2>3 DEF SideRecorded
    <3>2. k = RssPosts => AllPosts \in q.trig /\ ListRecorded(q.body, q.trig \cup {k})
      BY <1>12, <2>1 DEF FeedRead, ListRecorded
    <3>3. \A c \in CatId : k = RssKey(c, 0) =>
             CatTrigger(c, 0) \in q.trig /\ ListRecorded(q.body, q.trig \cup {k})
      BY <1>12, <2>1 DEF FeedRead, ListRecorded
    <3> QED BY <1>8, <1>10, <1>12, <2>2, <3>1, <3>2, <3>3 DEF EntryRecorded
  <2>5. FreshOptions(k)'
    BY <1>8, <1>10, <1>11, <2>2 DEF FreshOptions
  <2>6. FreshPost(k)'
    <3>1. \A p \in PostId : k = PostKey(p, 0) =>
            ShowsRow(p, q.body) /\ q.body.comments = RowsOf(p) /\ q.body.cats = CategoriesOf(p)
      BY <1>12, <2>1 DEF BodyRead, BeforeComments
    <3> QED BY <1>8, <1>10, <1>11, <3>1, CommentsQueried, LinksQueried DEF FreshPost, ShowsRow
  <2>7. FreshPage(k)'
    <3>1. \A i \in PageId : k = PageKey(i, 0) => ShowsPage(i, q.body)
      BY <1>12, <2>1 DEF BodyRead
    <3> QED BY <1>8, <1>10, <1>11, <3>1 DEF FreshPage, ShowsPage
  <2>8. FreshSide(k)'
    BY <1>8, <1>10, <1>11, <1>12, <2>3, PagesQueried, CategoriesQueried, CountsQueried
    DEF FreshSide, ShowsPages, ShowsCats, NoPostLost, NoPageLost
  <2>9. FreshComments(k)'
    <3>1. k = CommentsKey => q.body.comments \in CommentFeeds
      BY <1>12, <2>1 DEF BodyRead
    <3> QED BY <1>8, <1>10, <1>11, <3>1, CommentsQueried DEF FreshComments
  <2>10. FreshFeeds(k)'
    <3>1. k = RssPosts /\ NoPostLost => q.body.posts \in PostFeeds
      BY <1>12, <2>1 DEF FeedRead
    <3>2. \A c \in CatId : k = RssKey(c, 0) =>
             ShowsName(c, q.body) /\ (NoPostLost => q.body.posts \in CatFeeds(c))
      BY <1>12, <2>1 DEF FeedRead
    <3> QED BY <1>8, <1>10, <1>11, <3>1, <3>2, PostsQueried DEF FreshFeeds, ShowsName, NoPostLost
  <2> QED BY <2>4, <2>5, <2>6, <2>7, <2>8, <2>9, <2>10 DEF EntryFresh
<1>14. e.clean = 1 => CleanReader(w)
  BY <1>1, <1>3, <1>8 DEF CleanReader
<1> QED BY <1>1, <1>5, <1>6, <1>7, <1>9, <1>13, <1>14, StoreStep

(* Every step of a response. *)
LEMMA ViewFresh ==
  ASSUME Types, FreshInv, NEW w \in Workers, ViewStep(w)
  PROVE  FreshInv'
<1>1. CASE Respond(w)
  BY <1>1, ViewEnds DEF Respond, Reading, ReaderPcs
<1> QED BY <1>1, PostRowFresh, PageRowFresh, FeedCatRowFresh, PostCommentsFresh, PostCategoriesFresh,
        FeedCommentsFresh, FeedPostsFresh, OptionsHitFresh, OptionsStoreFresh, FrameFresh, InfoFresh,
        SidePagesFresh, SideCatsFresh, StoreInfoFresh, StoreFrameFresh, StorePageFresh DEF ViewStep

-----------------------------------------------------------------------------
(* The invariant, and what it says of the cache.                           *)

(* An empty cache shows nothing outdated. *)
LEMMA InitFresh == Init => FreshInv
<1> SUFFICES ASSUME Init PROVE FreshInv
  OBVIOUS
<1>1. \A w \in Workers : req[w].pc = "idle"
  BY DEF Init, Idle
<1>2. \A k \in Key : ~Live(k)
  BY DEF Init, Live
<1>3. AfterOps /\ CleanAlone /\ RisenGone /\ LinksRead /\ \A w \in Workers : ReaderFresh(w)
  BY <1>1 DEF AfterOps, CleanAlone, RisenGone, LinksRead, At, ReaderFresh, CleanReader, Reading, ReaderPcs
<1>4. FreeIds
  BY DEF Init, FreeIds
<1> QED BY <1>2, <1>3, <1>4 DEF FreshInv, CacheFresh

(* Every step keeps the invariant. *)
LEMMA StepFresh ==
  ASSUME Types, Facts, TxInv, FreshInv, Next PROVE FreshInv'
<1>1. CASE Restart
  BY <1>1, ClearFresh
<1>2. ASSUME NEW w \in Workers, Arrive(w) \/ Step(w) PROVE FreshInv'
  <2>1. CASE NewLanguage(w)
    BY <2>1, ClearFresh
  <2>2. CASE \/ DisplayPost(w) \/ DisplayPage(w) \/ Preview(w)
             \/ FeedComments(w) \/ FeedPosts(w) \/ FeedCat(w) \/ AdminForm(w) \/ ClearCache(w)
             \/ AfterRises(w) \/ Rollback(w) \/ LockTimeout(w)
    BY <2>2, StartFresh
  <2>3. CASE \/ PostStart(w) \/ PostIsOpen(w) \/ PostInUse(w) \/ PostForm(w)
             \/ Postback(w) \/ SendSelect(w) \/ CommentStart(w) \/ CatRemove(w) \/ PageIsOpen(w)
    BY <2>3, ReadFresh
  <2>4. CASE \/ PostInsert(w) \/ PostRemove(w) \/ PostEdit(w)
             \/ SendInsert(w) \/ CommentExec(w) \/ OptionsExec(w)
    BY <2>4, ExecFresh
  <2>5. CASE \/ PostInsertCommit(w) \/ PostRemoveCommit(w) \/ PostEditCommit(w)
             \/ SendCommit(w) \/ EraseCommit(w)
    BY <2>5, SettledFresh
  <2>6. CASE AmendCommit(w)
    BY <2>6, AmendFresh
  <2>7. CASE CatAdd(w) \/ CatRename(w) \/ CatDelete(w)
    BY <2>7, CategoryFresh
  <2>8. CASE PageInsert(w) \/ PageDelete(w) \/ PageUpdate(w)
    BY <2>8, PageChangeFresh
  <2>9. CASE OptionsCommit(w) \/ Rise(w) \/ ViewStep(w)
    BY <2>9, OptionsFreshStep, RiseStep, ViewFresh
  <2> QED BY <1>2, <2>1, <2>2, <2>3, <2>4, <2>5, <2>6, <2>7, <2>8, <2>9
          DEF Arrive, Step, PostAdminStep, CommentStep, SiteAdminStep
<1> QED BY <1>1, <1>2 DEF Next

(* A step that changes nothing keeps the invariant. *)
LEMMA StutterFresh == Types /\ FreshInv /\ UNCHANGED vars => FreshInv'
<1> SUFFICES ASSUME Types, FreshInv, UNCHANGED vars PROVE FreshInv'
  OBVIOUS
<1>1. UNCHANGED <<posts, post2cat, comments, cats, pages, options, nextId, cache, req, lost>>
  BY DEF vars
<1>2. AfterOps' /\ CleanAlone' /\ LinksRead' /\ FreeIds'
  BY <1>1 DEF FreshInv, AfterOps, CleanAlone, CleanReader, Reading, Writing, LinksRead, At, Linked, FreeIds
<1>3. RisenGone'
  <2> SUFFICES ASSUME NEW v \in Workers, req'[v].pc = "tx", NEW t \in (DueOf(req[v]) \ req[v].rises)',
                      NEW k \in Key, Live(k)'
               PROVE  t \notin cache'[k].trig
    BY DEF RisenGone
  <2>1. t \in DueOf(req[v]) \ req[v].rises
    BY <1>1 DEF DueOf, InsertRises, EditRises, RemoveRises, SendRises, CommentRises
  <2> QED BY <1>1, <2>1 DEF FreshInv, RisenGone, Live
<1>4. CacheFresh'
  <2> SUFFICES ASSUME NEW k \in Key, Live(k)' PROVE (EntryRecorded(k) /\ (Overdue(k) \/ EntryFresh(k)))'
    BY DEF CacheFresh
  <2>1. cache[k] # NoRow /\ EntryRecorded(k) /\ (Overdue(k) \/ EntryFresh(k))
    BY <1>1 DEF FreshInv, CacheFresh, Live
  <2>2. Overdue(k) => Overdue(k)'
    BY <1>1 DEF Overdue
  <2> QED BY <1>1, <2>1, <2>2, RecordStays, EntryStays
<1>5. \A v \in Workers : ReaderFresh(v)'
  BY <1>1, ReaderStays DEF FreshInv, Shown
<1> QED BY <1>2, <1>3, <1>4, <1>5 DEF FreshInv

(* In every state, whatever requests run side by side, time out, fail or   *)
(* are cut off by a restart, every clean entry of the cache has recorded   *)
(* the triggers of what it shows, and shows what the tables hold unless a  *)
(* request that has committed is about to take it away.                    *)
THEOREM FreshInvariant == Spec => []FreshInv
<1>1. TableInv /\ FreshInv /\ [Next]_vars => FreshInv'
  <2> SUFFICES ASSUME TableInv, FreshInv, [Next]_vars PROVE FreshInv'
    OBVIOUS
  <2>1. Types /\ Facts /\ TxInv
    BY InvParts
  <2> QED BY <2>1, StepFresh, StutterFresh
<1> QED BY <1>1, InitFresh, TableInvariant, PTL DEF Spec

(* While nobody writes, nothing is overdue. *)
LEMMA QuietFresh ==
  ASSUME FreshInv, Quiet, NEW k \in Key, Live(k) PROVE EntryFresh(k)
BY DEF FreshInv, CacheFresh, Overdue, Quiet, Writing

(* The "options" trigger reaches every entry that shows the options of the *)
(* blog: while nobody writes, all of them show those in the table.         *)
THEOREM OptionsAlwaysFresh == Spec => []OptionsFresh
<1>1. FreshInv => OptionsFresh
  <2> SUFFICES ASSUME FreshInv, Quiet, NEW k \in Key, Live(k)
               PROVE  /\ k # SidebarInfo /\ k # Sidebar => cache[k].body.options = options
                      /\ cache[k].side.options \in {NoRow, options}
    BY DEF OptionsFresh
  <2> QED BY QuietFresh DEF EntryFresh, FreshOptions
<1> QED BY <1>1, FreshInvariant, PTL

(* The cached page of a post shows the text, the comments and the          *)
(* categories in the tables, and only of an open post, whatever edits,     *)
(* removals, postbacks and erasures came between.                          *)
THEOREM PostPageAlwaysFresh == Spec => []PostPageFresh
<1>1. FreshInv => PostPageFresh
  <2> SUFFICES ASSUME FreshInv, Quiet, NEW p \in PostId, Live(PostKey(p, 0))
               PROVE  /\ posts[p] # NoRow /\ posts[p].open = 1
                      /\ cache[PostKey(p, 0)].body.text = posts[p].text
                      /\ cache[PostKey(p, 0)].body.comments = CommentRows(CommentsOf(p))
                      /\ cache[PostKey(p, 0)].body.cats = CategoriesOf(p)
    BY DEF PostPageFresh
  <2>1. EntryFresh(PostKey(p, 0))
    BY KeyTypes, QuietFresh
  <2> QED BY <2>1 DEF EntryFresh, FreshPost, ShowsRow, RowsOf
<1> QED BY <1>1, FreshInvariant, PTL

(* The cached page of blog::page shows a page that is open, as it is,      *)
(* unless admin::page once acted on an outdated is_open.                   *)
THEOREM PageAlwaysFresh == Spec => []PageFresh
<1>1. FreshInv => PageFresh
  <2> SUFFICES ASSUME FreshInv, Quiet, NEW i \in PageId, Live(PageKey(i, 0)), <<"page", i>> \notin lost
               PROVE  /\ pages[i] # NoRow /\ pages[i].open = 1
                      /\ cache[PageKey(i, 0)].body.text = pages[i].text
    BY DEF PageFresh
  <2>1. EntryFresh(PageKey(i, 0))
    BY KeyTypes, QuietFresh
  <2> QED BY <2>1 DEF EntryFresh, FreshPage, ShowsPage
<1> QED BY <1>1, FreshInvariant, PTL

(* The sidebar, cached by itself or inside a page, lists the pages and the *)
(* categories of the tables, and no category with fewer posts than it has. *)
THEOREM SidebarAlwaysFresh == Spec => []SidebarFresh
<1>1. FreshInv => SidebarFresh
  <2> SUFFICES ASSUME FreshInv, Quiet, NEW k \in WithSidebar, Live(k)
               PROVE  /\ NoPageLost => cache[k].side.pages = OpenPages
                      /\ {<<x[1], x[2]>> : x \in cache[k].side.cats} = {<<c, cats[c]>> : c \in Existing}
                      /\ NoPostLost => \A x \in cache[k].side.cats : x[3] >= Cardinality(OpenIn(x[1]))
    BY DEF SidebarFresh, NoPageLost, NoPostLost
  <2>1. k \in Key
    BY DEF WithSidebar, Key
  <2>2. EntryFresh(k)
    BY <2>1, QuietFresh
  <2> QED BY <2>2 DEF EntryFresh, FreshSide, ShowsPages, ShowsCats, CatNames, CountIn
<1> QED BY <1>1, FreshInvariant, PTL

(* The cached feed of comments shows the latest comments there are, also   *)
(* after a post and its comments have been removed.                        *)
THEOREM CommentsFeedAlwaysFresh == Spec => []CommentsFeedFresh
<1>1. FreshInv => CommentsFeedFresh
  <2> SUFFICES ASSUME FreshInv, Quiet, Live(CommentsKey)
               PROVE  \E ks \in RecentComments : cache[CommentsKey].body.comments = CommentRows(ks)
    BY DEF CommentsFeedFresh
  <2>1. EntryFresh(CommentsKey)
    BY KeyTypes, QuietFresh
  <2> QED BY <2>1 DEF EntryFresh, FreshComments, CommentFeeds
<1> QED BY <1>1, FreshInvariant, PTL

(* The cached feeds of posts show the latest open posts of the blog or of  *)
(* the category, with their present texts, unless some post was changed by *)
(* a form built from outdated values.                                      *)
THEOREM PostFeedsAlwaysFresh == Spec => []PostFeedsFresh
<1>1. FreshInv => PostFeedsFresh
  <2> SUFFICES ASSUME FreshInv, Quiet, NoPostLost
               PROVE  /\ Live(RssPosts) =>
                            \E ps \in RecentPosts : cache[RssPosts].body.posts = PostRows(ps)
                      /\ \A c \in CatId : Live(RssKey(c, 0)) =>
                            /\ cache[RssKey(c, 0)].body.text = cats[c]
                            /\ \E ps \in RecentIn(c) : cache[RssKey(c, 0)].body.posts = PostRows(ps)
    BY DEF PostFeedsFresh, NoPostLost
  <2>1. ASSUME Live(RssPosts) PROVE \E ps \in RecentPosts : cache[RssPosts].body.posts = PostRows(ps)
    <3>1. EntryFresh(RssPosts)
      BY <2>1, KeyTypes, QuietFresh
    <3> QED BY <3>1 DEF EntryFresh, FreshFeeds, PostFeeds
  <2>2. ASSUME NEW c \in CatId, Live(RssKey(c, 0))
        PROVE  /\ cache[RssKey(c, 0)].body.text = cats[c]
               /\ \E ps \in RecentIn(c) : cache[RssKey(c, 0)].body.posts = PostRows(ps)
    <3>1. EntryFresh(RssKey(c, 0))
      BY <2>2, KeyTypes, QuietFresh
    <3> QED BY <3>1 DEF EntryFresh, FreshFeeds, ShowsName, CatFeeds
  <2> QED BY <2>1, <2>2
<1> QED BY <1>1, FreshInvariant, PTL

-----------------------------------------------------------------------------
(***************************************************************************)
(* The lists.  Their inductive invariant has the same parts as that of the *)
(* other pages: local variables of a clean request are what the tables     *)
(* hold, entries have recorded the triggers of what they show, and nothing *)
(* is left of what a transaction has risen.                                *)
(***************************************************************************)
EarlyList == {"max", "max_select", "max_store", "page", "name", "name_select", "name_store",
              "count", "count_select", "count_store", "rows"}
NamedList == {"name", "name_select", "name_store", "count", "count_select", "count_store",
              "rows", "options", "render"}
LocalNames == {"pc", "cat", "page", "q", "num", "name", "rows", "trig"}
ListLocal(l) == l.num \in Nat /\ l = [x \in LocalNames |-> l[x]]
ListTypes == /\ lists = [k \in ListKeys |-> lists[k]]
             /\ \A k \in ListKeys : Fetched(k) => lists[k].num \in Nat
ListShape == /\ ListTypes
             /\ lreq = [w \in Workers |-> lreq[w]]
             /\ \A w \in Workers : ListLocal(lreq[w])

(* Where the thread's request stands while the handler of a list runs. *)
ListPlace(w) == LET l == lreq[w] IN l.pc # "none" =>
    /\ l.cat \in ListCats /\ l.page \in UrlPages /\ l.q \in Queries
    /\ l.pc \in {"name", "name_select", "name_store"} => l.cat # 0
    /\ req[w].op = "preview_page"
    /\ \/ l.pc \in EarlyList /\ req[w].pc = "options"
       \/ l.pc = "options" /\ req[w].pc \in MidPcs \cup {"frame"}
       \/ l.pc = "render" /\ req[w].pc \in LatePcs

(* Rows and numbers that the queries would return now. *)
ShowsListed(rows, c, q) == \A x \in rows :
    x.post \in Listed(c, q) /\ x = [ShownRow(x.post) EXCEPT !.cats = x.cats]
ShowsLinks(rows) == \A x \in rows : x.cats = CategoriesOf(x.post)
ShowsNewest(rows, c) ==
    LET all == Listed(c, NoRow)
        top == {x.post : x \in rows}
    IN /\ Cardinality(top) = PageSize \/ top = all
       /\ \A x \in top, y \in all \ top : DateIn(c)[x] >= DateIn(c)[y]
CoversCats(num) == \A c \in Existing : c <= num
CoversPosts(num, c) == num >= Cardinality(Listed(c, NoRow))
RowsRecorded(rows, T) == \A x \in rows : PostKey(x.post, 0) \in T

(* What an entry records, and what it shows. *)
ListRecords(k) == LET e == lists[k] IN
    /\ k = MaxCatKey => CatsTrigger \in e.trig
    /\ \A c \in ListCats : k \in {NameKey(c), CountKey(c, NoRow)} => CatOf(c) \in e.trig
    /\ \A c \in ListCats, n \in UrlPages, q \in Queries : k = SummaryKey(c, n, q) =>
         {CatOf(c), CatsTrigger} \subseteq e.trig /\ RowsRecorded(e.rows, e.trig)
ListCurrent(k) == LET e == lists[k] IN
    /\ k = MaxCatKey => CoversCats(e.num)
    /\ \A c \in ListCats \ {0} : k = NameKey(c) => e.name \in {NoRow, cats[c]}
    /\ \A c \in ListCats : k = CountKey(c, NoRow) /\ NoPostLost => CoversPosts(e.num, c)
    /\ \A c \in ListCats, n \in UrlPages, q \in Queries : k = SummaryKey(c, n, q) =>
         /\ ShowsListed(e.rows, c, q) /\ ShowsLinks(e.rows)
         /\ n = 0 /\ q = NoRow /\ NoPostLost => ShowsNewest(e.rows, c)
ListOverdue(k) == \E w \in Workers : req[w].pc = "after" /\ req[w].rises \cap lists[k].trig # {}
ListFresh == \A k \in ListKeys : Kept(k) => ListRecords(k) /\ (ListOverdue(k) \/ ListCurrent(k))

(* What a clean request has read. *)
ReadsList(l) ==
    /\ l.pc = "max_store" => CoversCats(l.num)
    /\ l.pc = "name_store" => l.name = cats[l.cat]
    /\ l.pc = "count_store" => l.num = Cardinality(Listed(l.cat, l.q))
    /\ l.pc \in NamedList => CatOf(l.cat) \in l.trig
    /\ l.pc \in {"options", "render"} =>
         /\ RowsRecorded(l.rows, l.trig) /\ ShowsListed(l.rows, l.cat, l.q)
         /\ l.page = 0 /\ l.q = NoRow => ShowsNewest(l.rows, l.cat)
    /\ l.pc = "render" => ShowsLinks(l.rows)
ListRead(w) == CleanReader(w) => ReadsList(lreq[w])

(* What a transaction has risen has left the lists too. *)
ListRisen == \A w \in Workers : req[w].pc = "tx" =>
    \A t \in DueOf(req[w]) \ req[w].rises : \A k \in ListKeys : Kept(k) => t \notin lists[k].trig

ListInv == /\ ListShape /\ ListRisen /\ ListFresh
           /\ \A w \in Workers : ListPlace(w) /\ ListRead(w)

(***************************************************************************)
(* The results of the queries depend on the tables they read only.         *)
(***************************************************************************)

(* The queries of the lists see no other table. *)
LEMMA ListsQueried ==
  ASSUME UNCHANGED <<posts, post2cat, cats>>
  PROVE  /\ Existing' = Existing
         /\ \A c, q : Listed(c, q)' = Listed(c, q)
         /\ \A c : DateIn(c)' = DateIn(c)
         /\ \A p : ShownRow(p)' = ShownRow(p) /\ CategoriesOf(p)' = CategoriesOf(p)
<1>1. OpenPosts' = OpenPosts /\ \A c : OpenIn(c)' = OpenIn(c)
  BY DEF OpenPosts, OpenIn
<1>2. \A c, q : Listed(c, q)' = Listed(c, q)
  BY <1>1 DEF Listed, Matches
<1>3. \A c : DateIn(c)' = DateIn(c)
  BY <1>2 DEF DateIn
<1> QED BY <1>2, <1>3, LinksQueried, CategoriesQueried DEF ShownRow

(* So what a request has read stays right. *)
LEMMA ReadsStay ==
  ASSUME UNCHANGED <<posts, post2cat, cats>>, NEW l, ReadsList(l)
  PROVE  ReadsList(l)'
<1>1. \A num, c : (CoversCats(num) => CoversCats(num)') /\ (CoversPosts(num, c) => CoversPosts(num, c)')
  BY ListsQueried DEF CoversCats, CoversPosts
<1>2. \A rows, c, q : ShowsListed(rows, c, q) => ShowsListed(rows, c, q)'
  BY ListsQueried DEF ShowsListed
<1>3. \A rows, c : ShowsNewest(rows, c) => ShowsNewest(rows, c)'
  BY ListsQueried DEF ShowsNewest
<1>4. \A rows : ShowsLinks(rows) => ShowsLinks(rows)'
  BY ListsQueried DEF ShowsLinks
<1> QED BY <1>1, <1>2, <1>3, <1>4, ListsQueried DEF ReadsList, RowsRecorded, CatOf

(* So does an entry that is still there. *)
LEMMA ListStays ==
  ASSUME UNCHANGED <<posts, post2cat, cats>>, lost \subseteq lost',
         NEW k \in ListKeys, lists'[k] = lists[k], ListCurrent(k)
  PROVE  ListCurrent(k)'
<1>1. \A num, c : (CoversCats(num) => CoversCats(num)') /\ (CoversPosts(num, c) => CoversPosts(num, c)')
  BY ListsQueried DEF CoversCats, CoversPosts
<1>2. \A rows, c, q : ShowsListed(rows, c, q) => ShowsListed(rows, c, q)'
  BY ListsQueried DEF ShowsListed
<1>3. \A rows, c : ShowsNewest(rows, c) => ShowsNewest(rows, c)'
  BY ListsQueried DEF ShowsNewest
<1>4. \A rows : ShowsLinks(rows) => ShowsLinks(rows)'
  BY ListsQueried DEF ShowsLinks
<1>5. (NoPostLost' => NoPostLost) /\ cats' = cats
  BY LostGrows
<1> QED BY <1>1, <1>2, <1>3, <1>4, <1>5 DEF ListCurrent

(* Its triggers are those it was stored with. *)
LEMMA ListRecordsStay ==
  ASSUME NEW k \in ListKeys, lists'[k] = lists[k], ListRecords(k) PROVE ListRecords(k)'
BY DEF ListRecords, RowsRecorded, CatOf

(***************************************************************************)
(* Changes of a post and of a category.                                    *)
(***************************************************************************)

(* The keys of the lists are told apart. *)
LEMMA ListKeysDiffer ==
  /\ \A c : NameKey(c) # MaxCatKey
  /\ \A c, q : CountKey(c, q) # MaxCatKey
  /\ \A c, n, q : SummaryKey(c, n, q) # MaxCatKey
  /\ \A c, d, q : NameKey(c) # CountKey(d, q)
  /\ \A c, d, n, q : NameKey(c) # SummaryKey(d, n, q)
  /\ \A c, d, n, q, s : CountKey(c, q) # SummaryKey(d, n, s)
  /\ \A c, d : NameKey(c) = NameKey(d) => c = d
  /\ \A c, d, q, s : CountKey(c, q) = CountKey(d, s) => c = d /\ q = s
  /\ \A c, d, m, n, q, s : SummaryKey(c, m, q) = SummaryKey(d, n, s) => c = d /\ m = n /\ q = s
BY DEF MaxCatKey, NameKey, CountKey, SummaryKey

(* The lists are of finite sets of posts. *)
LEMMA ListedFinite ==
  \A c, q : Listed(c, q) \subseteq PostId /\ IsFiniteSet(Listed(c, q))
            /\ Cardinality(Listed(c, q)) \in Nat
<1>1. IsFiniteSet(PostId)
  BY FS_Interval, IdAssumption DEF PostId
<1>2. \A c, q : Listed(c, q) \subseteq PostId
  BY DEF Listed, OpenPosts, OpenIn
<1> QED BY <1>1, <1>2, FS_Subset, FS_CardinalityType

(* Only posts that are there are listed. *)
LEMMA ListedThere ==
  ASSUME PublishSync, NEW c \in {0} \cup CatId, NEW q, NEW x \in Listed(c, q)
  PROVE  x \in PostId /\ posts[x] # NoRow
BY DEF Listed, OpenPosts, OpenIn, PublishSync, Linked

(* A change of the post p, as seen by the list of c that keeps its trigger. *)
LEMMA PostLeaves ==
  ASSUME NEW p \in PostId, NEW R, PostChange(p, R), NEW c \in {0} \cup CatId, CatOf(c) \notin R,
         NoPostLost
  PROVE  /\ Listed(c, NoRow)' \subseteq Listed(c, NoRow)
         /\ \A y \in Listed(c, NoRow)' : DateIn(c)'[y] = DateIn(c)[y]
<1> DEFINE S == IF c = 0 THEN OpenPosts ELSE OpenIn(c)
           D(y) == IF c = 0 THEN posts[y].publish ELSE post2cat[y][c].publish
<1>1. Listed(c, NoRow) = S /\ S \subseteq PostId
  BY DEF Listed, Matches, OpenPosts, OpenIn
<1>2. Listed(c, NoRow)' = S'
  BY DEF Listed, Matches, OpenPosts, OpenIn
<1>3. \A y \in PostId \ {p} : (y \in S <=> y \in S') /\ D(y)' = D(y)
  BY DEF PostChange, OpenPosts, OpenIn
<1>4. p \in S' => p \in S /\ D(p)' = D(p)
  BY DEF PostChange, CatOf
<1>5. S' \subseteq S /\ \A y \in S' : D(y)' = D(y)
  <2>1. S' \subseteq PostId
    BY DEF OpenPosts, OpenIn
  <2> HIDE DEF S, D
  <2> QED BY <1>3, <1>4, <2>1
<1>6. \A y \in Listed(c, NoRow) : DateIn(c)[y] = D(y)
  BY <1>1 DEF DateIn
<1>7. \A y \in Listed(c, NoRow)' : DateIn(c)'[y] = D(y)'
  BY DEF DateIn
<1> HIDE DEF S, D
<1> QED BY <1>1, <1>2, <1>5, <1>6, <1>7

(* The first page stays one when posts that are not on it go. *)
LEMMA NewestStays ==
  ASSUME NEW c, NEW rows, ShowsNewest(rows, c), Listed(c, NoRow)' \subseteq Listed(c, NoRow),
         \A y \in Listed(c, NoRow)' : DateIn(c)'[y] = DateIn(c)[y],
         \A x \in rows : x.post \in Listed(c, NoRow)'
  PROVE  ShowsNewest(rows, c)'
<1> DEFINE top == {x.post : x \in rows}
<1>1. top \subseteq Listed(c, NoRow)'
  OBVIOUS
<1>2. /\ Cardinality(top) = PageSize \/ top = Listed(c, NoRow)
      /\ \A x \in top, y \in Listed(c, NoRow) \ top : DateIn(c)[x] >= DateIn(c)[y]
  BY DEF ShowsNewest
<1> HIDE DEF top
<1>3. /\ Cardinality(top) = PageSize \/ top = Listed(c, NoRow)'
      /\ \A x \in top, y \in Listed(c, NoRow)' \ top : DateIn(c)'[x] >= DateIn(c)'[y]
  BY <1>1, <1>2
<1> QED BY <1>3 DEF ShowsNewest, top

(* A change of a post does no harm to lists without its triggers. *)
LEMMA OnePostLists ==
  ASSUME Facts, NEW p \in PostId, NEW R, PostChange(p, R),
         NEW k \in ListKeys, lists'[k] = lists[k], ListRecords(k), ListCurrent(k),
         lists[k].num \in Nat, lists[k].trig \cap R = {}
  PROVE  ListCurrent(k)'
<1> DEFINE e == lists[k]
<1>1. UNCHANGED <<cats, lost>> /\ NoPostLost' = NoPostLost
  BY DEF PostChange, NoPostLost
<1>2. k = MaxCatKey => CoversCats(e.num)'
  BY <1>1 DEF ListCurrent, CoversCats, Existing
<1>3. \A c \in ListCats \ {0} : k = NameKey(c) => e.name \in {NoRow, cats'[c]}
  BY <1>1 DEF ListCurrent
<1>4. ASSUME NEW c \in ListCats, k = CountKey(c, NoRow), NoPostLost PROVE CoversPosts(e.num, c)'
  <2>1. CatOf(c) \notin R /\ CoversPosts(e.num, c) /\ c \in {0} \cup CatId
    BY <1>4, ListAssumption DEF ListRecords, ListCurrent
  <2>2. Listed(c, NoRow)' \subseteq Listed(c, NoRow)
    BY <1>4, <2>1, PostLeaves
  <2>3. Cardinality(Listed(c, NoRow)') <= Cardinality(Listed(c, NoRow))
    BY <2>2, ListedFinite, FS_Subset
  <2>4. Cardinality(Listed(c, NoRow)') \in Nat /\ Cardinality(Listed(c, NoRow)) \in Nat
    BY <2>2, ListedFinite, FS_Subset, FS_CardinalityType
  <2> QED BY <2>1, <2>3, <2>4 DEF CoversPosts
<1>5. ASSUME NEW c \in ListCats, NEW n \in UrlPages, NEW q \in Queries, k = SummaryKey(c, n, q)
      PROVE  /\ ShowsListed(e.rows, c, q)' /\ ShowsLinks(e.rows)'
             /\ n = 0 /\ q = NoRow /\ NoPostLost => ShowsNewest(e.rows, c)'
  <2>1. /\ CatOf(c) \notin R /\ RowsRecorded(e.rows, e.trig) /\ c \in {0} \cup CatId
        /\ ShowsListed(e.rows, c, q) /\ ShowsLinks(e.rows)
        /\ n = 0 /\ q = NoRow /\ NoPostLost => ShowsNewest(e.rows, c)
    BY <1>5, ListAssumption DEF ListRecords, ListCurrent
  <2>2. ASSUME NEW x \in e.rows
        PROVE  /\ x.post \in Listed(c, q)' /\ ShownRow(x.post)' = ShownRow(x.post)
               /\ CategoriesOf(x.post)' = CategoriesOf(x.post)
    <3>1. x.post \in Listed(c, q) /\ PostKey(x.post, 0) \notin R
      BY <2>1, <2>2 DEF ShowsListed, RowsRecorded
    <3>2. x.post \in PostId /\ posts[x.post] # NoRow
      BY <2>1, <3>1, ListedThere DEF Facts
    <3>3. x.post # p
      BY <3>1, <3>2 DEF PostChange
    <3>4. posts'[x.post] = posts[x.post] /\ post2cat'[x.post] = post2cat[x.post]
      BY <3>2, <3>3 DEF PostChange
    <3>5. x.post \in Listed(c, q)'
      BY <3>1, <3>4 DEF Listed, Matches, OpenPosts, OpenIn
    <3> QED BY <1>1, <3>4, <3>5 DEF ShownRow, CategoriesOf, Linked, Existing
  <2>3. ShowsListed(e.rows, c, q)' /\ ShowsLinks(e.rows)'
    BY <2>1, <2>2 DEF ShowsListed, ShowsLinks
  <2>4. ASSUME n = 0, q = NoRow, NoPostLost PROVE ShowsNewest(e.rows, c)'
    BY <2>1, <2>2, <2>4, PostLeaves, NewestStays
  <2> QED BY <2>3, <2>4
<1> QED BY <1>1, <1>2, <1>3, <1>4, <1>5 DEF ListCurrent

(* Nor does a change of a category. *)
LEMMA OneCategoryLists ==
  ASSUME Facts, NEW d \in CatId, NEW R, CategoryChange(d, R),
         NEW k \in ListKeys, lists'[k] = lists[k], ListRecords(k), ListCurrent(k),
         lists[k].num \in Nat, lists[k].trig \cap R = {}
  PROVE  ListCurrent(k)'
<1> DEFINE e == lists[k]
<1>1. UNCHANGED <<posts, lost>> /\ NoPostLost' = NoPostLost
  BY DEF CategoryChange, NoPostLost
<1>2. k # MaxCatKey
  BY DEF ListRecords, CategoryChange
<1>3. \A c \in ListCats, n \in UrlPages, q \in Queries : k # SummaryKey(c, n, q)
  BY DEF ListRecords, CategoryChange
<1>4. ASSUME NEW c \in ListCats \ {0}, k = NameKey(c) PROVE e.name \in {NoRow, cats'[c]}
  <2>1. CatOf(c) \notin R /\ e.name \in {NoRow, cats[c]} /\ c \in CatId
    BY <1>4, ListAssumption DEF ListRecords, ListCurrent
  <2> QED BY <2>1 DEF CategoryChange, CatOf
<1>5. ASSUME NEW c \in ListCats, k = CountKey(c, NoRow), NoPostLost PROVE CoversPosts(e.num, c)'
  <2>1. CatOf(c) \notin R /\ CoversPosts(e.num, c) /\ c \in {0} \cup CatId
    BY <1>5, ListAssumption DEF ListRecords, ListCurrent
  <2>2. CASE c = 0 \/ c # d
    <3>1. Listed(c, NoRow)' = Listed(c, NoRow)
      BY <1>1, <2>1, <2>2 DEF Listed, Matches, OpenPosts, OpenIn, CategoryChange
    <3> QED BY <2>1, <3>1 DEF CoversPosts
  <2>3. CASE c # 0 /\ c = d
    <3>1. cats[c] = NoRow
      BY <2>1, <2>3 DEF CategoryChange, CatOf
    <3>2. \A p \in PostId : c \notin Linked(p)
      BY <2>3, <3>1 DEF Facts, LinksHaveCategories, Existing
    <3>3. \A p \in PostId : c \notin Linked(p)'
      BY <3>2 DEF CategoryChange
    <3>4. Listed(c, NoRow)' = {}
      BY <2>3, <3>3 DEF Listed, OpenIn, Linked
    <3> QED BY <3>4, FS_EmptySet DEF CoversPosts
  <2> QED BY <2>2, <2>3
<1> QED BY <1>1, <1>2, <1>3, <1>4, <1>5 DEF ListCurrent

(***************************************************************************)
(* The steps of the handler of the lists.                                  *)
(***************************************************************************)

(* The first page that the query returns is one of the newest posts. *)
LEMMA FirstPage ==
  ASSUME NEW c, NEW ps \in PagesOf(Listed(c, NoRow), DateIn(c), 0)
  PROVE  ShowsNewest({ShownRow(p) : p \in ps}, c)
<1> DEFINE S == Listed(c, NoRow)
           n == Cardinality(S)
           D == DateIn(c)
           m == IF n <= PageSize THEN n ELSE PageSize
<1>1. PageSize \in Nat /\ PageSize > 0 /\ n \in Nat /\ IsFiniteSet(S)
  BY ListAssumption, ListedFinite
<1>2. Cardinality(Rows(n, PageSize, 0)) = m
  <2> HIDE DEF n
  <2>1. EffectiveSize(PageSize) = PageSize
    BY <1>1 DEF EffectiveSize
  <2>2. Rows(n, PageSize, 0) = 0 .. m - 1
    BY <1>1, <2>1 DEF Rows
  <2>3. m \in Nat
    BY <1>1
  <2> HIDE DEF m
  <2> QED BY <2>2, <2>3, FS_Interval
<1>3. PICK A \in SUBSET (S \ ps) :
        /\ Cardinality(A) = 0 * PageSize \/ (ps = {} /\ A = S)
        /\ \A x \in ps, y \in S \ (A \cup ps) : D[x] >= D[y]
  BY DEF PagesOf
<1>4. ps \subseteq S /\ Cardinality(ps) = m
  BY <1>2 DEF PagesOf
<1>5. A = {} \/ ps = {}
  <2>1. IsFiniteSet(A)
    BY <1>1, FS_Subset
  <2> QED BY <1>1, <1>3, <2>1, FS_EmptySet
<1>6. Cardinality(ps) = PageSize \/ ps = S
  BY <1>1, <1>4, FS_Subset
<1>7. \A x \in ps, y \in S \ ps : D[x] >= D[y]
  BY <1>3, <1>5
<1>8. {x.post : x \in {ShownRow(p) : p \in ps}} = ps
  <2>1. \A p : ShownRow(p).post = p
    BY DEF ShownRow
  <2> QED BY <2>1
<1> HIDE DEF S, D
<1> QED BY <1>6, <1>7, <1>8 DEF ShowsNewest, S, D

(* The entries of the lists only go. *)
ListShrinks == lists' = [k \in ListKeys |-> lists'[k]]
               /\ \A k \in ListKeys : lists'[k] \in {lists[k], NoRow}

(* Then they keep their shape. *)
LEMMA ShapeStays ==
  ASSUME ListShape, ListShrinks, UNCHANGED lreq PROVE ListShape'
BY DEF ListShape, ListTypes, ListLocal, ListShrinks, Fetched

(* An entry that is kept was there before. *)
LEMMA KeptBefore ==
  ASSUME ListShrinks, NEW k \in ListKeys, Kept(k)' PROVE Kept(k) /\ lists'[k] = lists[k]
BY DEF ListShrinks, Kept, Fetched

(* An entry stays overdue while the request that owes its rise goes on. *)
LEMMA ListOverdueStays ==
  ASSUME NEW w, Beside(w), NEW k \in ListKeys, lists'[k] = lists[k], ListOverdue(k),
         w \in Workers /\ req[w].pc = "after" => req[w].rises = {}
  PROVE  ListOverdue(k)'
<1>1. PICK v \in Workers : req[v].pc = "after" /\ req[v].rises \cap lists[k].trig # {}
  BY DEF ListOverdue
<1>2. v # w
  BY <1>1
<1>3. req'[v] = req[v]
  BY <1>1, <1>2 DEF Beside, Reading, ReaderPcs
<1> QED BY <1>1, <1>3 DEF ListOverdue

(* What is due depends on the request only. *)
LEMMA DueSame == \A v : DueOf(req[v])' = DueOf(req'[v])
BY DEF DueOf, InsertRises, EditRises, RemoveRises, SendRises, CommentRises

(* What transactions have risen is still gone when the lists only shrink. *)
LEMMA ListRisenStays ==
  ASSUME ListRisen, NEW w, Beside(w),
         w \in Workers /\ req'[w].pc = "tx" => req'[w].rises = DueOf(req'[w]),
         \A k \in ListKeys : Kept(k)' => (Kept(k) /\ lists'[k] = lists[k]) \/ Quiet'
  PROVE  ListRisen'
<1> SUFFICES ASSUME NEW v \in Workers, req'[v].pc = "tx", NEW t \in (DueOf(req[v]) \ req[v].rises)',
                    NEW k \in ListKeys, Kept(k)'
             PROVE  t \notin lists'[k].trig
  BY DEF ListRisen
<1>1. t \in DueOf(req'[v]) \ req'[v].rises
  BY DueSame
<1>2. v # w
  BY <1>1
<1>3. req[v].pc = "tx" /\ req'[v] = req[v]
  BY <1>2 DEF Beside, Reading, ReaderPcs
<1>4. Kept(k) /\ lists'[k] = lists[k]
  BY DEF Quiet, Writing
<1> QED BY <1>1, <1>3, <1>4 DEF ListRisen

(* The other requests are where they were. *)
LEMMA PlaceStays ==
  ASSUME NEW w, Beside(w), NEW v \in Workers \ {w}, lreq'[v] = lreq[v], ListPlace(v)
  PROVE  ListPlace(v)'
BY DEF ListPlace, Beside

(* What they have read is still right while the tables stay. *)
LEMMA ListReadStays ==
  ASSUME NEW v \in Workers, CleanReader(v)' => CleanReader(v), lreq'[v] = lreq[v],
         UNCHANGED <<posts, post2cat, cats>>, ListRead(v)
  PROVE  ListRead(v)'
<1> SUFFICES ASSUME CleanReader(v)' PROVE ReadsList(lreq[v])'
  BY DEF ListRead
<1>1. PICK l : l = lreq[v]
  OBVIOUS
<1>2. ReadsList(l)
  BY <1>1 DEF ListRead
<1>3. ReadsList(l)'
  BY <1>2, ReadsStay
<1>4. lreq'[v] = l
  BY <1>1
<1> QED BY <1>3, <1>4 DEF ReadsList

(* A step that leaves the tables alone, and may store what is right. *)
LEMMA ListCalm ==
  ASSUME ListInv, NEW w, Beside(w), UNCHANGED <<posts, post2cat, cats>>, lost \subseteq lost',
         ListShape', \A v \in Workers \ {w} : lreq'[v] = lreq[v],
         w \in Workers => /\ ListPlace(w)' /\ ListRead(w)'
                          /\ req'[w].pc = "tx" => req'[w].rises = DueOf(req'[w])
                          /\ req[w].pc = "after" => req[w].rises = {},
         \A k \in ListKeys : Kept(k)' => \/ Kept(k) /\ lists'[k] = lists[k]
                                         \/ Quiet' /\ ListRecords(k)' /\ ListCurrent(k)'
  PROVE  ListInv'
<1>1. ListRisen'
  BY ListRisenStays DEF ListInv
<1>2. ASSUME NEW k \in ListKeys, Kept(k)'
      PROVE  (ListRecords(k) /\ (ListOverdue(k) \/ ListCurrent(k)))'
  <2>1. CASE Kept(k) /\ lists'[k] = lists[k]
    <3>1. ListRecords(k) /\ (ListOverdue(k) \/ ListCurrent(k))
      BY <2>1 DEF ListInv, ListFresh
    <3> QED BY <2>1, <3>1, ListRecordsStay, ListOverdueStays, ListStays
  <2> QED BY <1>2, <2>1
<1>3. ASSUME NEW v \in Workers PROVE ListPlace(v)' /\ ListRead(v)'
  <2>1. CASE v = w
    BY <2>1
  <2>2. CASE v # w
    <3>1. CleanReader(v)' => CleanReader(v)
      BY <2>2 DEF Beside, CleanReader, Reading
    <3> QED BY <2>2, <3>1, PlaceStays, ListReadStays DEF ListInv
  <2> QED BY <2>1, <2>2
<1> QED BY <1>1, <1>2, <1>3 DEF ListInv, ListFresh

(* Nothing happens but that entries go. *)
LEMMA ListIdle ==
  ASSUME ListInv, UNCHANGED <<posts, post2cat, cats, lost, req, lreq>>, ListShrinks
  PROVE  ListInv'
<1>1. ListShape'
  BY ShapeStays DEF ListInv
<1>2. ListRisen'
  <2> SUFFICES ASSUME NEW v \in Workers, req'[v].pc = "tx", NEW t \in (DueOf(req[v]) \ req[v].rises)',
                      NEW k \in ListKeys, Kept(k)'
               PROVE  t \notin lists'[k].trig
    BY DEF ListRisen
  <2>1. t \in DueOf(req[v]) \ req[v].rises
    BY DueSame
  <2> QED BY <2>1, KeptBefore DEF ListInv, ListRisen
<1>3. ASSUME NEW k \in ListKeys, Kept(k)'
      PROVE  (ListRecords(k) /\ (ListOverdue(k) \/ ListCurrent(k)))'
  <2>1. Kept(k) /\ lists'[k] = lists[k]
    BY <1>3, KeptBefore
  <2>2. ListRecords(k) /\ (ListOverdue(k) \/ ListCurrent(k))
    BY <2>1 DEF ListInv, ListFresh
  <2>3. ListOverdue(k) => ListOverdue(k)'
    BY <2>1 DEF ListOverdue
  <2> QED BY <2>1, <2>2, <2>3, ListRecordsStay, ListStays
<1>4. ASSUME NEW v \in Workers PROVE ListPlace(v)' /\ ListRead(v)'
  <2>1. CleanReader(v)' => CleanReader(v)
    BY DEF CleanReader, Reading
  <2> QED BY <2>1, ListReadStays DEF ListInv, ListPlace
<1> QED BY <1>1, <1>2, <1>3, <1>4 DEF ListInv, ListFresh

(***************************************************************************)
(* Steps of the other handlers.                                            *)
(***************************************************************************)

(* The step leaves the tables of the lists alone, and owes no rise. *)
Aside(w) ==
    /\ UNCHANGED <<posts, post2cat, cats>> /\ lost \subseteq lost'
    /\ req'[w].pc = "tx" => req'[w].rises = DueOf(req'[w])
    /\ req[w].pc = "after" => req[w].rises = {}

(* Then the lists stay right. *)
LEMMA AsideLists ==
  ASSUME ListInv, NEW w \in Workers, Beside(w), Aside(w), ListShrinks, UNCHANGED lreq,
         ListPlace(w)', ListRead(w)'
  PROVE  ListInv'
<1>1. ListShape'
  BY ShapeStays DEF ListInv
<1>2. \A k \in ListKeys : Kept(k)' => Kept(k) /\ lists'[k] = lists[k]
  BY KeptBefore
<1> QED BY <1>1, <1>2, ListCalm DEF Aside

(* A handler that is not that of a list has nothing to do with them. *)
LEMMA ListAway ==
  ASSUME NEW w \in Workers, lreq'[w].pc = "none" PROVE ListPlace(w)' /\ ListRead(w)'
BY DEF ListPlace, ListRead, ReadsList, NamedList

(* The commit of a change of a post, with its triggers risen. *)
LEMMA PostLists ==
  ASSUME Facts, FreshInv, ListInv, NEW w \in Workers, Beside(w), ~Writing(w)', Settles(w),
         ListShrinks, UNCHANGED lreq, lreq[w].pc = "none"
  PROVE  ListInv'
<1> DEFINE p == req[w].post
           R == DueOf(req[w])
<1>1. /\ p \in PostId /\ PostChange(p, R)
      /\ req[w].pc = "tx" /\ req[w].rises = {} /\ req'[w].pc # "tx"
  BY DEF Settles, Writing
<1>2. \A k \in ListKeys : Kept(k)' => Kept(k) /\ lists'[k] = lists[k]
  BY KeptBefore
<1>3. ListShape' /\ ListRisen'
  BY <1>1, <1>2, ShapeStays, ListRisenStays DEF ListInv
<1>4. ASSUME NEW k \in ListKeys, Kept(k)'
      PROVE  (ListRecords(k) /\ (ListOverdue(k) \/ ListCurrent(k)))'
  <2>1. Kept(k) /\ lists'[k] = lists[k] /\ lists[k].num \in Nat
    BY <1>2, <1>4 DEF ListInv, ListShape, ListTypes, ListLocal, Kept
  <2>2. ListRecords(k) /\ (ListOverdue(k) \/ ListCurrent(k))
    BY <2>1 DEF ListInv, ListFresh
  <2>3. lists[k].trig \cap R = {}
    BY <1>1, <2>1 DEF ListInv, ListRisen
  <2>4. ListCurrent(k) => ListCurrent(k)'
    <3> HIDE DEF p, R
    <3> QED BY <1>1, <2>1, <2>2, <2>3, OnePostLists
  <2> QED BY <1>1, <2>1, <2>2, <2>4, ListRecordsStay, ListOverdueStays
<1>5. ASSUME NEW v \in Workers PROVE ListPlace(v)' /\ ListRead(v)'
  <2>1. CASE v = w
    BY <2>1, ListAway
  <2>2. CASE v # w
    <3>1. ~CleanReader(v)
      BY <1>1 DEF FreshInv, CleanAlone, Writing
    <3>2. ~CleanReader(v)'
      BY <2>2, <3>1 DEF Beside, CleanReader, Reading
    <3> QED BY <2>2, <3>2, PlaceStays DEF ListInv, ListRead
  <2> QED BY <2>1, <2>2
<1> QED BY <1>3, <1>4, <1>5 DEF ListInv, ListFresh

(* The commit of a change of a category, with its rises to follow. *)
LEMMA CategoryLists ==
  ASSUME Types, Facts, FreshInv, ListInv, NEW w \in Workers, NEW c \in CatId, NEW R,
         AfterCommit(w, "form", R), req[w].pc # "after", CategoryChange(c, R),
         ListShrinks, UNCHANGED lreq, lreq[w].pc = "none"
  PROVE  ListInv'
<1>1. PICK r : EnterWrite(w, r) /\ r.pc = "after" /\ r.op = "form" /\ r.rises = R
  BY AfterFields
<1>2. Beside(w) /\ req'[w] = r /\ \A v \in Workers \ {w} : ~CleanReader(v)'
  BY <1>1, BesideEnter
<1>3. \A k \in ListKeys : Kept(k)' => Kept(k) /\ lists'[k] = lists[k]
  BY KeptBefore
<1>4. ListShape' /\ ListRisen'
  BY <1>1, <1>2, <1>3, ShapeStays, ListRisenStays DEF ListInv
<1>5. ASSUME NEW k \in ListKeys, Kept(k)'
      PROVE  (ListRecords(k) /\ (ListOverdue(k) \/ ListCurrent(k)))'
  <2>1. Kept(k) /\ lists'[k] = lists[k] /\ lists[k].num \in Nat
    BY <1>3, <1>5 DEF ListInv, ListShape, ListTypes, ListLocal, Kept
  <2>2. ListRecords(k) /\ (ListOverdue(k) \/ ListCurrent(k))
    BY <2>1 DEF ListInv, ListFresh
  <2>3. lists[k].trig \cap R # {} => ListOverdue(k)'
    BY <1>1, <1>2, <2>1 DEF ListOverdue
  <2>4. ListCurrent(k) => ListCurrent(k)' \/ ListOverdue(k)'
    BY <2>1, <2>2, <2>3, OneCategoryLists
  <2> QED BY <1>2, <2>1, <2>2, <2>4, ListRecordsStay, ListOverdueStays
<1>6. ASSUME NEW v \in Workers PROVE ListPlace(v)' /\ ListRead(v)'
  <2>1. CASE v = w
    BY <2>1, ListAway
  <2>2. CASE v # w
    BY <1>2, <2>2, PlaceStays DEF ListInv, ListRead
  <2> QED BY <2>1, <2>2
<1> QED BY <1>4, <1>5, <1>6 DEF ListInv, ListFresh

(* cache().rise reaches the lists too. *)
LEMMA RiseLists ==
  ASSUME Types, FreshInv, ListInv, NEW w \in Workers, Rise(w), ListRise(Risen(w)), UNCHANGED lreq,
         lreq[w].pc = "none"
  PROVE  ListInv'
<1>1. PICK t \in req[w].rises : req' = [req EXCEPT ![w].rises = @ \ {t}]
  BY DEF Rise
<1>2. Writing(w) /\ UNCHANGED <<posts, post2cat, cats, lost>>
  BY DEF Rise, db
<1>3. req[w] \in Request /\ req \in [Workers -> Request]
  BY DEF Types, ReqOK
<1>4. /\ req'[w].pc = req[w].pc /\ req'[w].op = req[w].op /\ req'[w].rises = req[w].rises \ {t}
      /\ req'[w].add = req[w].add /\ req'[w].open = req[w].open /\ req'[w].post = req[w].post
      /\ req'[w].change = req[w].change /\ req'[w].inUse = req[w].inUse
  BY <1>1, <1>3 DEF Request
<1>5. \A v \in Workers \ {w} : req'[v] = req[v]
  BY <1>1, <1>3
<1>6. Risen(w) = {t}
  BY <1>4 DEF Risen
<1>7. ListShrinks /\ \A k \in ListKeys : Kept(k)' => Kept(k) /\ lists'[k] = lists[k] /\ t \notin lists[k].trig
  BY <1>6 DEF ListRise, ListShrinks, Kept, Fetched
<1>8. ListShape'
  BY <1>7, ShapeStays DEF ListInv
<1>9. ListRisen'
  <2> SUFFICES ASSUME NEW v \in Workers, req'[v].pc = "tx", NEW u \in (DueOf(req[v]) \ req[v].rises)',
                      NEW k \in ListKeys, Kept(k)'
               PROVE  u \notin lists'[k].trig
    BY DEF ListRisen
  <2>1. CASE v = w
    <3>1. u \in DueOf(req[v])
      BY <1>4, <2>1 DEF DueOf, InsertRises, EditRises, RemoveRises, SendRises, CommentRises
    <3>2. u = t \/ u \notin req[v].rises
      BY <1>4, <2>1
    <3> QED BY <1>4, <1>7, <2>1, <3>1, <3>2 DEF ListInv, ListRisen
  <2>2. CASE v # w
    <3>1. u \in DueOf(req[v]) \ req[v].rises
      BY <1>5, <2>2, DueSame
    <3> QED BY <1>5, <1>7, <2>2, <3>1 DEF ListInv, ListRisen
  <2> QED BY <2>1, <2>2
<1>10. ASSUME NEW k \in ListKeys, Kept(k)'
       PROVE  (ListRecords(k) /\ (ListOverdue(k) \/ ListCurrent(k)))'
  <2>1. Kept(k) /\ lists'[k] = lists[k] /\ t \notin lists[k].trig
    BY <1>7, <1>10
  <2>2. ListRecords(k) /\ (ListOverdue(k) \/ ListCurrent(k))
    BY <2>1 DEF ListInv, ListFresh
  <2>3. ASSUME ListOverdue(k) PROVE ListOverdue(k)'
    <3>1. PICK v \in Workers : req[v].pc = "after" /\ req[v].rises \cap lists[k].trig # {}
      BY <2>3 DEF ListOverdue
    <3>2. req'[v].pc = "after" /\ req'[v].rises \cap lists'[k].trig # {}
      BY <1>4, <1>5, <2>1, <3>1
    <3> QED BY <3>2 DEF ListOverdue
  <2> QED BY <1>2, <2>1, <2>2, <2>3, ListRecordsStay, ListStays
<1>11. ASSUME NEW v \in Workers PROVE ListPlace(v)' /\ ListRead(v)'
  <2>1. CASE v = w
    BY <2>1, ListAway
  <2>2. CASE v # w
    <3>1. Beside(w)
      BY <1>5 DEF Beside
    <3>2. ~CleanReader(v)'
      BY <1>2, <1>5, <2>2 DEF FreshInv, CleanAlone, CleanReader, Reading
    <3> QED BY <2>2, <3>1, <3>2, PlaceStays DEF ListInv, ListRead
  <2> QED BY <2>1, <2>2
<1> QED BY <1>8, <1>9, <1>10, <1>11 DEF ListInv, ListFresh

(* A response changes no other request, and goes on as a response or ends. *)
LEMMA ViewBeside ==
  ASSUME Types, NEW w \in Workers, ViewStep(w)
  PROVE  /\ Beside(w) /\ Aside(w)
         /\ req[w].op = "preview_page" /\ req[w].pc \in MidPcs \cup (LatePcs \ {"store"}) =>
              /\ req'[w].op = "preview_page" /\ (req'[w].clean = 1 => req[w].clean = 1)
              /\ req[w].pc \in MidPcs => req'[w].pc \in MidPcs \cup {"frame"}
              /\ req[w].pc \in LatePcs => req'[w].pc \in LatePcs
<1>r. req \in [Workers -> Request] /\ req[w] \in Request
  BY DEF Types, ReqOK
<1> DEFINE Alone == (\A v \in Workers \ {w} : req'[v] = req[v]) /\ req[w].pc # "after" /\ req'[w].pc # "tx"
           Piece == req[w].op = "preview_page" /\ req[w].pc \in MidPcs \cup (LatePcs \ {"store"})
           Next1 == /\ req'[w].op = "preview_page" /\ (req'[w].clean = 1 => req[w].clean = 1)
                    /\ req[w].pc \in MidPcs => req'[w].pc \in MidPcs \cup {"frame"}
                    /\ req[w].pc \in LatePcs => req'[w].pc \in LatePcs
           Goal == Alone /\ (Piece => Next1)
<1>u. UNCHANGED <<posts, post2cat, cats, lost>>
  BY ViewCalm DEF db
<1>p. "preview_page" \notin PostViews /\ AfterOptions("preview_page") = "frame"
  BY AfterOptionsPc DEF PageViews, PostViews
<1>a. \A op : AfterOptions(op) # "tx"
  BY DEF AfterOptions
<1>e. ASSUME Finish(w), req[w].pc # "after" PROVE Alone
  BY <1>r, <1>e DEF Finish, Idle
<1>s. ASSUME NEW r, req' = [req EXCEPT ![w] = r], r.pc # "tx", req[w].pc # "after" PROVE Alone
  BY <1>r, <1>s
<1>1. ASSUME StorePage(w) \/ Respond(w) PROVE Goal
  BY <1>1, <1>e DEF StorePage, Respond, MidPcs, LatePcs
<1>2. ASSUME PostRow(w) PROVE Goal
  BY <1>r, <1>2, <1>e DEF PostRow, Request, MidPcs, LatePcs
<1>3. ASSUME PageRow(w) PROVE Goal
  BY <1>r, <1>3, <1>e DEF PageRow, Request, MidPcs, LatePcs
<1>4. ASSUME FeedCatRow(w) PROVE Goal
  BY <1>r, <1>4, <1>e DEF FeedCatRow, Request, At, MidPcs, LatePcs
<1>5. ASSUME PostComments(w) PROVE Goal
  BY <1>r, <1>5 DEF PostComments, Request, MidPcs, LatePcs
<1>6. ASSUME PostCategories(w) PROVE Goal
  BY <1>r, <1>6 DEF PostCategories, Request, MidPcs, LatePcs
<1>7. ASSUME FeedCommentRows(w) PROVE Goal
  BY <1>r, <1>7 DEF FeedCommentRows, Request, At, MidPcs, LatePcs
<1>8. ASSUME FeedPostRows(w) PROVE Goal
  <2>1. PICK ps, extra : ListPosts(w, ps, extra)
    BY <1>8 DEF FeedPostRows
  <2>2. req[w].pc = "posts"
    BY <1>8 DEF FeedPostRows, At
  <2> QED BY <1>r, <2>1, <2>2 DEF ListPosts, Request, MidPcs, LatePcs
<1>9. ASSUME Options(w) PROVE Goal
  BY <1>r, <1>p, <1>a, <1>9 DEF Options, Goto, Request, MidPcs, LatePcs
<1>10. ASSUME OptionsSelect(w) PROVE Goal
  BY <1>r, <1>10 DEF OptionsSelect, Request, MidPcs, LatePcs
<1>11. ASSUME OptionsStore(w) PROVE Goal
  BY <1>r, <1>p, <1>a, <1>11 DEF OptionsStore, Request, MidPcs, LatePcs
<1>12. ASSUME Frame(w) PROVE Goal
  BY <1>r, <1>12 DEF Frame, Goto, Request, MidPcs, LatePcs
<1>13. ASSUME Info(w) PROVE Goal
  BY <1>r, <1>13 DEF Info, Goto, Request, MidPcs, LatePcs
<1>14. ASSUME SidePages(w) \/ SideCats(w) PROVE Goal
  <2>1. ASSUME SidePages(w) PROVE Goal
    BY <1>r, <2>1 DEF SidePages, Request, MidPcs, LatePcs
  <2>2. ASSUME SideCats(w) PROVE Goal
    BY <1>r, <2>2 DEF SideCats, Request, MidPcs, LatePcs
  <2> QED BY <1>14, <2>1, <2>2
<1>15. ASSUME StoreInfo(w) \/ StoreFrame(w) PROVE Goal
  BY <1>r, <1>15 DEF StoreInfo, StoreFrame, Request, MidPcs, LatePcs
<1>16. Goal
  <2> HIDE DEF Goal
  <2> QED BY <1>1, <1>2, <1>3, <1>4, <1>5, <1>6, <1>7, <1>8, <1>9, <1>10, <1>11, <1>12, <1>13,
             <1>14, <1>15 DEF ViewStep
<1> QED BY <1>u, <1>16 DEF Beside, Aside

(* Every step of another handler is of one of these kinds. *)
LEMMA ListKinds ==
  ASSUME Types, Facts, TxInv, FreshInv, NEW w \in Workers,
         \/ Step(w) \/ PostStart(w) \/ Postback(w) \/ CommentStart(w)
         \/ CatAdd(w) \/ CatRename(w) \/ CatRemove(w)
  PROVE  \/ Rise(w)
         \/ Beside(w) /\ Aside(w)
         \/ Beside(w) /\ Settles(w) /\ ~Writing(w)'
         \/ \E c \in CatId : \E R :
              AfterCommit(w, "form", R) /\ CategoryChange(c, R) /\ req[w].pc # "after"
<1> DEFINE Calmly == Beside(w) /\ Aside(w)
<1>f. ASSUME Beside(w), Free(w), UNCHANGED <<posts, post2cat, cats>>, lost \subseteq lost',
             req[w].pc = "after" => req[w].rises = {}
      PROVE  Calmly
  BY <1>f DEF Aside, Free, Writing
<1>1. ASSUME AfterRises(w) \/ Rollback(w) \/ LockTimeout(w) PROVE Calmly
  BY <1>1, <1>f, StartFree DEF Shown
<1>2. ASSUME \/ PostStart(w) \/ PostIsOpen(w) \/ PostInUse(w) \/ PostForm(w)
             \/ Postback(w) \/ SendSelect(w) \/ CommentStart(w) \/ CatRemove(w)
      PROVE  Calmly
  BY <1>2, <1>f, ReadFree DEF Shown
<1>3. ASSUME PostInsert(w) \/ PostRemove(w) \/ PostEdit(w) \/ SendInsert(w) \/ CommentExec(w)
      PROVE  Calmly
  <2>1. /\ UNCHANGED <<posts, post2cat, cats>> /\ lost \subseteq lost' /\ req[w].pc # "after"
        /\ Finish(w) \/ \E r : Begun(w, r)
    BY <1>3, ExecEnters DEF Shown
  <2>2. CASE Finish(w)
    BY <1>f, <2>1, <2>2, FinishFree
  <2>3. ASSUME NEW r, Begun(w, r) PROVE Calmly
    <3>1. Beside(w) /\ req'[w] = r
      BY <2>3, BesideEnter DEF Begun
    <3> QED BY <2>1, <2>3, <3>1 DEF Begun, Aside
  <2> QED BY <2>1, <2>2, <2>3
<1>4. ASSUME PostInsertCommit(w) \/ PostRemoveCommit(w) \/ PostEditCommit(w) \/ SendCommit(w) \/ EraseCommit(w)
      PROVE  Beside(w) /\ Settles(w) /\ ~Writing(w)'
  <2>1. Settles(w)
    BY <1>4, InsertChange, RemoveChange, EditChange, CountedChange DEF FreshInv
  <2>2. Beside(w) /\ Free(w)
    BY <1>4, FinishFree, AdminFree, BeginFree
    DEF PostInsertCommit, PostRemoveCommit, PostEditCommit, SendCommit, EraseCommit, Starts, PostViews
  <2> QED BY <2>1, <2>2 DEF Free
<1>5. ASSUME AmendCommit(w) \/ OptionsCommit(w) PROVE Calmly
  <2>1. Beside(w) /\ Free(w)
    BY <1>5, FinishFree, AdminFree DEF AmendCommit, OptionsCommit
  <2> QED BY <1>5, <1>f, <2>1 DEF AmendCommit, OptionsCommit, At
<1>6. ASSUME CatAdd(w) \/ CatRename(w) \/ CatDelete(w)
      PROVE  \/ Calmly
             \/ \E c \in CatId : \E R :
                  AfterCommit(w, "form", R) /\ CategoryChange(c, R) /\ req[w].pc # "after"
  <2>1. CASE Finish(w) /\ UNCHANGED <<db, cache, lost>>
    <3>1. UNCHANGED <<posts, post2cat, cats>> /\ lost \subseteq lost' /\ req[w].pc # "after"
      BY <1>6, <2>1, CategoryCommits DEF db
    <3> QED BY <1>f, <2>1, <3>1, FinishFree
  <2> QED BY <1>6, <2>1, CategoryCommits
<1>7. ASSUME PageDelete(w) \/ PageUpdate(w) PROVE Calmly
  <2>1. UNCHANGED <<posts, post2cat, cats>> /\ lost \subseteq lost' /\ req[w].pc # "after"
    BY <1>7 DEF PageDelete, PageUpdate, PageLost, At
  <2>2. \/ Finish(w) \/ RenderAdmin(w)
        \/ \E op, R : AfterCommit(w, op, R)
    BY <1>7 DEF PageDelete, PageUpdate
  <2>3. CASE Finish(w) \/ RenderAdmin(w)
    BY <1>f, <2>1, <2>3, FinishFree, AdminFree
  <2>4. ASSUME NEW op, NEW R, AfterCommit(w, op, R) PROVE Calmly
    <3>1. PICK r : EnterWrite(w, r) /\ r.pc = "after"
      BY <2>4, AfterFields
    <3>2. Beside(w) /\ req'[w] = r
      BY <3>1, BesideEnter
    <3> QED BY <2>1, <3>1, <3>2 DEF Aside
  <2> QED BY <2>2, <2>3, <2>4
<1>8. ASSUME ViewStep(w) PROVE Calmly
  BY <1>8, ViewBeside
<1> HIDE DEF Calmly
<1>9. \/ Rise(w) \/ Calmly
      \/ Beside(w) /\ Settles(w) /\ ~Writing(w)'
      \/ \E c \in CatId : \E R :
           AfterCommit(w, "form", R) /\ CategoryChange(c, R) /\ req[w].pc # "after"
  BY <1>1, <1>2, <1>3, <1>4, <1>5, <1>6, <1>7, <1>8
  DEF Step, PostAdminStep, CommentStep, SiteAdminStep
<1> QED BY <1>9 DEF Calmly

(* A rise takes entries away, and nothing else. *)
LEMMA RiseShrinks == ASSUME ListShape, NEW R, ListRise(R) PROVE ListShrinks
BY DEF ListRise, ListShrinks

(* Steps of other handlers, and those of Views for a list. *)
LEMMA OtherLists ==
  ASSUME Types, Facts, TxInv, FreshInv, ListInv, NEW w \in Workers, OtherStep(w)
  PROVE  ListInv'
<1>1. ListShrinks /\ UNCHANGED lreq
  BY RiseShrinks DEF OtherStep, ListInv
<1>2. ListPlace(w) /\ ListRead(w) /\ ListShape
  BY DEF ListInv
<1>3. CASE lreq[w].pc = "none"
  <2>1. lreq'[w].pc = "none"
    BY <1>1, <1>3
  <2>2. CASE Rise(w)
    BY <1>1, <1>3, <2>2, RiseLists DEF OtherStep
  <2>3. CASE Beside(w) /\ Aside(w)
    BY <1>1, <2>1, <2>3, ListAway, AsideLists
  <2>4. CASE Beside(w) /\ Settles(w) /\ ~Writing(w)'
    BY <1>1, <1>3, <2>4, PostLists
  <2>5. ASSUME NEW c \in CatId, NEW R,
               AfterCommit(w, "form", R), CategoryChange(c, R), req[w].pc # "after"
        PROVE  ListInv'
    BY <1>1, <1>3, <2>5, CategoryLists
  <2> QED BY <2>2, <2>3, <2>4, <2>5, ListKinds DEF OtherStep
<1>4. CASE lreq[w].pc # "none"
  <2>1. /\ req[w].op = "preview_page"
        /\ \/ lreq[w].pc = "options" /\ req[w].pc \in MidPcs
           \/ lreq[w].pc = "render" /\ req[w].pc \in LatePcs \ {"store"}
    BY <1>2, <1>4 DEF OtherStep, Elsewhere, At2, ListPlace, EarlyList, MidPcs
  <2>2. ViewStep(w)
    <3>1. req[w].pc \notin {"is_open", "in_use", "form", "select", "exec", "tx", "fail", "after", "idle"}
      BY <2>1 DEF MidPcs, LatePcs
    <3>2. ~IsIdle(w) /\ ~Writing(w)
      BY <2>1, <3>1 DEF IsIdle, Writing
    <3>3. ~PostAdminStep(w)
      BY <3>1 DEF PostAdminStep, PostIsOpen, PostInUse, PostForm, PostInsert, PostInsertCommit, PostRemove,
             PostRemoveCommit, PostEdit, PostEditCommit, At
    <3>4. ~CommentStep(w) /\ ~SiteAdminStep(w)
      BY <3>1 DEF CommentStep, SendSelect, SendInsert, SendCommit, CommentExec, EraseCommit, AmendCommit,
             SiteAdminStep, CatDelete, PageDelete, PageUpdate, OptionsCommit, At
    <3>5. ~Rise(w) /\ ~AfterRises(w) /\ ~Rollback(w) /\ ~LockTimeout(w)
      BY <3>1, <3>2 DEF Rise, AfterRises, Rollback, LockTimeout, Blocked
    <3>6. ~PostStart(w) /\ ~Postback(w) /\ ~CommentStart(w) /\ ~CatAdd(w) /\ ~CatRename(w) /\ ~CatRemove(w)
      BY <3>2 DEF PostStart, Postback, CommentStart, CatAdd, CatRename, CatRemove
    <3> QED BY <3>3, <3>4, <3>5, <3>6 DEF OtherStep, Step
  <2>3. /\ Beside(w) /\ Aside(w)
        /\ req'[w].op = "preview_page" /\ (req'[w].clean = 1 => req[w].clean = 1)
        /\ req[w].pc \in MidPcs => req'[w].pc \in MidPcs \cup {"frame"}
        /\ req[w].pc \in LatePcs => req'[w].pc \in LatePcs
    BY <2>1, <2>2, ViewBeside
  <2>4. ListPlace(w)'
    BY <1>1, <1>2, <2>1, <2>3 DEF ListPlace, EarlyList
  <2>5. ListRead(w)'
    <3>1. CleanReader(w)' => CleanReader(w)
      BY <2>1, <2>3 DEF CleanReader, Reading, ReaderPcs, MidPcs, LatePcs
    <3> QED BY <1>1, <1>2, <2>3, <3>1, ListReadStays DEF Aside
  <2> QED BY <1>1, <2>3, <2>4, <2>5, AsideLists
<1> QED BY <1>3, <1>4

(* Emptying the cache empties the lists. *)
LEMMA EmptiedLists ==
  ASSUME Types, FreshInv, ListInv, NEW w \in Workers, Emptied(w)
  PROVE  ListInv'
<1>1. ListShrinks /\ UNCHANGED lreq
  BY DEF Emptied, ListClear, ListShrinks
<1>2. CASE NewLanguage(w)
  BY <1>1, <1>2, ListIdle DEF NewLanguage, db
<1>3. CASE ClearCache(w)
  <2>1. Beside(w) /\ Aside(w)
    <3>1. /\ Beside(w) /\ Free(w) /\ UNCHANGED <<Shown, lost>>
          /\ req[w].pc = "after" => req[w].rises = {}
      BY <1>3, StartFree
    <3> QED BY <3>1 DEF Shown, Aside, Free, Writing
  <2>2. lreq'[w].pc = "none"
    BY <1>1, <1>3 DEF ClearCache, IsIdle, ListInv, ListPlace
  <2> QED BY <1>1, <2>1, <2>2, ListAway, AsideLists
<1> QED BY <1>2, <1>3 DEF Emptied

(* So does the limit of the cache, one by one. *)
LEMMA EvictLists == ASSUME ListInv, ListEvict PROVE ListInv'
<1>1. ListShrinks
  BY DEF ListEvict, ListShrinks, ListInv, ListShape, ListTypes, ListLocal
<1> QED BY <1>1, ListIdle DEF ListEvict, db

(* What a step of the handler of a list may do to the requests. *)
ListRequest(w) ==
    /\ UNCHANGED <<db, cache, lost>>
    /\ \/ IsIdle(w) /\ Begin(w, "preview_page", "options", 0, 0)
       \/ /\ req[w].op = "preview_page" /\ Reading(w)
          /\ UNCHANGED req \/ Finish(w) \/ \E e : Inherit(w, e)

(* It does one of these. *)
LEMMA ListRequests ==
  ASSUME ListInv, NEW w \in Workers, ListStep(w) PROVE ListRequest(w)
<1>1. CASE ListStart(w)
  BY <1>1 DEF ListStart, ListRequest
<1>2. CASE ~ListStart(w)
  <2>1. lreq[w].pc # "none"
    BY <1>2 DEF ListStep, ListMax, ListMaxSelect, ListMaxStore, ListPage, ListName, ListNameSelect,
         ListNameStore, ListCount, ListCountSelect, ListCountStore, ListRows, ListCategories,
         ListStorePage, At2
  <2>2. req[w].op = "preview_page" /\ Reading(w)
    BY <2>1 DEF ListInv, ListPlace, Reading, ReaderPcs, MidPcs, LatePcs
  <2>3. UNCHANGED <<db, cache, lost>> /\ (UNCHANGED req \/ Finish(w) \/ \E e : Inherit(w, e))
    BY <1>2 DEF ListStep, ListMax, ListMaxSelect, ListMaxStore, ListPage, ListName, ListNameSelect,
         ListNameStore, ListCount, ListCountSelect, ListCountStore, ListRows, ListCategories,
         ListStorePage, ListEnd, Counted
  <2> QED BY <2>2, <2>3 DEF ListRequest
<1> QED BY <1>1, <1>2

(* The page made so far is as it was, perhaps no longer clean. *)
LEMMA InheritGoes ==
  ASSUME Types, NEW w \in Workers, NEW e, Inherit(w, e)
  PROVE  \E r \in Request :
           /\ req' = [req EXCEPT ![w] = r]
           /\ r = [req[w] EXCEPT !.clean = r.clean]
           /\ r.clean = 1 => req[w].clean = 1 /\ e.clean = 1
<1> DEFINE c == IF e.clean = 1 THEN req[w].clean ELSE 0
           r == [req[w] EXCEPT !.clean = c]
<1>1. req[w] \in Request /\ c \in Flag
  BY DEF Types, ReqOK, Request, Flag
<1>2. req' = [req EXCEPT ![w] = r]
  BY DEF Inherit
<1>3. r \in Request /\ r.clean = c
  BY <1>1 DEF Request
<1>4. r = [req[w] EXCEPT !.clean = r.clean] /\ (r.clean = 1 => req[w].clean = 1 /\ e.clean = 1)
  BY <1>3
<1> QED BY <1>2, <1>3, <1>4

(* So it locks nothing, and shows nothing outdated. *)
LEMMA ListFree ==
  ASSUME Types, FreshInv, NEW w \in Workers, ListRequest(w)
  PROVE  Beside(w) /\ Free(w) /\ (req[w].pc = "after" => req[w].rises = {})
<1>u. UNCHANGED <<Shown, lost>>
  BY DEF ListRequest, db, Shown
<1>a. req[w].pc # "after"
  BY DEF ListRequest, IsIdle, Reading, ReaderPcs, FreshInv, AfterOps
<1>1. CASE IsIdle(w) /\ Begin(w, "preview_page", "options", 0, 0)
  BY <1>a, <1>1, BeginFree DEF Starts
<1>2. CASE Finish(w)
  BY <1>a, <1>2, FinishFree
<1>3. CASE Reading(w) /\ UNCHANGED req
  <2>1. Beside(w)
    BY <1>3 DEF Beside
  <2>2. ReaderFresh(w)'
    BY <1>3, <1>u, ReaderStays DEF FreshInv
  <2>3. ~Writing(w)' /\ (CleanReader(w)' => \A v \in Workers \ {w} : ~Writing(v))
    BY <1>3 DEF Writing, Reading, ReaderPcs, CleanReader, FreshInv, CleanAlone
  <2> QED BY <1>a, <2>1, <2>2, <2>3 DEF Free
<1>4. ASSUME NEW e, Reading(w), Inherit(w, e) PROVE Beside(w) /\ Free(w)
  <2>1. PICK r \in Request :
           /\ req' = [req EXCEPT ![w] = r]
           /\ r = [req[w] EXCEPT !.clean = r.clean]
           /\ r.clean = 1 => req[w].clean = 1 /\ e.clean = 1
    BY <1>4, InheritGoes
  <2>2. req[w] \in Request
    BY DEF Types, ReqOK
  <2>3. /\ r.pc = req[w].pc /\ r.op = req[w].op /\ r.id = req[w].id /\ r.zeros = req[w].zeros
        /\ r.body = req[w].body /\ r.side = req[w].side /\ r.trig = req[w].trig /\ r.rec = req[w].rec
    BY <2>1, <2>2 DEF Request
  <2>4. CleanReader(w) => OptionsRead(req[w]) /\ BodyRead(req[w]) /\ FeedRead(req[w]) /\ SideRead(req[w])
    BY DEF FreshInv, ReaderFresh
  <2>5. OptionsRead(req[w]) /\ BodyRead(req[w]) /\ FeedRead(req[w]) /\ SideRead(req[w])
          => OptionsRead(r) /\ BodyRead(r) /\ FeedRead(r) /\ SideRead(r)
    BY <2>3 DEF OptionsRead, HasOptions, BodyRead, FeedRead, SideRead
  <2>6. r.pc \in ReaderPcs /\ (r.clean = 1 => req[w].clean = 1)
    BY <1>4, <2>1, <2>3 DEF Reading
  <2> QED BY <1>4, <1>u, <2>1, <2>4, <2>5, <2>6, ViewFree
<1> QED BY <1>a, <1>1, <1>2, <1>3, <1>4 DEF ListRequest

(* It keeps the invariant of the cache. *)
LEMMA ListCache ==
  ASSUME Types, FreshInv, ListInv, NEW w \in Workers, ListStep(w) PROVE FreshInv'
<1>1. ListRequest(w)
  BY ListRequests
<1>2. UNCHANGED <<Shown, lost, cache, nextId>>
  BY <1>1 DEF ListRequest, db, Shown
<1> QED BY <1>1, <1>2, ListFree, SameShrinks, FreeStep

(* And that of the tables. *)
LEMMA ListTables ==
  ASSUME Types, Facts, TxInv, ListInv, NEW w \in Workers, ListStep(w)
  PROVE  Types' /\ Facts' /\ TxInv'
<1>1. ListRequest(w)
  BY ListRequests
<1>2. UNCHANGED <<db, cache, lost>> /\ UNCHANGED <<posts, post2cat, comments, cats>>
  BY <1>1 DEF ListRequest, db
<1>3. ReqOK /\ "preview_page" \in ReaderOps
  BY DEF Types, ReaderOps, PostViews, PageViews
<1>4. ReqOK' /\ Others(w) /\ Calm(req'[w])
  <2>1. CASE Begin(w, "preview_page", "options", 0, 0)
    <3>1. "preview_page" \notin PostViews /\ "options" \in ReaderPcs /\ 0 \in Spellings
      BY SpellingAssumption DEF PostViews, ReaderPcs
    <3> QED BY <1>3, <2>1, <3>1, BeginOK, CalmSteps
  <2>2. CASE Finish(w)
    BY <1>3, <2>2, FinishOK, CalmSteps
  <2>3. CASE UNCHANGED req /\ req[w].op = "preview_page"
    BY <1>3, <2>3 DEF ReqOK, LocalsOK, Others, Calm
  <2>4. ASSUME NEW e, Inherit(w, e), req[w].op = "preview_page", Reading(w)
        PROVE  ReqOK' /\ Others(w) /\ Calm(req'[w])
    <3>1. PICK r \in Request : req' = [req EXCEPT ![w] = r] /\ r = [req[w] EXCEPT !.clean = r.clean]
      BY <2>4, InheritGoes
    <3>2. req[w] \in Request /\ LocalOK(req[w])
      BY DEF Types, ReqOK, LocalsOK
    <3>3. /\ r.op = req[w].op /\ r.pc = req[w].pc /\ r.id = req[w].id
          /\ r.post = req[w].post /\ r.text = req[w].text /\ r.now = req[w].now
          /\ r.comment = req[w].comment
      BY <3>1, <3>2 DEF Request
    <3>4. LocalOK(r)
      BY <3>2, <3>3, SameLocal
    <3>5. ReqOK' /\ Others(w) /\ req'[w] = r
      BY <1>3, <3>1, <3>4, OneRequest, OthersOne
    <3> QED BY <1>3, <2>4, <3>3, <3>5 DEF Calm
  <2> QED BY <1>1, <2>1, <2>2, <2>3, <2>4 DEF ListRequest
<1>5. Types'
  BY <1>2, <1>4, RequestOnly
<1> QED BY <1>2, <1>4, <1>5, ForwardSame, CalmStep

(***************************************************************************)
(* What the handler of a list reads and stores.                            *)
(***************************************************************************)

(* The entries stay, or a clean request stores what is right. *)
ListKeeps(w) ==
    /\ ListTypes'
    /\ \A k \in ListKeys : Kept(k)' =>
         \/ Kept(k) /\ lists'[k] = lists[k]
         \/ CleanReader(w) /\ ListRecords(k)' /\ ListCurrent(k)'

(* The handler goes on with m, and stores what is right. *)
LEMMA ListGoes ==
  ASSUME Types, FreshInv, ListInv, NEW w \in Workers, ListRequest(w),
         NEW m, ListLocal(m), lreq' = [lreq EXCEPT ![w] = m],
         ListPlace(w)', CleanReader(w)' => ReadsList(m), ListKeeps(w)
  PROVE  ListInv'
<1>1. Beside(w) /\ Free(w) /\ (req[w].pc = "after" => req[w].rises = {})
  BY ListFree
<1>2. UNCHANGED <<posts, post2cat, cats>> /\ lost \subseteq lost'
  BY DEF ListRequest, db
<1>3. lreq'[w] = m /\ (\A v \in Workers \ {w} : lreq'[v] = lreq[v])
      /\ lreq' = [v \in Workers |-> lreq'[v]]
  BY DEF ListInv, ListShape, ListTypes, ListLocal
<1>4. ListShape'
  BY <1>3 DEF ListInv, ListShape, ListKeeps
<1>5. ListRead(w)'
  <2>1. PICK l : l = m
    OBVIOUS
  <2>2. ReadsList(l) => ReadsList(l)'
    BY <1>2, ReadsStay
  <2>3. CleanReader(w)' => ReadsList(l)'
    BY <2>1, <2>2
  <2>4. lreq'[w] = l
    BY <1>3, <2>1
  <2> QED BY <2>3, <2>4 DEF ListRead, ReadsList
<1>6. CleanReader(w) => Quiet'
  <2>1. CleanReader(w) => \A v \in Workers : ~Writing(v)
    BY DEF FreshInv, CleanAlone
  <2>2. ~Writing(w)' /\ \A v \in Workers \ {w} : ~Writing(v) => ~Writing(v)'
    BY <1>1 DEF Free, Beside, Writing
  <2> QED BY <2>1, <2>2 DEF Quiet
<1>7. req'[w].pc # "tx"
  BY <1>1 DEF Free, Writing
<1> QED BY <1>1, <1>2, <1>3, <1>4, <1>5, <1>6, <1>7, ListCalm DEF ListKeeps

(* The handler ends. *)
LEMMA ListEnds ==
  ASSUME Types, FreshInv, ListInv, NEW w \in Workers, ListRequest(w), ListEnd(w), ListKeeps(w)
  PROVE  ListInv'
<1>1. lreq' = [lreq EXCEPT ![w] = NoList] /\ ListLocal(NoList) /\ NoList.pc = "none"
  BY DEF ListEnd, NoList, ListLocal, LocalNames
<1>2. lreq'[w] = NoList
  BY <1>1 DEF ListInv, ListShape, ListTypes, ListLocal
<1>3. ListPlace(w)' /\ ReadsList(NoList)
  BY <1>1, <1>2, ListAway DEF ReadsList, NamedList
<1> QED BY <1>1, <1>3, ListGoes

(* The entries are as they were. *)
LEMMA ListSame ==
  ASSUME ListInv, UNCHANGED lists
  PROVE  \A w : ListKeeps(w)
BY DEF ListInv, ListShape, ListTypes, Kept, Fetched, ListKeeps

(* One entry is stored, the others stay. *)
LEMMA ListStored ==
  ASSUME ListInv, NEW w, NEW k \in ListKeys, NEW num \in Nat, NEW name, NEW rows, NEW trig,
         ListStore(w, k, num, name, rows, trig)
  PROVE  /\ ListTypes'
         /\ lists'[k] = [num |-> num, name |-> name, rows |-> rows, trig |-> trig \cup {k},
                         clean |-> req[w].clean]
         /\ Reading(w) /\ (CleanReader(w) => ListRecords(k)' /\ ListCurrent(k)') => ListKeeps(w)
<1>1. lists' = [lists EXCEPT ![k] = [num |-> num, name |-> name, rows |-> rows, trig |-> trig \cup {k},
                                     clean |-> req[w].clean]]
  BY DEF ListStore
<1>2. /\ lists'[k] = [num |-> num, name |-> name, rows |-> rows, trig |-> trig \cup {k},
                      clean |-> req[w].clean]
      /\ \A x \in ListKeys \ {k} : lists'[x] = lists[x]
      /\ lists' = [x \in ListKeys |-> lists'[x]]
  BY <1>1 DEF ListInv, ListShape, ListTypes, ListLocal
<1>3. ListTypes'
  BY <1>2 DEF ListInv, ListShape, ListTypes, Fetched
<1>4. ASSUME Reading(w), CleanReader(w) => ListRecords(k)' /\ ListCurrent(k)' PROVE ListKeeps(w)
  BY <1>2, <1>3, <1>4 DEF ListKeeps, Kept, Fetched, CleanReader
<1> QED BY <1>2, <1>3, <1>4

(* The local variables of a handler that runs. *)
LEMMA ListRuns ==
  ASSUME ListInv, NEW w \in Workers, lreq[w].pc # "none"
  PROVE  /\ ListLocal(lreq[w]) /\ ListPlace(w) /\ req[w].op = "preview_page" /\ Reading(w)
         /\ lreq[w].cat \in ListCats /\ lreq[w].page \in UrlPages /\ lreq[w].q \in Queries
         /\ CleanReader(w) => ReadsList(lreq[w])
BY DEF ListInv, ListShape, ListTypes, ListLocal, ListPlace, Reading, ReaderPcs, MidPcs, LatePcs, ListRead

(* A request that goes on stays where it is. *)
LEMMA ListStaysAt ==
  ASSUME Types, NEW w \in Workers, UNCHANGED req \/ \E e : Inherit(w, e)
  PROVE  req'[w].op = req[w].op /\ req'[w].pc = req[w].pc /\ (CleanReader(w)' => CleanReader(w))
<1>1. CASE UNCHANGED req
  BY <1>1 DEF CleanReader, Reading
<1>2. ASSUME NEW e, Inherit(w, e)
      PROVE  req'[w].op = req[w].op /\ req'[w].pc = req[w].pc /\ (CleanReader(w)' => CleanReader(w))
  <2>1. PICK r \in Request :
           /\ req' = [req EXCEPT ![w] = r]
           /\ r = [req[w] EXCEPT !.clean = r.clean]
           /\ r.clean = 1 => req[w].clean = 1 /\ e.clean = 1
    BY <1>2, InheritGoes
  <2>2. req[w] \in Request /\ req'[w] = r
    BY <2>1 DEF Types, ReqOK
  <2>3. r.op = req[w].op /\ r.pc = req[w].pc
    BY <2>1, <2>2 DEF Request
  <2> QED BY <2>1, <2>2, <2>3 DEF CleanReader, Reading
<1> QED BY <1>1, <1>2

(* A set of numbers below a bound has a largest one. *)
LEMMA Largest ==
  ASSUME NEW n \in Nat, NEW S \in SUBSET (1 .. n), S # {}
  PROVE  \E c \in S : \A d \in S : d <= c
<1> DEFINE R == {ss \in Nat \X Nat : ss[1] < ss[2]}
           T == {n - c : c \in S}
<1>1. IsWellFoundedOn(R, Nat)
  BY NatLessThanWellFounded DEF OpToRel
<1>2. T \subseteq Nat /\ T # {}
  <2>1. \A c \in S : n - c \in Nat
    OBVIOUS
  <2>2. T \subseteq Nat
    BY <2>1
  <2>3. PICK c : c \in S
    OBVIOUS
  <2>4. n - c \in T
    BY <2>3
  <2> QED BY <2>2, <2>4
<1>3. PICK x \in T : \A y \in T : ~(<<y, x>> \in R)
  <2> HIDE DEF T, R
  <2> QED BY <1>1, <1>2, WFMin
<1>4. \A y \in T : ~(y < x)
  BY <1>2, <1>3
<1>5. PICK c \in S : x = n - c
  OBVIOUS
<1>6. ASSUME NEW d \in S PROVE d <= c
  <2>1. n - d \in T
    OBVIOUS
  <2>2. ~(n - d < n - c)
    BY <1>4, <1>5, <2>1
  <2> QED BY <2>2
<1> QED BY <1>6

(* The largest id of a category covers them all. *)
LEMMA MaxCovers == MaxCatId \in Nat /\ CoversCats(MaxCatId)
<1>1. CASE Existing = {}
  BY <1>1 DEF MaxCatId, CoversCats
<1>2. CASE Existing # {}
  <2>1. Existing \in SUBSET (1 .. MaxCat) /\ MaxCat \in Nat
    BY IdAssumption DEF Existing, CatId
  <2>2. \E c \in Existing : \A d \in Existing : d <= c
    BY <1>2, <2>1, Largest
  <2>3. MaxCatId \in Existing /\ \A d \in Existing : d <= MaxCatId
    BY <1>2, <2>2 DEF MaxCatId
  <2> QED BY <2>1, <2>3 DEF CoversCats
<1> QED BY <1>1, <1>2

(* The keys that the handler uses. *)
LEMMA KeysOfLists ==
  /\ MaxCatKey \in ListKeys
  /\ \A c \in ListCats \ {0} : NameKey(c) \in ListKeys
  /\ \A c \in ListCats, q \in Queries : CountKey(c, q) \in ListKeys
  /\ \A c \in ListCats, n \in UrlPages, q \in Queries : SummaryKey(c, n, q) \in ListKeys
BY DEF ListKeys

(* What is shown stays right while the tables stay. *)
LEMMA ShownStays ==
  ASSUME UNCHANGED <<posts, post2cat, cats>>
  PROVE  /\ \A num : CoversCats(num) => CoversCats(num)'
         /\ \A num, c : CoversPosts(num, c) => CoversPosts(num, c)'
         /\ \A rows, c, q : ShowsListed(rows, c, q) => ShowsListed(rows, c, q)'
         /\ \A rows, c : ShowsNewest(rows, c) => ShowsNewest(rows, c)'
         /\ \A rows : ShowsLinks(rows) => ShowsLinks(rows)'
BY ListsQueried DEF CoversCats, CoversPosts, ShowsListed, ShowsNewest, ShowsLinks

(* A handler starts. *)
LEMMA ListStartLists ==
  ASSUME Types, FreshInv, ListInv, NEW w \in Workers, ListStart(w) PROVE ListInv'
<1>1. PICK c \in ListCats, n \in UrlPages, q \in Queries :
        lreq' = [lreq EXCEPT ![w] = [NoList EXCEPT !.cat = c, !.page = n, !.q = q,
                                       !.pc = IF c > 0 THEN "max" ELSE "page"]]
  BY DEF ListStart
<1> DEFINE m == [NoList EXCEPT !.cat = c, !.page = n, !.q = q, !.pc = IF c > 0 THEN "max" ELSE "page"]
<1>2. /\ m.cat = c /\ m.page = n /\ m.q = q /\ m.pc \in {"max", "page"} /\ ListLocal(m)
  BY DEF NoList, ListLocal, LocalNames
<1>3. lreq' = [lreq EXCEPT ![w] = m]
  BY <1>1
<1> HIDE DEF m
<1>4. lreq'[w] = m
  BY <1>3 DEF ListInv, ListShape
<1>5. req'[w].op = "preview_page" /\ req'[w].pc = "options"
  BY DEF ListStart, Begin, Idle, Types, ReqOK
<1>6. ListPlace(w)'
  BY <1>2, <1>4, <1>5 DEF ListPlace, EarlyList
<1>7. ReadsList(m)
  BY <1>2 DEF ReadsList, NamedList
<1>8. ListRequest(w) /\ UNCHANGED lists
  BY ListRequests DEF ListStep, ListStart
<1> QED BY <1>2, <1>3, <1>6, <1>7, <1>8, ListGoes, ListSame

(* The handler goes on with m, for the same list, before the rows are read. *)
ListMoves(w, m) ==
    /\ lreq[w].pc \in EarlyList /\ m.pc \in EarlyList /\ ListLocal(m)
    /\ m.cat = lreq[w].cat /\ m.page = lreq[w].page /\ m.q = lreq[w].q
    /\ m.pc \in {"name", "name_select", "name_store"} => m.cat # 0
    /\ lreq' = [lreq EXCEPT ![w] = m]
    /\ UNCHANGED req \/ \E e : Inherit(w, e)
    /\ CleanReader(w)' => ReadsList(m)

(* A turn before the rows, for the same list, keeps the invariant of the lists. *)
LEMMA ListTurns ==
  ASSUME Types, FreshInv, ListInv, NEW w \in Workers, ListRequest(w),
         NEW m, ListMoves(w, m), ListKeeps(w)
  PROVE  ListInv'
<1>1. ListPlace(w) /\ lreq[w].pc # "none" /\ lreq'[w] = m
  BY DEF ListInv, ListShape, EarlyList, ListMoves
<1>2. req'[w].op = req[w].op /\ req'[w].pc = req[w].pc
  BY ListStaysAt DEF ListMoves
<1>3. req[w].op = "preview_page" /\ req[w].pc = "options"
  BY <1>1 DEF ListPlace, EarlyList, ListMoves
<1>4. ListPlace(w)'
  BY <1>1, <1>2, <1>3 DEF ListPlace, ListMoves
<1> QED BY <1>4, ListGoes DEF ListMoves

(* The largest id of a category, from the cache. *)
LEMMA ListMaxLists ==
  ASSUME Types, FreshInv, ListInv, NEW w \in Workers, ListMax(w) PROVE ListInv'
<1> DEFINE l == lreq[w]
<1>1. l.pc = "max" /\ ListRequest(w) /\ UNCHANGED lists /\ "max" \in EarlyList
  BY ListRequests DEF ListStep, ListMax, At2, EarlyList
<1>2. ListLocal(l)
  BY <1>1, ListRuns
<1>3. CASE Goto2(w, "max_select") /\ UNCHANGED req
  <2> DEFINE m == [l EXCEPT !.pc = "max_select"]
  <2>1. /\ m.pc = "max_select" /\ m.cat = l.cat /\ m.page = l.page /\ m.q = l.q /\ ListLocal(m)
    BY <1>2 DEF ListLocal, LocalNames
  <2>2. lreq' = [lreq EXCEPT ![w] = m]
    BY <1>3 DEF Goto2
  <2> HIDE DEF m
  <2>3. ReadsList(m)
    BY <2>1 DEF ReadsList, NamedList
  <2>4. ListMoves(w, m)
    BY <1>1, <1>3, <2>1, <2>2, <2>3 DEF ListMoves, EarlyList
  <2> QED BY <1>1, <2>4, ListTurns, ListSame
<1>4. CASE ListEnd(w)
  BY <1>1, <1>4, ListEnds, ListSame
<1>5. CASE /\ lreq' = [lreq EXCEPT ![w].trig = @ \cup lists[MaxCatKey].trig, ![w].pc = "page"]
           /\ Inherit(w, lists[MaxCatKey])
  <2> DEFINE m == [l EXCEPT !.trig = @ \cup lists[MaxCatKey].trig, !.pc = "page"]
  <2>1. /\ m.pc = "page" /\ m.cat = l.cat /\ m.page = l.page /\ m.q = l.q /\ ListLocal(m)
    BY <1>2 DEF ListLocal, LocalNames
  <2>2. lreq' = [lreq EXCEPT ![w] = m]
    BY <1>5 DEF ListInv, ListShape
  <2> HIDE DEF m
  <2>3. ReadsList(m)
    BY <2>1 DEF ReadsList, NamedList
  <2>4. ListMoves(w, m)
    BY <1>1, <1>5, <2>1, <2>2, <2>3 DEF ListMoves, EarlyList
  <2> QED BY <1>1, <2>4, ListTurns, ListSame
<1> QED BY <1>3, <1>4, <1>5 DEF ListMax

(* The same from the table. *)
LEMMA ListMaxSelectLists ==
  ASSUME Types, FreshInv, ListInv, NEW w \in Workers, ListMaxSelect(w) PROVE ListInv'
<1> DEFINE l == lreq[w]
           m == [l EXCEPT !.num = MaxCatId, !.pc = "max_store"]
<1>1. l.pc = "max_select" /\ ListRequest(w) /\ UNCHANGED <<lists, req>>
  BY ListRequests DEF ListStep, ListMaxSelect, At2
<1>2. ListLocal(l)
  BY <1>1, ListRuns
<1>3. /\ m.pc = "max_store" /\ m.cat = l.cat /\ m.page = l.page /\ m.q = l.q /\ ListLocal(m)
      /\ m.num = MaxCatId
  BY <1>2, MaxCovers DEF ListLocal, LocalNames
<1>4. lreq' = [lreq EXCEPT ![w] = m]
  BY DEF ListMaxSelect, ListInv, ListShape
<1> HIDE DEF m
<1>5. ReadsList(m)
  BY <1>3, MaxCovers DEF ReadsList, NamedList
<1>6. ListMoves(w, m)
  BY <1>1, <1>3, <1>4, <1>5 DEF ListMoves, EarlyList
<1> QED BY <1>1, <1>6, ListTurns, ListSame

(* It is stored with the trigger of the categories. *)
LEMMA ListMaxStoreLists ==
  ASSUME Types, FreshInv, ListInv, NEW w \in Workers, ListMaxStore(w) PROVE ListInv'
<1> DEFINE l == lreq[w]
           m == [l EXCEPT !.trig = @ \cup {CatsTrigger, MaxCatKey}, !.num = 0, !.pc = "page"]
<1>k. PICK k : k = MaxCatKey
  OBVIOUS
<1> DEFINE e == lists[k]
<1>1. l.pc = "max_store" /\ ListRequest(w) /\ UNCHANGED req /\ UNCHANGED <<posts, post2cat, cats>>
  BY ListRequests DEF ListStep, ListMaxStore, At2, db
<1>2. ListLocal(l) /\ Reading(w) /\ (CleanReader(w) => ReadsList(l))
  BY <1>1, ListRuns
<1>3. /\ m.pc = "page" /\ m.cat = l.cat /\ m.page = l.page /\ m.q = l.q /\ ListLocal(m)
  BY <1>2 DEF ListLocal, LocalNames
<1>4. lreq' = [lreq EXCEPT ![w] = m]
  BY DEF ListMaxStore, ListInv, ListShape
<1>5. /\ lists'[k].num = l.num /\ CatsTrigger \in lists'[k].trig
      /\ (CleanReader(w) => ListRecords(k)' /\ ListCurrent(k)') => ListKeeps(w)
  <2>1. l.num \in Nat /\ k \in ListKeys /\ ListStore(w, k, l.num, NoRow, {}, {CatsTrigger})
    BY <1>2, <1>k, KeysOfLists DEF ListMaxStore, ListLocal
  <2>2. lists'[k] = [num |-> l.num, name |-> NoRow, rows |-> {}, trig |-> {CatsTrigger} \cup {k},
                     clean |-> req[w].clean]
    BY <2>1, ListStored
  <2>3. (CleanReader(w) => ListRecords(k)' /\ ListCurrent(k)') => ListKeeps(w)
    BY <1>2, <2>1, ListStored
  <2> QED BY <2>2, <2>3
<1>6. ASSUME CleanReader(w) PROVE ListRecords(k)' /\ ListCurrent(k)'
  <2>1. CoversCats(l.num)
    BY <1>1, <1>2, <1>6 DEF ReadsList
  <2>2. CoversCats(e.num)'
    BY <1>1, <1>5, <2>1, ListsQueried DEF CoversCats
  <2> QED BY <1>k, <1>5, <2>2, ListKeysDiffer DEF ListRecords, ListCurrent
<1> HIDE DEF m
<1>7. ReadsList(m)
  BY <1>3 DEF ReadsList, NamedList
<1>8. ListMoves(w, m)
  BY <1>1, <1>3, <1>4, <1>7 DEF ListMoves, EarlyList
<1> QED BY <1>1, <1>5, <1>6, <1>8, ListTurns

(* The page is not there: it is made, from the name or the number on. *)
LEMMA ListPageLists ==
  ASSUME Types, FreshInv, ListInv, NEW w \in Workers, ListPage(w) PROVE ListInv'
<1> DEFINE l == lreq[w]
<1>1. l.pc = "page" /\ ListRequest(w) /\ UNCHANGED lists
  BY ListRequests DEF ListStep, ListPage, At2
<1>2. ListLocal(l)
  BY <1>1, ListRuns
<1>3. CASE ListEnd(w)
  BY <1>1, <1>3, ListEnds, ListSame
<1>4. CASE /\ lreq' = [lreq EXCEPT ![w].trig = @ \cup {CatOf(l.cat)},
                                   ![w].pc = IF l.cat = 0 THEN "count" ELSE "name"]
           /\ UNCHANGED req
  <2> DEFINE m == [l EXCEPT !.trig = @ \cup {CatOf(l.cat)}, !.pc = IF l.cat = 0 THEN "count" ELSE "name"]
  <2>1. /\ m.pc = (IF l.cat = 0 THEN "count" ELSE "name") /\ m.cat = l.cat /\ m.page = l.page
        /\ m.q = l.q /\ m.trig = l.trig \cup {CatOf(l.cat)} /\ ListLocal(m)
    BY <1>2 DEF ListLocal, LocalNames
  <2>2. lreq' = [lreq EXCEPT ![w] = m]
    BY <1>4 DEF ListInv, ListShape
  <2> HIDE DEF m
  <2>3. ReadsList(m)
    BY <2>1 DEF ReadsList
  <2>4. ListMoves(w, m)
    BY <1>1, <1>4, <2>1, <2>2, <2>3 DEF ListMoves, EarlyList
  <2> QED BY <1>1, <2>4, ListTurns, ListSame
<1> QED BY <1>3, <1>4 DEF ListPage

(* The name of the category, from the cache. *)
LEMMA ListNameLists ==
  ASSUME Types, FreshInv, ListInv, NEW w \in Workers, ListName(w) PROVE ListInv'
<1> DEFINE l == lreq[w]
           e == lists[NameKey(l.cat)]
<1>1. l.pc = "name" /\ ListRequest(w) /\ UNCHANGED lists
  BY ListRequests DEF ListStep, ListName, At2
<1>2. ListLocal(l) /\ (CleanReader(w) => ReadsList(l)) /\ l.cat # 0
  BY <1>1, ListRuns DEF ListPlace
<1>3. CASE ListEnd(w)
  BY <1>1, <1>3, ListEnds, ListSame
<1>4. CASE Goto2(w, "name_select") /\ UNCHANGED req
  <2> DEFINE m == [l EXCEPT !.pc = "name_select"]
  <2>1. /\ m.pc = "name_select" /\ m.cat = l.cat /\ m.page = l.page /\ m.q = l.q /\ m.trig = l.trig
        /\ ListLocal(m)
    BY <1>2 DEF ListLocal, LocalNames
  <2>2. lreq' = [lreq EXCEPT ![w] = m]
    BY <1>4 DEF Goto2
  <2> HIDE DEF m
  <2>3. ReadsList(l) => ReadsList(m)
    BY <1>1, <2>1 DEF ReadsList, NamedList
  <2>4. CleanReader(w)' => ReadsList(m)
    BY <1>2, <1>4, <2>3, ListStaysAt
  <2>5. ListMoves(w, m)
    BY <1>1, <1>2, <1>4, <2>1, <2>2, <2>4 DEF ListMoves, EarlyList
  <2> QED BY <1>1, <2>5, ListTurns, ListSame
<1>5. CASE /\ lreq' = [lreq EXCEPT ![w].name = e.name, ![w].trig = @ \cup e.trig, ![w].pc = "count"]
           /\ Inherit(w, e)
  <2> DEFINE m == [l EXCEPT !.name = e.name, !.trig = @ \cup e.trig, !.pc = "count"]
  <2>1. /\ m.pc = "count" /\ m.cat = l.cat /\ m.page = l.page /\ m.q = l.q
        /\ m.trig = l.trig \cup e.trig /\ ListLocal(m)
    BY <1>2 DEF ListLocal, LocalNames
  <2>2. lreq' = [lreq EXCEPT ![w] = m]
    BY <1>5 DEF ListInv, ListShape
  <2> HIDE DEF m
  <2>3. ReadsList(l) => ReadsList(m)
    BY <1>1, <2>1 DEF ReadsList, NamedList
  <2>4. CleanReader(w)' => ReadsList(m)
    BY <1>2, <1>5, <2>3, ListStaysAt
  <2>5. ListMoves(w, m)
    BY <1>1, <1>5, <2>1, <2>2, <2>4 DEF ListMoves, EarlyList
  <2> QED BY <1>1, <2>5, ListTurns, ListSame
<1> QED BY <1>3, <1>4, <1>5 DEF ListName

(* The same from the table. *)
LEMMA ListNameSelectLists ==
  ASSUME Types, FreshInv, ListInv, NEW w \in Workers, ListNameSelect(w) PROVE ListInv'
<1> DEFINE l == lreq[w]
           m == [l EXCEPT !.name = cats[l.cat], !.pc = "name_store"]
<1>1. l.pc = "name_select" /\ ListRequest(w) /\ UNCHANGED <<lists, req>>
  BY ListRequests DEF ListStep, ListNameSelect, At2
<1>2. ListLocal(l) /\ (CleanReader(w) => ReadsList(l)) /\ l.cat # 0
  BY <1>1, ListRuns DEF ListPlace
<1>3. /\ m.pc = "name_store" /\ m.cat = l.cat /\ m.page = l.page /\ m.q = l.q /\ ListLocal(m)
      /\ m.name = cats[l.cat] /\ m.trig = l.trig
  BY <1>2 DEF ListLocal, LocalNames
<1>4. lreq' = [lreq EXCEPT ![w] = m]
  BY DEF ListNameSelect, ListInv, ListShape
<1> HIDE DEF m
<1>5. ReadsList(l) => ReadsList(m)
  BY <1>1, <1>3 DEF ReadsList, NamedList
<1>6. CleanReader(w)' => ReadsList(m)
  BY <1>1, <1>2, <1>5, ListStaysAt
<1>7. ListMoves(w, m)
  BY <1>1, <1>2, <1>3, <1>4, <1>6 DEF ListMoves, EarlyList
<1> QED BY <1>1, <1>7, ListTurns, ListSame

(* It is stored with the trigger of the category. *)
LEMMA ListNameStoreLists ==
  ASSUME Types, FreshInv, ListInv, NEW w \in Workers, ListNameStore(w) PROVE ListInv'
<1> DEFINE l == lreq[w]
<1>k. PICK k : k = NameKey(l.cat)
  OBVIOUS
<1> DEFINE e == lists[k]
<1>1. l.pc = "name_store" /\ ListRequest(w) /\ UNCHANGED <<posts, post2cat, cats>>
  BY ListRequests DEF ListStep, ListNameStore, At2, db
<1>2. /\ ListLocal(l) /\ Reading(w) /\ (CleanReader(w) => ReadsList(l)) /\ l.cat # 0
      /\ l.cat \in ListCats
  BY <1>1, ListRuns DEF ListPlace
<1>3. /\ lists'[k].name = l.name /\ CatOf(l.cat) \in lists'[k].trig
      /\ (CleanReader(w) => ListRecords(k)' /\ ListCurrent(k)') => ListKeeps(w)
  <2>1. k \in ListKeys /\ ListStore(w, k, 0, l.name, {}, {CatOf(l.cat)}) /\ 0 \in Nat
    BY <1>2, <1>k, KeysOfLists DEF ListNameStore
  <2>2. lists'[k] = [num |-> 0, name |-> l.name, rows |-> {}, trig |-> {CatOf(l.cat)} \cup {k},
                     clean |-> req[w].clean]
    BY <2>1, ListStored
  <2>3. (CleanReader(w) => ListRecords(k)' /\ ListCurrent(k)') => ListKeeps(w)
    BY <1>2, <2>1, ListStored
  <2> QED BY <2>2, <2>3
<1>4. ASSUME CleanReader(w) PROVE ListRecords(k)' /\ ListCurrent(k)'
  <2>1. l.name = cats'[l.cat]
    BY <1>1, <1>2, <1>4 DEF ReadsList
  <2>2. ListRecords(k)'
    BY <1>k, <1>3, ListKeysDiffer DEF ListRecords, CatOf
  <2> QED BY <1>k, <1>3, <2>1, <2>2, ListKeysDiffer DEF ListCurrent
<1>5. CASE ListEnd(w)
  BY <1>1, <1>3, <1>4, <1>5, ListEnds
<1>6. CASE lreq' = [lreq EXCEPT ![w].trig = @ \cup {NameKey(l.cat)}, ![w].pc = "count"] /\ UNCHANGED req
  <2> DEFINE m == [l EXCEPT !.trig = @ \cup {NameKey(l.cat)}, !.pc = "count"]
  <2>1. /\ m.pc = "count" /\ m.cat = l.cat /\ m.page = l.page /\ m.q = l.q /\ ListLocal(m)
        /\ m.trig = l.trig \cup {NameKey(l.cat)}
    BY <1>2 DEF ListLocal, LocalNames
  <2>2. lreq' = [lreq EXCEPT ![w] = m]
    BY <1>6 DEF ListInv, ListShape
  <2> HIDE DEF m
  <2>3. ReadsList(l) => ReadsList(m)
    BY <1>1, <2>1 DEF ReadsList, NamedList
  <2>4. CleanReader(w)' => ReadsList(m)
    BY <1>2, <1>6, <2>3, ListStaysAt
  <2>5. ListMoves(w, m)
    BY <1>1, <1>6, <2>1, <2>2, <2>4 DEF ListMoves, EarlyList
  <2> QED BY <1>1, <1>3, <1>4, <2>5, ListTurns
<1> QED BY <1>5, <1>6 DEF ListNameStore

(* The number of posts, from the cache. *)
LEMMA ListCountLists ==
  ASSUME Types, FreshInv, ListInv, NEW w \in Workers, ListCount(w) PROVE ListInv'
<1> DEFINE l == lreq[w]
<1>k. PICK k : k = CountKey(l.cat, l.q)
  OBVIOUS
<1> DEFINE e == lists[k]
<1>1. l.pc = "count" /\ ListRequest(w) /\ UNCHANGED lists
  BY ListRequests DEF ListStep, ListCount, At2
<1>2. ListLocal(l) /\ (CleanReader(w) => ReadsList(l)) /\ k \in ListKeys
  BY <1>1, <1>k, ListRuns, KeysOfLists
<1>3. CASE ListEnd(w)
  BY <1>1, <1>3, ListEnds, ListSame
<1>4. CASE Goto2(w, "count_select") /\ UNCHANGED req
  <2> DEFINE m == [l EXCEPT !.pc = "count_select"]
  <2>1. /\ m.pc = "count_select" /\ m.cat = l.cat /\ m.page = l.page /\ m.q = l.q /\ m.trig = l.trig
        /\ ListLocal(m)
    BY <1>2 DEF ListLocal, LocalNames
  <2>2. lreq' = [lreq EXCEPT ![w] = m]
    BY <1>4 DEF Goto2
  <2> HIDE DEF m
  <2>3. ReadsList(l) => ReadsList(m)
    BY <1>1, <2>1 DEF ReadsList, NamedList
  <2>4. CleanReader(w)' => ReadsList(m)
    BY <1>2, <1>4, <2>3, ListStaysAt
  <2>5. ListMoves(w, m)
    BY <1>1, <1>2, <1>4, <2>1, <2>2, <2>4 DEF ListMoves, EarlyList
  <2> QED BY <1>1, <2>5, ListTurns, ListSame
<1>5. CASE /\ Fetched(k) /\ Inherit(w, e)
           /\ lreq' = [lreq EXCEPT ![w].num = e.num, ![w].trig = @ \cup e.trig, ![w].pc = "rows"]
  <2> DEFINE m == [l EXCEPT !.num = e.num, !.trig = @ \cup e.trig, !.pc = "rows"]
  <2>1. e.num \in Nat
    BY <1>2, <1>5 DEF ListInv, ListShape, ListTypes
  <2>2. /\ m.pc = "rows" /\ m.cat = l.cat /\ m.page = l.page /\ m.q = l.q
        /\ m.trig = l.trig \cup e.trig /\ ListLocal(m)
    BY <1>2, <2>1 DEF ListLocal, LocalNames
  <2>3. lreq' = [lreq EXCEPT ![w] = m]
    BY <1>5 DEF ListInv, ListShape
  <2> HIDE DEF m
  <2>4. ReadsList(l) => ReadsList(m)
    BY <1>1, <2>2 DEF ReadsList, NamedList
  <2>5. CleanReader(w)' => ReadsList(m)
    BY <1>2, <1>5, <2>4, ListStaysAt
  <2>6. ListMoves(w, m)
    BY <1>1, <1>5, <2>2, <2>3, <2>5 DEF ListMoves, EarlyList
  <2> QED BY <1>1, <2>6, ListTurns, ListSame
<1> QED BY <1>k, <1>3, <1>4, <1>5 DEF ListCount

(* The same from the table. *)
LEMMA ListCountSelectLists ==
  ASSUME Types, FreshInv, ListInv, NEW w \in Workers, ListCountSelect(w) PROVE ListInv'
<1> DEFINE l == lreq[w]
           n == Cardinality(Listed(l.cat, l.q))
           m == [l EXCEPT !.num = n, !.pc = "count_store"]
<1>1. l.pc = "count_select" /\ ListRequest(w) /\ UNCHANGED <<lists, req>>
  BY ListRequests DEF ListStep, ListCountSelect, At2
<1>2. ListLocal(l) /\ (CleanReader(w) => ReadsList(l)) /\ n \in Nat
  BY <1>1, ListRuns, ListedFinite
<1>3. lreq' = [lreq EXCEPT ![w] = m]
  BY DEF ListCountSelect, ListInv, ListShape
<1>4. /\ m.pc = "count_store" /\ m.cat = l.cat /\ m.page = l.page /\ m.q = l.q /\ ListLocal(m)
      /\ m.num = n /\ m.trig = l.trig
  <2> HIDE DEF n
  <2> QED BY <1>2 DEF ListLocal, LocalNames
<1> HIDE DEF m
<1>5. ReadsList(l) => ReadsList(m)
  BY <1>1, <1>4 DEF ReadsList, NamedList
<1>6. CleanReader(w)' => ReadsList(m)
  BY <1>1, <1>2, <1>5, ListStaysAt
<1>7. ListMoves(w, m)
  BY <1>1, <1>2, <1>3, <1>4, <1>6 DEF ListMoves, EarlyList
<1> QED BY <1>1, <1>7, ListTurns, ListSame

(* It is stored with the trigger of the list. *)
LEMMA ListCountStoreLists ==
  ASSUME Types, FreshInv, ListInv, NEW w \in Workers, ListCountStore(w) PROVE ListInv'
<1> DEFINE l == lreq[w]
<1>k. PICK k : k = CountKey(l.cat, l.q)
  OBVIOUS
<1> DEFINE e == lists[k]
<1>1. l.pc = "count_store" /\ ListRequest(w) /\ UNCHANGED <<posts, post2cat, cats>>
  BY ListRequests DEF ListStep, ListCountStore, At2, db
<1>2. /\ ListLocal(l) /\ Reading(w) /\ (CleanReader(w) => ReadsList(l)) /\ k \in ListKeys
      /\ l.cat \in ListCats /\ l.q \in Queries /\ l.num \in Nat
  BY <1>1, <1>k, ListRuns, KeysOfLists DEF ListLocal
<1>3. /\ lists'[k].num = l.num /\ CatOf(l.cat) \in lists'[k].trig
      /\ (CleanReader(w) => ListRecords(k)' /\ ListCurrent(k)') => ListKeeps(w)
  <2>1. ListStore(w, k, l.num, NoRow, {}, {CatOf(l.cat)})
    BY <1>k DEF ListCountStore, CountTriggers
  <2>2. lists'[k] = [num |-> l.num, name |-> NoRow, rows |-> {}, trig |-> {CatOf(l.cat)} \cup {k},
                     clean |-> req[w].clean]
    BY <1>2, <2>1, ListStored
  <2>3. (CleanReader(w) => ListRecords(k)' /\ ListCurrent(k)') => ListKeeps(w)
    BY <1>2, <2>1, ListStored
  <2> QED BY <2>2, <2>3
<1>4. ASSUME CleanReader(w) PROVE ListRecords(k)' /\ ListCurrent(k)'
  <2>1. l.num = Cardinality(Listed(l.cat, l.q))
    BY <1>1, <1>2, <1>4 DEF ReadsList
  <2>2. ListRecords(k)'
    BY <1>k, <1>3, ListKeysDiffer DEF ListRecords, CatOf
  <2>4. ASSUME NEW c \in ListCats, k = CountKey(c, NoRow) PROVE CoversPosts(e.num, c)'
    <3>1. c = l.cat /\ l.q = NoRow
      BY <1>k, <2>4 DEF CountKey
    <3>2. Listed(c, NoRow)' = Listed(c, NoRow)
      BY <1>1, ListsQueried
    <3>3. l.num = Cardinality(Listed(c, NoRow)')
      BY <2>1, <3>1, <3>2
    <3>4. l.num >= Cardinality(Listed(c, NoRow)')
      BY <1>2, <3>3
    <3> QED BY <1>3, <3>4 DEF CoversPosts
  <2>5. ListCurrent(k)'
    BY <1>k, <2>4, ListKeysDiffer DEF ListCurrent
  <2> QED BY <2>2, <2>5
<1>5. CASE ListEnd(w)
  BY <1>1, <1>3, <1>4, <1>5, ListEnds
<1>6. CASE /\ lreq' = [lreq EXCEPT ![w].num = l.num, ![w].trig = @ \cup {CatOf(l.cat), k}, ![w].pc = "rows"]
           /\ UNCHANGED req
  <2> DEFINE m == [l EXCEPT !.num = l.num, !.trig = @ \cup {CatOf(l.cat), k}, !.pc = "rows"]
  <2>1. /\ m.pc = "rows" /\ m.cat = l.cat /\ m.page = l.page /\ m.q = l.q /\ ListLocal(m)
        /\ m.trig = l.trig \cup {CatOf(l.cat), k}
    BY <1>2 DEF ListLocal, LocalNames
  <2>2. lreq' = [lreq EXCEPT ![w] = m]
    BY <1>6 DEF ListInv, ListShape
  <2> HIDE DEF m
  <2>3. ReadsList(m)
    BY <2>1 DEF ReadsList, NamedList
  <2>5. ListMoves(w, m)
    BY <1>1, <1>6, <2>1, <2>2, <2>3 DEF ListMoves, EarlyList
  <2> QED BY <1>1, <1>3, <1>4, <2>5, ListTurns
<1>7. Counted(w, l.num, {CatOf(l.cat), k})
  BY <1>k DEF ListCountStore
<1> QED BY <1>5, <1>6, <1>7 DEF Counted

(* The rows of the page: every post shown is recorded. *)
LEMMA ListRowsLists ==
  ASSUME Types, FreshInv, ListInv, NEW w \in Workers, ListRows(w) PROVE ListInv'
<1> DEFINE l == lreq[w]
<1>1. l.pc = "rows" /\ ListRequest(w) /\ UNCHANGED <<lists, req>>
  BY ListRequests DEF ListStep, ListRows, At2
<1>2. ListLocal(l) /\ ListPlace(w) /\ (CleanReader(w) => ReadsList(l))
  BY <1>1, ListRuns
<1>3. PICK ps \in PagesOf(Listed(l.cat, l.q), DateIn(l.cat), l.page) :
        lreq' = [lreq EXCEPT ![w].rows = {ShownRow(p) : p \in ps},
                             ![w].trig = @ \cup RowTriggers(ps), ![w].pc = "options"]
  BY DEF ListRows
<1>r. PICK rows : rows = {ShownRow(p) : p \in ps}
  OBVIOUS
<1> DEFINE m == [l EXCEPT !.rows = rows, !.trig = @ \cup RowTriggers(ps), !.pc = "options"]
<1>4. /\ m.pc = "options" /\ m.cat = l.cat /\ m.page = l.page /\ m.q = l.q /\ ListLocal(m)
      /\ m.rows = rows /\ m.trig = l.trig \cup RowTriggers(ps)
  BY <1>2 DEF ListLocal, LocalNames
<1>5. lreq' = [lreq EXCEPT ![w] = m]
  BY <1>r, <1>3 DEF ListInv, ListShape
<1> HIDE DEF m
<1>6. /\ ps \subseteq Listed(l.cat, l.q)
      /\ \A x \in rows : \E p \in ps : x = ShownRow(p)
  BY <1>r, <1>3 DEF PagesOf
<1>7. \A p : ShownRow(p).post = p /\ ShownRow(p) = [ShownRow(p) EXCEPT !.cats = ShownRow(p).cats]
  BY DEF ShownRow
<1>8. RowsRecorded(rows, m.trig)
  BY <1>4, <1>6, <1>7 DEF RowsRecorded, RowTriggers
<1>9. ShowsListed(rows, l.cat, l.q)
  BY <1>6, <1>7 DEF ShowsListed
<1>10. l.page = 0 /\ l.q = NoRow => ShowsNewest(rows, l.cat)
  BY <1>r, <1>3, FirstPage
<1>11. ReadsList(l) => ReadsList(m)
  BY <1>1, <1>4, <1>8, <1>9, <1>10 DEF ReadsList, NamedList
<1>12. CleanReader(w)' => ReadsList(m)
  BY <1>1, <1>2, <1>11, ListStaysAt
<1>13. lreq'[w] = m /\ req'[w] = req[w]
  BY <1>1, <1>5 DEF ListInv, ListShape
<1>14. ListPlace(w)'
  BY <1>1, <1>2, <1>4, <1>13 DEF ListPlace, EarlyList, MidPcs
<1> QED BY <1>1, <1>4, <1>5, <1>12, <1>14, ListGoes, ListSame

(* Then the categories of the posts. *)
LEMMA ListCategoriesLists ==
  ASSUME Types, FreshInv, ListInv, NEW w \in Workers, ListCategories(w) PROVE ListInv'
<1> DEFINE l == lreq[w]
<1>r. PICK rows : rows = {[x EXCEPT !.cats = CategoriesOf(x.post)] : x \in l.rows}
  OBVIOUS
<1> DEFINE m == [l EXCEPT !.rows = rows, !.pc = "render"]
<1>1. l.pc = "options" /\ req[w].pc = "frame" /\ ListRequest(w) /\ UNCHANGED <<lists, req>>
  BY ListRequests DEF ListStep, ListCategories, At2
<1>2. ListLocal(l) /\ ListPlace(w) /\ (CleanReader(w) => ReadsList(l))
  BY <1>1, ListRuns
<1>4. /\ m.pc = "render" /\ m.cat = l.cat /\ m.page = l.page /\ m.q = l.q /\ ListLocal(m)
      /\ m.rows = rows /\ m.trig = l.trig
  BY <1>2 DEF ListLocal, LocalNames
<1>5. lreq' = [lreq EXCEPT ![w] = m]
  BY <1>r DEF ListCategories, ListInv, ListShape
<1> HIDE DEF m
<1>6. ASSUME ReadsList(l) PROVE ReadsList(m)
  <2>1. /\ RowsRecorded(l.rows, l.trig) /\ ShowsListed(l.rows, l.cat, l.q) /\ CatOf(l.cat) \in l.trig
        /\ l.page = 0 /\ l.q = NoRow => ShowsNewest(l.rows, l.cat)
    BY <1>1, <1>6 DEF ReadsList, NamedList
  <2> DEFINE With(y) == [y EXCEPT !.cats = CategoriesOf(y.post)]
  <2>2. ASSUME NEW y \in l.rows
        PROVE  /\ With(y).post = y.post /\ With(y).cats = CategoriesOf(y.post)
               /\ With(y) = [ShownRow(y.post) EXCEPT !.cats = With(y).cats]
    <3>1. PICK p : p = y.post /\ y = [ShownRow(p) EXCEPT !.cats = y.cats]
      BY <2>1 DEF ShowsListed
    <3>2. y = [post |-> p, text |-> posts[p].text, count |-> posts[p].count, cats |-> y.cats]
      BY <3>1 DEF ShownRow
    <3>3. [y EXCEPT !.cats = CategoriesOf(p)]
            = [post |-> p, text |-> posts[p].text, count |-> posts[p].count, cats |-> CategoriesOf(p)]
      BY <3>2
    <3>4. [ShownRow(p) EXCEPT !.cats = CategoriesOf(p)]
            = [post |-> p, text |-> posts[p].text, count |-> posts[p].count, cats |-> CategoriesOf(p)]
      BY DEF ShownRow
    <3> QED BY <3>1, <3>3, <3>4
  <2>r. rows = {With(y) : y \in l.rows}
    BY <1>r
  <2> HIDE DEF With
  <2>3. RowsRecorded(rows, l.trig)
    BY <2>r, <2>1, <2>2 DEF RowsRecorded
  <2>4. ShowsListed(rows, l.cat, l.q) /\ ShowsLinks(rows)
    BY <2>r, <2>1, <2>2 DEF ShowsListed, ShowsLinks
  <2>5. {x.post : x \in rows} = {x.post : x \in l.rows}
    BY <2>r, <2>2
  <2>6. l.page = 0 /\ l.q = NoRow => ShowsNewest(rows, l.cat)
    BY <2>1, <2>5 DEF ShowsNewest
  <2> QED BY <1>4, <2>1, <2>3, <2>4, <2>6 DEF ReadsList, NamedList
<1>7. CleanReader(w)' => ReadsList(m)
  BY <1>1, <1>2, <1>6, ListStaysAt
<1>8. lreq'[w] = m /\ req'[w] = req[w]
  BY <1>1, <1>5 DEF ListInv, ListShape
<1>9. ListPlace(w)'
  BY <1>1, <1>2, <1>4, <1>8 DEF ListPlace, EarlyList, LatePcs
<1> QED BY <1>1, <1>4, <1>5, <1>7, <1>9, ListGoes, ListSame

(* store_page: the page has every trigger that was recorded on the way. *)
LEMMA ListStorePageLists ==
  ASSUME Types, FreshInv, ListInv, NEW w \in Workers, ListStorePage(w) PROVE ListInv'
<1> DEFINE l == lreq[w]
<1>k. PICK k, i, s, rows : /\ k = SummaryKey(l.cat, l.page, l.q) /\ rows = l.rows
                           /\ i = l.page /\ s = l.q
  OBVIOUS
<1>d. PICK d : d = l.cat
  OBVIOUS
<1> DEFINE e == lists[k]
<1>1. /\ l.pc = "render" /\ req[w].pc = "store" /\ ListRequest(w) /\ ListEnd(w)
      /\ UNCHANGED <<posts, post2cat, cats>>
  BY ListRequests DEF ListStep, ListStorePage, At2, db
<1>2. /\ ListLocal(l) /\ Reading(w) /\ (CleanReader(w) => ReadsList(l)) /\ k \in ListKeys
      /\ req[w].op = "preview_page" /\ l.num \in Nat
  BY <1>1, <1>k, ListRuns, KeysOfLists DEF ListLocal
<1>3. /\ lists'[k].rows = rows /\ l.trig \cup req[w].trig \subseteq lists'[k].trig
      /\ (CleanReader(w) => ListRecords(k)' /\ ListCurrent(k)') => ListKeeps(w)
  <2>1. ListStore(w, k, l.num, l.name, rows, l.trig \cup req[w].trig)
    BY <1>k DEF ListStorePage
  <2>2. lists'[k] = [num |-> l.num, name |-> l.name, rows |-> rows,
                     trig |-> (l.trig \cup req[w].trig) \cup {k}, clean |-> req[w].clean]
    BY <1>2, <2>1, ListStored
  <2>3. (CleanReader(w) => ListRecords(k)' /\ ListCurrent(k)') => ListKeeps(w)
    BY <1>2, <2>1, ListStored
  <2> QED BY <2>2, <2>3
<1>4. ASSUME CleanReader(w) PROVE ListRecords(k)' /\ ListCurrent(k)'
  <2>1. /\ RowsRecorded(rows, l.trig) /\ ShowsListed(rows, d, s) /\ CatOf(d) \in l.trig
        /\ i = 0 /\ s = NoRow => ShowsNewest(rows, d)
        /\ ShowsLinks(rows)
    BY <1>1, <1>2, <1>4, <1>k, <1>d DEF ReadsList, NamedList
  <2>2. CatsTrigger \in req[w].trig
    <3>1. SideRead(req[w]) /\ req[w].op \in PageViews
      BY <1>2, <1>4 DEF FreshInv, ReaderFresh, PageViews
    <3> QED BY <1>1, <3>1 DEF SideRead, SideRecorded
  <2>3. \A c \in ListCats, n \in UrlPages, q \in Queries : k = SummaryKey(c, n, q) => c = d /\ n = i /\ q = s
    BY <1>k, <1>d DEF SummaryKey
  <2>4. \A c \in ListCats : k # MaxCatKey /\ k # NameKey(c) /\ k # CountKey(c, NoRow)
    BY <1>k, ListKeysDiffer
  <2>5. CatOf(d) \in lists'[k].trig /\ CatsTrigger \in lists'[k].trig
    BY <1>3, <2>1, <2>2
  <2>6. RowsRecorded(e.rows, e.trig)'
    BY <1>3, <2>1 DEF RowsRecorded
  <2>7. ListRecords(k)'
    BY <2>3, <2>4, <2>5, <2>6 DEF ListRecords, CatOf
  <2>8. ShowsListed(rows, d, s)' /\ ShowsLinks(rows)' /\ (i = 0 /\ s = NoRow => ShowsNewest(rows, d)')
    BY <1>1, <2>1, ShownStays
  <2>9. ShowsListed(e.rows, d, s)' /\ ShowsLinks(e.rows)' /\ (i = 0 /\ s = NoRow => ShowsNewest(e.rows, d)')
    BY <1>3, <2>8 DEF ShowsListed, ShowsLinks, ShowsNewest
  <2>10. ASSUME NEW c \in ListCats, NEW n \in UrlPages, NEW q \in Queries, k = SummaryKey(c, n, q)
         PROVE  /\ ShowsListed(e.rows, c, q)' /\ ShowsLinks(e.rows)'
                /\ n = 0 /\ q = NoRow => ShowsNewest(e.rows, c)'
    <3>1. c = d /\ n = i /\ q = s
      BY <2>3, <2>10
    <3> QED BY <2>9, <3>1
  <2>11. ListCurrent(k)'
    <3>1. /\ k = MaxCatKey => CoversCats(e.num)'
          /\ \A c \in ListCats \ {0} : k = NameKey(c) => e.name' \in {NoRow, cats'[c]}
          /\ \A c \in ListCats : k = CountKey(c, NoRow) /\ NoPostLost' => CoversPosts(e.num, c)'
      BY <1>k, ListKeysDiffer
    <3>2. \A c \in ListCats, n \in UrlPages, q \in Queries : k = SummaryKey(c, n, q) =>
            /\ ShowsListed(e.rows, c, q)' /\ ShowsLinks(e.rows)'
            /\ n = 0 /\ q = NoRow /\ NoPostLost' => ShowsNewest(e.rows, c)'
      BY <2>10
    <3> QED BY <3>1, <3>2 DEF ListCurrent
  <2> QED BY <2>7, <2>11
<1> QED BY <1>1, <1>3, <1>4, ListEnds

(* Every step of the handler keeps the invariant of the lists. *)
LEMMA StepLists ==
  ASSUME Types, FreshInv, ListInv, NEW w \in Workers, ListStep(w) PROVE ListInv'
BY ListStartLists, ListMaxLists, ListMaxSelectLists, ListMaxStoreLists, ListPageLists, ListNameLists,
   ListNameSelectLists, ListNameStoreLists, ListCountLists, ListCountSelectLists, ListCountStoreLists,
   ListRowsLists, ListCategoriesLists, ListStorePageLists DEF ListStep

(* Nothing is cached at the start, and no list is made. *)
LEMMA InitLists == ListInit => ListInv
<1> SUFFICES ASSUME ListInit PROVE ListInv
  OBVIOUS
<1>1. \A k \in ListKeys : ~Fetched(k)
  BY DEF ListInit, Fetched
<1>2. \A w \in Workers : lreq[w] = NoList /\ req[w].pc = "idle"
  BY DEF ListInit, Init, Idle
<1>3. ListLocal(NoList) /\ NoList.pc = "none"
  BY DEF ListLocal, LocalNames, NoList
<1>4. ListShape
  BY <1>1, <1>2, <1>3 DEF ListShape, ListTypes, ListInit
<1>5. ListRisen /\ ListFresh
  BY <1>1, <1>2 DEF ListRisen, ListFresh, Kept
<1>6. \A w \in Workers : ListPlace(w) /\ ListRead(w)
  BY <1>2, <1>3 DEF ListPlace, ListRead, ReadsList, NamedList
<1> QED BY <1>4, <1>5, <1>6 DEF ListInv

(* The tables, the cache and the lists together. *)
LEMMA ListsStep ==
  ASSUME TableInv, FreshInv, ListInv, ListNext
  PROVE  TableInv' /\ FreshInv' /\ ListInv'
<1>1. Types /\ Facts /\ TxInv
  BY InvParts
<1>2. ASSUME Next PROVE Types' /\ Facts' /\ TxInv' /\ FreshInv'
  BY <1>1, <1>2, StepTypes, StepSafe, StepFresh
<1>3. ASSUME NEW w \in Workers, ListStep(w) PROVE Types' /\ Facts' /\ TxInv' /\ FreshInv' /\ ListInv'
  BY <1>1, <1>3, ListTables, ListCache, StepLists
<1>4. ASSUME NEW w \in Workers, OtherStep(w) PROVE Types' /\ Facts' /\ TxInv' /\ FreshInv' /\ ListInv'
  <2>1. Next
    BY <1>4 DEF OtherStep, Next, Arrive
  <2> QED BY <1>1, <1>2, <1>4, <2>1, OtherLists
<1>5. ASSUME NEW w \in Workers, Emptied(w) PROVE Types' /\ Facts' /\ TxInv' /\ FreshInv' /\ ListInv'
  <2>1. Next
    BY <1>5 DEF Emptied, Next, Arrive
  <2> QED BY <1>1, <1>2, <1>5, <2>1, EmptiedLists
<1>6. CASE ListEvict
  <2>1. UNCHANGED vars
    BY <1>6 DEF ListEvict, vars, db
  <2> QED BY <1>1, <1>6, <2>1, StutterInv, StutterFresh, EvictLists
<1>7. CASE \E w \in Workers : ListStep(w) \/ OtherStep(w) \/ Emptied(w)
  <2>1. Types' /\ Facts' /\ TxInv' /\ FreshInv' /\ ListInv'
    BY <1>3, <1>4, <1>5, <1>7
  <2> QED BY <2>1, InvParts, PTL
<1> QED BY <1>6, <1>7 DEF ListNext

(* Whatever lists are asked for while posts, comments and categories       *)
(* change, every clean entry of a list has recorded what it shows, and     *)
(* shows it as it is, unless a rise that takes it away is still to come.   *)
THEOREM ListsInvariant == ListSpec => [](TableInv /\ FreshInv /\ ListInv)
<1>1. ListInit => TableInv /\ FreshInv /\ ListInv
  BY InitInv, InitFresh, InitLists DEF ListInit
<1>2. TableInv /\ FreshInv /\ ListInv /\ [ListNext]_listVars => TableInv' /\ FreshInv' /\ ListInv'
  <2>1. ASSUME TableInv, FreshInv, ListInv, UNCHANGED listVars PROVE TableInv' /\ FreshInv' /\ ListInv'
    <3>1. UNCHANGED vars /\ UNCHANGED <<posts, post2cat, cats, lost, req, lreq, lists>>
      BY <2>1 DEF listVars, vars
    <3>2. ListShrinks
      BY <2>1, <3>1 DEF ListShrinks, ListInv, ListShape, ListTypes
    <3>3. Types
      BY <2>1, InvParts
    <3> QED BY <2>1, <3>1, <3>2, <3>3, StutterInv, StutterFresh, ListIdle
  <2> QED BY <2>1, ListsStep
<1> QED BY <1>1, <1>2, PTL DEF ListSpec

(* While no request writes, no entry is overdue. *)
LEMMA QuietLists ==
  ASSUME ListInv, Quiet, NEW k \in ListKeys, Kept(k) PROVE ListCurrent(k)
<1>1. ~ListOverdue(k)
  BY DEF Quiet, Writing, ListOverdue
<1> QED BY <1>1 DEF ListInv, ListFresh

(* No cached page of a list or of a search shows a post that is not in it, *)
(* or shows an old text, number of comments or category: CatOf, PostKey    *)
(* and "cats" are triggers enough.                                         *)
THEOREM ListedPostsAlwaysCurrent == ListSpec => []ListedPostsCurrent
<1>1. ASSUME ListInv PROVE ListedPostsCurrent
  <2> SUFFICES ASSUME Quiet, NEW c \in ListCats, NEW n \in UrlPages, NEW q \in Queries,
                      Kept(SummaryKey(c, n, q)), NEW x \in lists[SummaryKey(c, n, q)].rows
               PROVE  x.post \in Listed(c, q) /\ x = [ShownRow(x.post) EXCEPT !.cats = CategoriesOf(x.post)]
    BY DEF ListedPostsCurrent
  <2>1. ListCurrent(SummaryKey(c, n, q))
    BY <1>1, KeysOfLists, QuietLists
  <2>2. ShowsListed(lists[SummaryKey(c, n, q)].rows, c, q) /\ ShowsLinks(lists[SummaryKey(c, n, q)].rows)
    BY <2>1 DEF ListCurrent
  <2> QED BY <2>2 DEF ShowsListed, ShowsLinks
<1> QED BY <1>1, ListsInvariant, PTL

(* The first page shows the newest posts, although a post that leaves the  *)
(* list rises only its own trigger: it cannot leave unseen from there.     *)
THEOREM FirstPageAlwaysFresh == ListSpec => []FirstPageFresh
<1>1. ASSUME ListInv PROVE FirstPageFresh
  <2> SUFFICES ASSUME Quiet, Undisturbed, NEW c \in ListCats, NEW k, k = SummaryKey(c, 0, NoRow),
                      k \in ListKeys, Kept(k)
               PROVE  LET all == Listed(c, NoRow)
                          shown == {x.post : x \in lists[k].rows}
                      IN /\ shown \subseteq all
                         /\ Cardinality(shown) = PageSize \/ shown = all
                         /\ \A x \in shown, y \in all \ shown : DateIn(c)[x] >= DateIn(c)[y]
    BY DEF FirstPageFresh
  <2>1. ListCurrent(k)
    BY <1>1, QuietLists
  <2>2. 0 \in UrlPages /\ NoRow \in Queries
    BY DEF ListKeys, SummaryKey, MaxCatKey, NameKey, CountKey
  <2>3. ShowsListed(lists[k].rows, c, NoRow) /\ ShowsNewest(lists[k].rows, c)
    BY <2>1, <2>2 DEF ListCurrent, NoPostLost, Undisturbed
  <2> QED BY <2>3 DEF ShowsListed, ShowsNewest
<1> QED BY <1>1, ListsInvariant, PTL

(* The cached number of posts covers the list, so that no page of it is    *)
(* redirected away.                                                        *)
THEOREM CountNeverTooLow == ListSpec => []CountNeverLow
<1>1. ASSUME ListInv PROVE CountNeverLow
  <2> SUFFICES ASSUME Quiet, Undisturbed, NEW c \in ListCats, NEW k, k = CountKey(c, NoRow),
                      k \in ListKeys, Kept(k)
               PROVE  lists[k].num >= Cardinality(Listed(c, NoRow))
    BY DEF CountNeverLow
  <2>1. ListCurrent(k)
    BY <1>1, QuietLists
  <2> QED BY <2>1 DEF ListCurrent, CoversPosts, NoPostLost, Undisturbed
<1> QED BY <1>1, ListsInvariant, PTL

(* The cached largest id and the cached names turn no category away that   *)
(* exists under another name or above the id.                              *)
THEOREM CategoriesAlwaysFound == ListSpec => []CategoriesFound
<1>1. ASSUME ListInv PROVE CategoriesFound
  <2> SUFFICES ASSUME Quiet
               PROVE  /\ Kept(MaxCatKey) => \A c \in Existing : c <= lists[MaxCatKey].num
                      /\ \A c \in ListCats \ {0} :
                           Kept(NameKey(c)) /\ lists[NameKey(c)].name # NoRow =>
                              lists[NameKey(c)].name = cats[c]
    BY DEF CategoriesFound
  <2>1. Kept(MaxCatKey) => \A c \in Existing : c <= lists[MaxCatKey].num
    BY <1>1, KeysOfLists, QuietLists DEF ListCurrent, CoversCats
  <2>2. ASSUME NEW c \in ListCats \ {0}, Kept(NameKey(c)), lists[NameKey(c)].name # NoRow
        PROVE  lists[NameKey(c)].name = cats[c]
    <3>1. ListCurrent(NameKey(c))
      BY <1>1, <2>2, KeysOfLists, QuietLists
    <3> QED BY <2>2, <3>1 DEF ListCurrent
  <2> QED BY <2>1, <2>2
<1> QED BY <1>1, ListsInvariant, PTL
=============================================================================
