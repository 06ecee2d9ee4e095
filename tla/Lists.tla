--------------------------------- MODULE Lists ---------------------------------
(***************************************************************************)
(* blog::summary: the list of the posts of the blog or of a category, page *)
(* by page, and the search.  The handler runs in the threads of Blog, on   *)
(* its tables and its cache, together with every other handler.            *)
(*                                                                         *)
(* It uses four more kinds of cache entries (lists): the largest id of a   *)
(* category, the name of a category, the number of posts behind a list,    *)
(* and the pages themselves.  lreq holds the local variables of the        *)
(* handler.  Once the posts have been read, options and sidebar are loaded *)
(* by the actions of Views, in the thread's request as for any page.       *)
(***************************************************************************)
EXTENDS Blog, Paging

CONSTANTS ListCats,    \* the lists asked for: categories, 0 for the blog
          UrlPages,    \* page numbers in URLs
          Queries,     \* what is searched for; NoRow for no search
          PageSize     \* posts on a page (10 in the code)

ASSUME ListAssumption == /\ ListCats \subseteq {0} \cup CatId
                         /\ UrlPages \subseteq Nat
                         /\ Queries \subseteq Texts \cup {NoRow}
                         /\ PageSize \in Nat \ {0}

VARIABLES lists,       \* cache entries of this handler
          lreq         \* its local variables, for each thread

listVars == <<posts, post2cat, comments, cats, pages, options, nextId, cache, req, lost,
              lists, lreq>>

MaxCatKey == <<"max_cat_id", 0, 0, NoRow>>
NameKey(c) == <<"cat_name", c, 0, NoRow>>
CountKey(c, q) == <<"cat_count", c, 0, q>>
SummaryKey(c, n, q) == <<"summary", c, n, q>>
ListKeys == {MaxCatKey} \cup {NameKey(c) : c \in ListCats \ {0}}
              \cup {CountKey(c, q) : c \in ListCats, q \in Queries}
              \cup {SummaryKey(c, n, q) : c \in ListCats, n \in UrlPages, q \in Queries}

NoList == [pc |-> "none", cat |-> 0, page |-> 0, q |-> NoRow, num |-> 0, name |-> NoRow,
           rows |-> {}, trig |-> {}]

(* "cat_<id>", as the number: cat_0 is the list of all posts. *)
CatOf(c) == IF c = 0 THEN AllPosts ELSE CatTrigger(c, 0)

-----------------------------------------------------------------------------
(* The cache, for these keys.                                              *)

Fetched(k) == lists[k] # NoRow
ListStore(w, k, num, name, rows, trig) ==
    lists' = [lists EXCEPT ![k] = [num |-> num, name |-> name, rows |-> rows,
                                   trig |-> trig \cup {k}, clean |-> req[w].clean]]
ListRise(ts) ==
    lists' = [k \in ListKeys |-> IF Fetched(k) /\ lists[k].trig \cap ts # {}
                                 THEN NoRow ELSE lists[k]]
ListClear == lists' = [k \in ListKeys |-> NoRow]

(* The page inherits the triggers of a piece that it was made from. *)
Inherit(w, e) == req' = [req EXCEPT ![w].clean = IF e.clean = 1 THEN @ ELSE 0]
At2(w, pc) == lreq[w].pc = pc
Goto2(w, pc) == lreq' = [lreq EXCEPT ![w].pc = pc]
ListEnd(w) == lreq' = [lreq EXCEPT ![w] = NoList] /\ Finish(w)

-----------------------------------------------------------------------------
(* A request; prepare corrects negative numbers, which no URL can bring. *)
ListStart(w) ==
    /\ IsIdle(w) /\ At2(w, "none")
    /\ \E c \in ListCats, n \in UrlPages, q \in Queries :
         lreq' = [lreq EXCEPT ![w] = [NoList EXCEPT !.cat = c, !.page = n, !.q = q,
                                        !.pc = IF c > 0 THEN "max" ELSE "page"]]
    /\ Begin(w, "preview_page", "options", 0, 0)
    /\ UNCHANGED <<db, cache, lost, lists>>

(* The largest id of a category: 404 for a larger one, if it is cached. *)
ListMax(w) ==
    /\ At2(w, "max")
    /\ IF ~Fetched(MaxCatKey)
       THEN Goto2(w, "max_select") /\ UNCHANGED req
       ELSE IF lists[MaxCatKey].num < lreq[w].cat
       THEN ListEnd(w)
       ELSE /\ lreq' = [lreq EXCEPT ![w].trig = @ \cup lists[MaxCatKey].trig, ![w].pc = "page"]
            /\ Inherit(w, lists[MaxCatKey])
    /\ UNCHANGED <<db, cache, lost, lists>>

MaxCatId == IF Existing = {} THEN 0 ELSE CHOOSE c \in Existing : \A d \in Existing : d <= c

ListMaxSelect(w) ==
    /\ At2(w, "max_select")
    /\ lreq' = [lreq EXCEPT ![w].num = MaxCatId, ![w].pc = "max_store"]
    /\ UNCHANGED <<db, cache, lost, lists, req>>

ListMaxStoreUntied(w) ==  \* variant without the trigger "cats"
    /\ At2(w, "max_store")
    /\ ListStore(w, MaxCatKey, lreq[w].num, NoRow, {}, {})
    /\ lreq' = [lreq EXCEPT ![w].trig = @ \cup {CatsTrigger, MaxCatKey}, ![w].num = 0,
                            ![w].pc = "page"]
    /\ UNCHANGED <<db, cache, lost, req>>
ListMaxStore(w) ==
    /\ At2(w, "max_store")
    /\ ListStore(w, MaxCatKey, lreq[w].num, NoRow, {}, {CatsTrigger})
    /\ lreq' = [lreq EXCEPT ![w].trig = @ \cup {CatsTrigger, MaxCatKey}, ![w].num = 0,
                            ![w].pc = "page"]
    /\ UNCHANGED <<db, cache, lost, req>>

(* fetch_page, or the page has to be made. *)
ListPage(w) ==
    /\ At2(w, "page")
    /\ LET r == lreq[w]
       IN IF Fetched(SummaryKey(r.cat, r.page, r.q))
          THEN ListEnd(w)
          ELSE /\ lreq' = [lreq EXCEPT ![w].trig = @ \cup {CatOf(r.cat)},
                                       ![w].pc = IF r.cat = 0 THEN "count" ELSE "name"]
               /\ UNCHANGED req
    /\ UNCHANGED <<db, cache, lost, lists>>

(* The name of the category; that there is none is cached as well: 404. *)
ListName(w) ==
    /\ At2(w, "name")
    /\ LET k == NameKey(lreq[w].cat)
       IN IF ~Fetched(k)
          THEN Goto2(w, "name_select") /\ UNCHANGED req
          ELSE IF lists[k].name = NoRow
          THEN ListEnd(w)
          ELSE /\ lreq' = [lreq EXCEPT ![w].name = lists[k].name,
                                       ![w].trig = @ \cup lists[k].trig, ![w].pc = "count"]
               /\ Inherit(w, lists[k])
    /\ UNCHANGED <<db, cache, lost, lists>>

ListNameSelect(w) ==
    /\ At2(w, "name_select")
    /\ lreq' = [lreq EXCEPT ![w].name = cats[lreq[w].cat], ![w].pc = "name_store"]
    /\ UNCHANGED <<db, cache, lost, lists, req>>

ListNameStore(w) ==
    /\ At2(w, "name_store")
    /\ LET r == lreq[w]
       IN /\ ListStore(w, NameKey(r.cat), 0, r.name, {}, {CatOf(r.cat)})
          /\ IF r.name = NoRow
             THEN ListEnd(w)
             ELSE /\ lreq' = [lreq EXCEPT ![w].trig = @ \cup {NameKey(r.cat)}, ![w].pc = "count"]
                  /\ UNCHANGED req
    /\ UNCHANGED <<db, cache, lost>>

-----------------------------------------------------------------------------
(* The posts of a list: all of the blog, or those a category lists as open *)
(* (post2cat has its own is_open and date); the search filters by content. *)
Matches(p, q) == q = NoRow \/ (posts[p] # NoRow /\ posts[p].text = q)
Listed(c, q) == {p \in IF c = 0 THEN OpenPosts ELSE OpenIn(c) : Matches(p, q)}
DateIn(c) == [p \in Listed(c, NoRow) |-> IF c = 0 THEN posts[p].publish
                                         ELSE post2cat[p][c].publish]

(* ORDER BY publish DESC LIMIT PageSize OFFSET n * PageSize: posts of the  *)
(* same date may come in either order.                                     *)
PagesOfAnyOrder(S, date, n) ==  \* variant without the ORDER BY
    {T \in SUBSET S : Cardinality(T) = Cardinality(Rows(Cardinality(S), PageSize, n))}
PagesOf(S, date, n) ==
    {T \in SUBSET S :
       /\ Cardinality(T) = Cardinality(Rows(Cardinality(S), PageSize, n))
       /\ \E A \in SUBSET (S \ T) :
            /\ Cardinality(A) = n * PageSize \/ (T = {} /\ A = S)
            /\ \A x \in A, y \in S \ A : date[x] >= date[y]
            /\ \A x \in T, y \in S \ (A \cup T) : date[x] >= date[y]}

(* calc_pages; a number that it corrects is answered with a redirect. *)
Counted(w, num, trig) ==
    IF CurPage(num, PageSize, lreq[w].page) # lreq[w].page
    THEN ListEnd(w)
    ELSE /\ lreq' = [lreq EXCEPT ![w].num = num, ![w].trig = @ \cup trig, ![w].pc = "rows"]
         /\ UNCHANGED req

ListCount(w) ==
    /\ At2(w, "count")
    /\ LET k == CountKey(lreq[w].cat, lreq[w].q)
       IN IF ~Fetched(k)
          THEN Goto2(w, "count_select") /\ UNCHANGED req
          ELSE IF CurPage(lists[k].num, PageSize, lreq[w].page) # lreq[w].page
          THEN ListEnd(w)
          ELSE /\ lreq' = [lreq EXCEPT ![w].num = lists[k].num,
                                       ![w].trig = @ \cup lists[k].trig, ![w].pc = "rows"]
               /\ Inherit(w, lists[k])
    /\ UNCHANGED <<db, cache, lost, lists>>

ListCountSelect(w) ==
    /\ At2(w, "count_select")
    /\ lreq' = [lreq EXCEPT ![w].num = Cardinality(Listed(lreq[w].cat, lreq[w].q)),
                            ![w].pc = "count_store"]
    /\ UNCHANGED <<db, cache, lost, lists, req>>

CountTriggersNone(c) == {}  \* variant without a trigger
CountTriggers(c) == {CatOf(c)}
ListCountStore(w) ==
    /\ At2(w, "count_store")
    /\ LET r == lreq[w]
           k == CountKey(r.cat, r.q)
       IN /\ ListStore(w, k, r.num, NoRow, {}, CountTriggers(r.cat))
          /\ Counted(w, r.num, {CatOf(r.cat), k})
    /\ UNCHANGED <<db, cache, lost>>

(* One page of rows; every post on it becomes a trigger of the page. *)
ShownRow(p) == [post |-> p, text |-> posts[p].text, count |-> posts[p].count, cats |-> {}]
RowTriggersNone(ps) == {}  \* variant without the posts
RowTriggers(ps) == {PostKey(p, 0) : p \in ps}
ListRows(w) ==
    /\ At2(w, "rows")
    /\ LET r == lreq[w]
           S == Listed(r.cat, r.q)
       IN \E ps \in PagesOf(S, DateIn(r.cat), r.page) :
            lreq' = [lreq EXCEPT ![w].rows = {ShownRow(p) : p \in ps},
                                 ![w].trig = @ \cup RowTriggers(ps), ![w].pc = "options"]
    /\ UNCHANGED <<db, cache, lost, lists, req>>

(* After the options: the categories of the posts on the page. *)
ListCategories(w) ==
    /\ At2(w, "options") /\ req[w].pc = "frame"
    /\ lreq' = [lreq EXCEPT ![w].rows = {[x EXCEPT !.cats = CategoriesOf(x.post)] : x \in @},
                            ![w].pc = "render"]
    /\ UNCHANGED <<db, cache, lost, lists, req>>

(* After the sidebar: store_page, with everything recorded on the way. *)
ListStorePage(w) ==
    /\ At2(w, "render") /\ req[w].pc = "store"
    /\ LET r == lreq[w]
       IN ListStore(w, SummaryKey(r.cat, r.page, r.q), r.num, r.name, r.rows,
                    r.trig \cup req[w].trig)
    /\ ListEnd(w)
    /\ UNCHANGED <<db, cache, lost>>

-----------------------------------------------------------------------------
(* Steps of the other handlers, and of Views for this one: a rise reaches  *)
(* the entries of the lists too, and so does emptying the cache.           *)
Risen(w) == IF req'[w].op = req[w].op THEN req[w].rises \ req'[w].rises ELSE {}
Elsewhere(w) ==
    \/ At2(w, "none")
    \/ At2(w, "options") /\ req[w].pc \in {"options", "opt_select", "opt_store"}
    \/ At2(w, "render") /\ req[w].pc # "store"
Emptied(w) == (ClearCache(w) \/ NewLanguage(w)) /\ ListClear /\ UNCHANGED lreq
OtherStep(w) ==
    /\ Elsewhere(w)
    /\ \/ Step(w)
       \/ PostStart(w) \/ Postback(w) \/ CommentStart(w)
       \/ CatAdd(w) \/ CatRename(w) \/ CatRemove(w)
    /\ ListRise(Risen(w))
    /\ UNCHANGED lreq

(* The limit of the cache: any entry may be the least recently used one. *)
ListEvict ==
    /\ \E k \in ListKeys : Fetched(k) /\ lists' = [lists EXCEPT ![k] = NoRow]
    /\ UNCHANGED <<db, cache, req, lost, lreq>>

ListStep(w) ==
    \/ ListStart(w) \/ ListMax(w) \/ ListMaxSelect(w) \/ ListMaxStore(w) \/ ListPage(w)
    \/ ListName(w) \/ ListNameSelect(w) \/ ListNameStore(w)
    \/ ListCount(w) \/ ListCountSelect(w) \/ ListCountStore(w)
    \/ ListRows(w) \/ ListCategories(w) \/ ListStorePage(w)

ListInit ==
    /\ Init
    /\ lists = [k \in ListKeys |-> NoRow]
    /\ lreq = [w \in Workers |-> NoList]
ListNext ==
    \/ \E w \in Workers : ListStep(w) \/ OtherStep(w) \/ Emptied(w)
    \/ ListEvict
ListSpec == ListInit /\ [][ListNext]_listVars

-----------------------------------------------------------------------------
Kept(k) == Fetched(k) /\ lists[k].clean = 1
Undisturbed == \A p \in PostId : <<"post", p>> \notin lost

(***************************************************************************)
(* Whatever happens to posts, comments and categories, a cached page of a  *)
(* list or of a search shows only posts that are open and in the list,     *)
(* with their present texts, numbers of comments and categories.  (Whether *)
(* they belong on this page is another question, see FirstPageFresh.)      *)
(***************************************************************************)
ListedPostsCurrent ==
    Quiet =>
      \A c \in ListCats, n \in UrlPages, q \in Queries :
        LET k == SummaryKey(c, n, q)
        IN Kept(k) => \A x \in lists[k].rows :
             /\ x.post \in Listed(c, q)
             /\ x = [ShownRow(x.post) EXCEPT !.cats = CategoriesOf(x.post)]

(***************************************************************************)
(* The first page of the blog and of a category shows the newest posts,    *)
(* all of them that fit, although removing a post or leaving a category    *)
(* does not rise the trigger of the list: the post itself is one.          *)
(***************************************************************************)
FirstPageFresh ==
    Quiet /\ Undisturbed =>
      \A c \in ListCats : LET k == SummaryKey(c, 0, NoRow)
        IN k \in ListKeys /\ Kept(k) =>
             LET all == Listed(c, NoRow)
                 shown == {x.post : x \in lists[k].rows}
             IN /\ shown \subseteq all
                /\ Cardinality(shown) = PageSize \/ shown = all
                /\ \A x \in shown, y \in all \ shown : DateIn(c)[x] >= DateIn(c)[y]

(***************************************************************************)
(* The cached number of posts is never too small, so that no post falls    *)
(* off the end of the list and no page that exists is redirected.  It may  *)
(* be too large: removal and leaving a category do not rise it.            *)
(***************************************************************************)
CountNeverLow ==
    Quiet /\ Undisturbed =>
      \A c \in ListCats : LET k == CountKey(c, NoRow)
        IN k \in ListKeys /\ Kept(k) => lists[k].num >= Cardinality(Listed(c, NoRow))

(***************************************************************************)
(* The cached largest id turns no category away that exists, and a cached  *)
(* name is that of the category.  (That a category does not exist may be   *)
(* cached too, and then outlives its creation, which rises only "cats".)   *)
(***************************************************************************)
CategoriesFound ==
    Quiet =>
      /\ Kept(MaxCatKey) => \A c \in Existing : c <= lists[MaxCatKey].num
      /\ \A c \in ListCats \ {0} : LET k == NameKey(c)
           IN Kept(k) /\ lists[k].name # NoRow => lists[k].name = cats[c]

=============================================================================
