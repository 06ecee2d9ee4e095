------------------------------- MODULE BlogData -------------------------------
(***************************************************************************)
(* The state that the request handlers of CppBlog share: the tables of the *)
(* database (sql/mysql.sql), the page cache of the process, and, for every *)
(* worker thread, the request it is serving.                               *)
(*                                                                         *)
(* A table is a total function from the identifiers that may ever be       *)
(* allocated to rows, with NoRow where the table has none.  Texts stand    *)
(* for every piece of content a form can bring (title, abstract, body,     *)
(* author, name of a category, title of the blog): only whether two are    *)
(* the same text matters.  Is_open is 0 or 1, as in the schema.            *)
(***************************************************************************)
EXTENDS Naturals, FiniteSets

CONSTANTS Workers,      \* the worker threads of the service
          Texts,        \* contents a form can bring
          Times,        \* readings of the wall clock
          Spellings,    \* leading zeros an id in a URL may be written with
          NoRow,        \* no such row, no such cache entry
          MaxPost, MaxCat, MaxComment, MaxPage,  \* ids that may be allocated
          CacheLimit,   \* cache.limit: entries the cache holds
          FeedLimit,    \* LIMIT of the feeds' queries (10 in the code)
          Ops           \* the requests that arrive in this instance

ASSUME IdAssumption == /\ MaxPost \in Nat /\ MaxCat \in Nat
                       /\ MaxComment \in Nat /\ MaxPage \in Nat
ASSUME TimeAssumption == Times \subseteq Nat
ASSUME SpellingAssumption == Spellings \subseteq Nat /\ 0 \in Spellings
ASSUME LimitAssumption == CacheLimit \in Nat \ {0} /\ FeedLimit \in Nat \ {0}

VARIABLES posts,      \* table posts: text, is_open, publish, comment_count
          post2cat,   \* table post2cat: is_open and publish of a link
          comments,   \* table comments: post_id and text
          cats,       \* table cats: the name
          pages,      \* table pages: text and is_open
          options,    \* table text_options: what the blog's owner can edit
          nextId,     \* the AUTO_INCREMENT counters, never moved back
          cache,      \* the pages, frames and data the process has cached
          req,        \* what each worker thread is doing
          lost        \* rows written by a request that had read old values

db == <<posts, post2cat, comments, cats, pages, options, nextId>>
vars == <<posts, post2cat, comments, cats, pages, options, nextId,
          cache, req, lost>>

PostId == 1 .. MaxPost
CatId == 1 .. MaxCat
CommentId == 1 .. MaxComment
PageId == 1 .. MaxPage
Flag == {0, 1}

-----------------------------------------------------------------------------
(***************************************************************************)
(* Cache keys and triggers.  The code writes them as strings: a prefix and *)
(* an id ("post_7").  Some are built from the id as an int, others from    *)
(* the digits of the URL, which atoi reads but which may carry leading     *)
(* zeros; the third component counts them.  Ids printed by the program     *)
(* have none.                                                              *)
(***************************************************************************)
PostKey(p, z) == <<"post", p, z>>
PageKey(i, z) == <<"page", i, z>>
RssKey(c, z) == <<"rss", c, z>>
CatTrigger(c, z) == <<"cat", c, z>>
AllPosts == <<"cat", 0, 0>>            \* "cat_0"
CatsTrigger == <<"cats", 0, 0>>
PagesTrigger == <<"pages", 0, 0>>
GeneralInfo == <<"general_info", 0, 0>>
CommentsKey == <<"comments", 0, 0>>
RssPosts == <<"rss_posts", 0, 0>>
SidebarInfo == <<"sidebar_info", 0, 0>>
Sidebar == <<"sidebar", 0, 0>>
OptionsKey == <<"options", 0, 0>>

Key == {PostKey(p, z) : p \in PostId, z \in Spellings}
          \cup {PageKey(i, z) : i \in PageId, z \in Spellings}
          \cup {RssKey(c, z) : c \in CatId, z \in Spellings}
          \cup {CommentsKey, RssPosts, SidebarInfo, Sidebar, OptionsKey}
Trigger == Key \cup {CatTrigger(c, z) : c \in CatId, z \in Spellings}
               \cup {AllPosts, CatsTrigger, PagesTrigger, GeneralInfo}

-----------------------------------------------------------------------------
(***************************************************************************)
(* What a response shows.  Body is the part that belongs to the request,   *)
(* side the sidebar with the pages and the categories of the blog.         *)
(***************************************************************************)
Post == [text: Texts, open: Flag, publish: Times, count: Nat]
Link == [open: Flag, publish: Times]
Comment == [post: PostId, text: Texts]
Page == [text: Texts, open: Flag]
NextIds == [post: Nat \ {0}, cat: Nat \ {0}, comment: Nat \ {0}, page: Nat \ {0}]

Body == [text: Texts \cup {NoRow}, options: Texts \cup {NoRow},
         comments: SUBSET (CommentId \X PostId \X Texts),
         cats: SUBSET (CatId \X Texts),
         posts: SUBSET (PostId \X Texts)]
NoBody == [text |-> NoRow, options |-> NoRow, comments |-> {}, cats |-> {},
           posts |-> {}]
Side == [pages: SUBSET (PageId \X Texts), cats: SUBSET (CatId \X Texts \X Nat),
         options: Texts \cup {NoRow}]
NoSide == [pages |-> {}, cats |-> {}, options |-> NoRow]

Entry == [body: Body, side: Side, trig: SUBSET Trigger, clean: Flag]

ASSUME NoRowAssumption ==
    /\ NoRow \notin Texts /\ NoRow \notin Post /\ NoRow \notin Link
    /\ NoRow \notin Comment /\ NoRow \notin Page /\ NoRow \notin Entry

(***************************************************************************)
(* A request.  op is the handler, pc where it stands; "tx" is inside a     *)
(* transaction whose statements have been executed, "fail" inside one in   *)
(* which a statement is about to fail, "after" is past the commit with     *)
(* triggers still to be risen.  The fields in the middle are the local     *)
(* variables of the handlers that write; the last ones belong to the       *)
(* handlers that render.  clean is a history variable: no request that     *)
(* writes was between its first statement and its last one (commit or      *)
(* rise, whichever comes last) at any time since this one began.           *)
(***************************************************************************)
WriterOps == {"post", "insert", "remove", "edit", "send", "erase", "amend",
              "cat_remove", "form", "page", "options"}
PostViews == {"display_post", "render_post", "preview_post"}
PageViews == {"display_page", "preview_page"}
ReaderOps == PostViews \cup PageViews
               \cup {"feed_comments", "feed_posts", "feed_cat", "admin_page"}
ReaderPcs == {"row", "options", "opt_select", "opt_store", "comments", "cats",
              "posts", "frame", "info", "side_pages", "side_cats",
              "store_info", "store_frame", "store"}
WriterPcs == {"is_open", "in_use", "form", "select", "exec", "tx", "fail", "after"}

Request == [op: {"idle"} \cup WriterOps \cup ReaderOps,
            pc: {"idle"} \cup ReaderPcs \cup WriterPcs,
            id: Nat, zeros: Spellings, post: Nat, comment: Nat,
            text: Texts \cup {NoRow}, open: Flag, change: Flag,
            now: Times \cup {0}, inUse: SUBSET CatId,
            add: SUBSET CatId, del: SUBSET CatId, rises: SUBSET Trigger,
            trig: SUBSET Trigger, rec: SUBSET Trigger,
            body: Body, side: Side, clean: Flag]
Idle == [op |-> "idle", pc |-> "idle", id |-> 0, zeros |-> 0, post |-> 0,
         comment |-> 0, text |-> NoRow, open |-> 0, change |-> 0, now |-> 0, inUse |-> {},
         add |-> {}, del |-> {}, rises |-> {}, trig |-> {}, rec |-> {},
         body |-> NoBody, side |-> NoSide, clean |-> 0]

-----------------------------------------------------------------------------
(***************************************************************************)
(* The tables hold rows of the schema (is_open stays 0 or 1 however often  *)
(* the publish button flips it), the cache maps keys to entries, and every *)
(* local variable of a handler keeps its type from one step to the next.   *)
(***************************************************************************)
TypeOK ==
    /\ posts \in [PostId -> Post \cup {NoRow}]
    /\ post2cat \in [PostId -> [CatId -> Link \cup {NoRow}]]
    /\ comments \in [CommentId -> Comment \cup {NoRow}]
    /\ cats \in [CatId -> Texts \cup {NoRow}]
    /\ pages \in [PageId -> Page \cup {NoRow}]
    /\ options \in Texts
    /\ nextId \in NextIds
    /\ cache \in [Key -> Entry \cup {NoRow}]
    /\ req \in [Workers -> Request]
    /\ lost \subseteq ({"post"} \X PostId) \cup ({"page"} \X PageId)

(***************************************************************************)
(* A configured blog with nothing written yet and a process just started.  *)
(***************************************************************************)
Init ==
    /\ posts = [p \in PostId |-> NoRow]
    /\ post2cat = [p \in PostId |-> [c \in CatId |-> NoRow]]
    /\ comments = [k \in CommentId |-> NoRow]
    /\ cats = [c \in CatId |-> NoRow]
    /\ pages = [i \in PageId |-> NoRow]
    /\ options \in Texts
    /\ nextId = [post |-> 1, cat |-> 1, comment |-> 1, page |-> 1]
    /\ cache = [k \in Key |-> NoRow]
    /\ req = [w \in Workers |-> Idle]
    /\ lost = {}

-----------------------------------------------------------------------------
(* Queries, as the rows that a SELECT on the committed tables returns.     *)

Linked(p) == {c \in CatId : post2cat[p][c] # NoRow}
Existing == {c \in CatId : cats[c] # NoRow}
CommentsOf(p) == {k \in CommentId : comments[k] # NoRow /\ comments[k].post = p}

-----------------------------------------------------------------------------
(* Requests and their transactions.                                        *)

IsIdle(w) == req[w].op = "idle"
At(w, op, pc) == req[w].op = op /\ req[w].pc = pc
Goto(w, pc) == req' = [req EXCEPT ![w].pc = pc]
Finish(w) == req' = [req EXCEPT ![w] = Idle]
Reading(w) == req[w].pc \in ReaderPcs
Writing(w) == req[w].pc \in {"tx", "fail", "after"}
Quiet == \A w \in Workers : ~Writing(w)

(* open_status: the is_open that was read, flipped by the publish button. *)
Flipped(open, change) == IF change = 1 THEN 1 - open ELSE open

(***************************************************************************)
(* The first statement of a request that writes: every response being      *)
(* rendered now overlaps a write.                                          *)
(***************************************************************************)
EnterWrite(w, r) ==
    req' = [v \in Workers |->
              IF v = w THEN r
              ELSE IF Reading(v) THEN [req[v] EXCEPT !.clean = 0]
              ELSE req[v]]

(***************************************************************************)
(* A handler starts, or goes on, to render a response: nothing is recorded *)
(* yet, and it is clean if no other request is writing.  Pages of the      *)
(* administration read the options of the blog and have no sidebar.        *)
(***************************************************************************)
Begin(w, op, pc, id, zeros) ==
    req' = [req EXCEPT ![w] = [Idle EXCEPT
              !.op = op, !.pc = pc, !.id = id, !.zeros = zeros,
              !.clean = IF \A v \in Workers \ {w} : ~Writing(v) THEN 1 ELSE 0]]
RenderAdmin(w) == Begin(w, "admin_page", "options", 0, 0)

(***************************************************************************)
(* Row locks that a transaction holds from its first statement to its end. *)
(* Every statement about a post or its comments locks the row of the post, *)
(* except the change of a comment's text, which locks the comment.         *)
(***************************************************************************)
InTx(w) == req[w].pc \in {"tx", "fail"}
LocksPost(w, p) ==
    InTx(w) /\ req[w].post = p /\ req[w].op \in {"insert", "remove", "edit", "send", "erase"}
LocksComment(w, k) ==
    /\ InTx(w)
    /\ \/ req[w].op \in {"erase", "amend"} /\ req[w].comment = k
       \/ req[w].op = "remove" /\ k \in CommentsOf(req[w].post)
LocksCat(w, c) == InTx(w) /\ c \in req[w].add
LocksLink(w, c) ==
    /\ InTx(w)
    /\ \/ req[w].op \in {"insert", "edit"} /\ c \in req[w].add \cup req[w].del
       \/ req[w].op = "edit" /\ req[w].change = 1 /\ c \in Linked(req[w].post)
       \/ req[w].op = "remove" /\ c \in Linked(req[w].post)

PostFree(w, p) == \A v \in Workers \ {w} : ~LocksPost(v, p)
CommentFree(w, k) == \A v \in Workers \ {w} : ~LocksComment(v, k)
CatFree(w, c) == \A v \in Workers \ {w} : ~LocksCat(v, c)
LinkFree(w, c) == \A v \in Workers \ {w} : ~LocksLink(v, c)

-----------------------------------------------------------------------------
(* The cache.                                                              *)

(***************************************************************************)
(* mem_cache::store: the old entry of the key goes, then, if the cache is  *)
(* at its limit, one more entry (the least recently used one; which one    *)
(* that is, the model leaves open).                                        *)
(***************************************************************************)
LiveBut(k) == {x \in Key : x # k /\ cache[x] # NoRow}
Victims(k) == IF Cardinality(LiveBut(k)) < CacheLimit THEN {k} ELSE LiveBut(k)
CacheStore(k, e) ==
    \E victim \in Victims(k) :
       cache' = [x \in Key |-> IF x = k THEN e
                               ELSE IF x = victim THEN NoRow ELSE cache[x]]

CacheRise(t) ==
    cache' = [x \in Key |-> IF cache[x] # NoRow /\ t \in cache[x].trig
                            THEN NoRow ELSE cache[x]]

CacheClear == cache' = [x \in Key |-> NoRow]

=============================================================================
