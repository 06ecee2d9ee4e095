------------------------------ MODULE TableProofs ------------------------------
(***************************************************************************)
(* The properties of the tables hold for every number of worker threads,   *)
(* posts, categories and comments: TableInv is inductive.  The first part  *)
(* is about types: every step of the blog keeps those of the tables, the   *)
(* cache and the requests; the second about what the tables say.           *)
(***************************************************************************)
EXTENDS BlogInv, TLAPS, FiniteSetTheorems

-----------------------------------------------------------------------------
(* The part of the type invariant that is about requests. *)
ReqOK == req \in [Workers -> Request] /\ LocalsOK
TableOK == /\ posts \in [PostId -> Post \cup {NoRow}]
           /\ post2cat \in [PostId -> [CatId -> Link \cup {NoRow}]]
           /\ comments \in [CommentId -> Comment \cup {NoRow}]
           /\ cats \in [CatId -> Texts \cup {NoRow}]
           /\ pages \in [PageId -> Page \cup {NoRow}]
           /\ options \in Texts
           /\ nextId \in NextIds
CacheOK == cache \in [Key -> Entry \cup {NoRow}]
LostOK == lost \subseteq ({"post"} \X PostId) \cup ({"page"} \X PageId)

(* The type invariant is the conjunction of these parts. *)
LEMMA TypeParts == TypeOK /\ LocalsOK <=> TableOK /\ CacheOK /\ ReqOK /\ LostOK
BY DEF TypeOK, TableOK, CacheOK, ReqOK, LostOK

(* A step that leaves the tables alone keeps their types. *)
LEMMA TablesUnchanged == TableOK /\ UNCHANGED db => TableOK'
BY DEF TableOK, db

(* So for the cache, which only a store, a rise or a clear changes. *)
LEMMA CacheUnchanged == CacheOK /\ UNCHANGED cache => CacheOK'
BY DEF CacheOK

(* So for the record of the forms built from outdated values. *)
LEMMA LostUnchanged == LostOK /\ UNCHANGED lost => LostOK'
BY DEF LostOK

-----------------------------------------------------------------------------
(* How requests change.                                                    *)

(* An idle worker is of the type of requests. *)
LEMMA IdleType == Idle \in Request
BY SpellingAssumption
   DEF Idle, Request, NoBody, NoSide, Body, Side, Flag, ReaderPcs, WriterPcs,
       WriterOps, ReaderOps

(* A worker that serves nothing relies on nothing. *)
LEMMA IdleLocal == LocalOK(Idle)
BY DEF LocalOK, Idle, PostViews, PageViews, ReaderPcs

(* A step that changes one request. *)
LEMMA OneRequest ==
  ASSUME ReqOK, NEW w \in Workers, NEW r \in Request, LocalOK(r),
         req' = [req EXCEPT ![w] = r]
  PROVE  ReqOK'
BY DEF ReqOK, LocalsOK

(* The end of a request leaves an idle worker. *)
LEMMA FinishOK == ASSUME ReqOK, NEW w \in Workers, Finish(w) PROVE ReqOK'
BY OneRequest, IdleType, IdleLocal DEF Finish

(* A handler that renders relies on its id only. *)
LEMMA ReaderOK ==
  ASSUME NEW r, r.op \in ReaderOps,
         r.op \in PostViews => r.id \in PostId,
         r.op \in PageViews /\ (r.op = "display_page" \/ r.pc = "row") => r.id \in PageId,
         r.op = "feed_cat" => r.id \in CatId
  PROVE  LocalOK(r)
BY DEF LocalOK, ReaderOps, PostViews, PageViews

(* What a request relies on are these fields. *)
LEMMA SameLocal ==
  ASSUME NEW r, NEW s, LocalOK(r), s.op = r.op, s.pc = r.pc, s.id = r.id,
         s.post = r.post, s.text = r.text, s.now = r.now, s.comment = r.comment
  PROVE  LocalOK(s)
BY DEF LocalOK

(* The start of a response. *)
LEMMA BeginOK ==
  ASSUME ReqOK, NEW w \in Workers, NEW op \in ReaderOps, NEW pc \in ReaderPcs,
         NEW id \in Nat, NEW z \in Spellings,
         op \in PostViews => id \in PostId,
         op \in PageViews /\ (op = "display_page" \/ pc = "row") => id \in PageId,
         op = "feed_cat" => id \in CatId,
         Begin(w, op, pc, id, z)
  PROVE  ReqOK'
<1> DEFINE cl == IF \A v \in Workers \ {w} : ~Writing(v) THEN 1 ELSE 0
           r == [Idle EXCEPT !.op = op, !.pc = pc, !.id = id, !.zeros = z, !.clean = cl]
<1>0. cl \in Flag
  BY DEF Flag
<1>4. req' = [req EXCEPT ![w] = r]
  BY DEF Begin
<1> HIDE DEF cl
<1>1. r \in Request
  BY <1>0, IdleType DEF Request
<1>2. r.op = op /\ r.id = id /\ r.pc = pc
  BY DEF Idle
<1> HIDE DEF r
<1>3. LocalOK(r)
  BY <1>2, ReaderOK
<1> QED BY <1>1, <1>3, <1>4, OneRequest

(* The page of the administration that follows a form. *)
LEMMA RenderAdminOK == ASSUME ReqOK, NEW w \in Workers, RenderAdmin(w) PROVE ReqOK'
<1>1. "admin_page" \in ReaderOps /\ "options" \in ReaderPcs /\ 0 \in Nat /\ 0 \in Spellings
  BY SpellingAssumption DEF ReaderOps, ReaderPcs
<1>2. "admin_page" \notin PostViews /\ "admin_page" \notin PageViews
  BY DEF PostViews, PageViews
<1> QED BY <1>1, <1>2, BeginOK DEF RenderAdmin

(* The step in which a request begins to write. *)
LEMMA EnterOK ==
  ASSUME ReqOK, NEW w \in Workers, NEW r \in Request, LocalOK(r), EnterWrite(w, r)
  PROVE  ReqOK'
<1>1. ASSUME NEW v \in Workers
      PROVE  req'[v] \in Request /\ LocalOK(req'[v])
  <2>1. CASE v = w
    BY <2>1 DEF EnterWrite
  <2>2. CASE v # w
    <3>1. req[v] \in Request /\ LocalOK(req[v])
      BY DEF ReqOK, LocalsOK
    <3>2. [req[v] EXCEPT !.clean = 0] \in Request
      BY <3>1 DEF Request, Flag
    <3> DEFINE s == [req[v] EXCEPT !.clean = 0]
    <3>3. /\ s.op = req[v].op /\ s.pc = req[v].pc /\ s.id = req[v].id
          /\ s.post = req[v].post /\ s.text = req[v].text /\ s.now = req[v].now
          /\ s.comment = req[v].comment
      BY <3>1 DEF Request
    <3>4. LocalOK(s)
      <4> HIDE DEF s
      <4> QED BY <3>1, <3>3, SameLocal
    <3> QED BY <2>2, <3>1, <3>2, <3>4 DEF EnterWrite
  <2> QED BY <2>1, <2>2
<1>2. req' \in [Workers -> Request]
  BY <1>1 DEF EnterWrite
<1> QED BY <1>1, <1>2 DEF ReqOK, LocalsOK

(* A step of a handler that renders keeps its name and its id. *)
LEMMA ReaderStepOK ==
  ASSUME ReqOK, NEW w \in Workers, req[w].op \in ReaderOps, NEW r \in Request,
         r.op = req[w].op, r.id = req[w].id, r.pc # "row", req' = [req EXCEPT ![w] = r]
  PROVE  ReqOK'
<1>1. LocalOK(req[w])
  BY DEF ReqOK, LocalsOK
<1>2. LocalOK(r)
  BY <1>1, ReaderOK DEF LocalOK
<1> QED BY <1>2, OneRequest

-----------------------------------------------------------------------------
(* How the cache changes.                                                  *)

(* mem_cache::store keeps the type of the cache, whatever it evicts. *)
LEMMA StoreOK == ASSUME CacheOK, NEW k \in Key, NEW e \in Entry, CacheStore(k, e)
                 PROVE  CacheOK'
BY DEF CacheOK, CacheStore

(* cache().rise keeps the type of the cache. *)
LEMMA RiseOK == ASSUME CacheOK, NEW t, CacheRise(t) PROVE CacheOK'
BY DEF CacheOK, CacheRise

(* cache().clear leaves a cache of the right type. *)
LEMMA ClearOK == CacheClear => CacheOK'
BY DEF CacheOK, CacheClear

(* The keys and triggers that the handlers name. *)
LEMMA KeyTypes ==
  /\ \A p \in PostId, z \in Spellings : PostKey(p, z) \in Key
  /\ \A i \in PageId, z \in Spellings : PageKey(i, z) \in Key
  /\ \A c \in CatId, z \in Spellings : RssKey(c, z) \in Key
  /\ {CommentsKey, RssPosts, SidebarInfo, Sidebar, OptionsKey} \subseteq Key
  /\ Key \subseteq Trigger
  /\ \A c \in CatId, z \in Spellings : CatTrigger(c, z) \in Trigger
  /\ {AllPosts, CatsTrigger, PagesTrigger, GeneralInfo} \subseteq Trigger
  /\ 0 \in Spellings
BY SpellingAssumption DEF Key, Trigger

-----------------------------------------------------------------------------
Types == TableOK /\ CacheOK /\ ReqOK /\ LostOK

(* A step that changes requests only. *)
LEMMA RequestOnly == ASSUME Types, ReqOK', UNCHANGED <<db, cache, lost>> PROVE Types'
BY TablesUnchanged, CacheUnchanged, LostUnchanged DEF Types

(* A step that changes requests and the cache. *)
LEMMA RequestAndCache ==
  ASSUME Types, ReqOK', CacheOK', UNCHANGED <<db, lost>> PROVE Types'
BY TablesUnchanged, LostUnchanged DEF Types

(* The start of every response keeps the types. *)
LEMMA StartTypes ==
  ASSUME Types, NEW w \in Workers,
         \/ DisplayPost(w) \/ DisplayPage(w) \/ Preview(w)
         \/ FeedComments(w) \/ FeedPosts(w) \/ FeedCat(w)
  PROVE  Types'
<1> USE DEF Types, ReaderOps, ReaderPcs, PostViews, PageViews
<1>0. PostId \subseteq Nat /\ PageId \subseteq Nat /\ CatId \subseteq Nat /\ 0 \in Spellings
  BY SpellingAssumption DEF PostId, PageId, CatId
<1>1. CASE DisplayPost(w)
  <2>1. ReqOK' BY <1>0, <1>1, BeginOK DEF DisplayPost
  <2> QED BY <1>1, <2>1, RequestOnly DEF DisplayPost
<1>2. CASE DisplayPage(w)
  <2>1. ReqOK' BY <1>0, <1>2, BeginOK DEF DisplayPage
  <2> QED BY <1>2, <2>1, RequestOnly DEF DisplayPage
<1>3. CASE Preview(w)
  <2>1. ReqOK' BY <1>0, <1>3, BeginOK DEF Preview
  <2> QED BY <1>3, <2>1, RequestOnly DEF Preview
<1>4. CASE FeedComments(w)
  <2>1. ReqOK' BY <1>0, <1>4, BeginOK DEF FeedComments
  <2> QED BY <1>4, <2>1, RequestOnly DEF FeedComments
<1>5. CASE FeedPosts(w)
  <2>1. ReqOK' BY <1>0, <1>5, BeginOK DEF FeedPosts
  <2> QED BY <1>5, <2>1, RequestOnly DEF FeedPosts
<1>6. CASE FeedCat(w)
  <2>1. ReqOK' BY <1>0, <1>6, BeginOK DEF FeedCat
  <2> QED BY <1>6, <2>1, RequestOnly DEF FeedCat
<1> QED BY <1>1, <1>2, <1>3, <1>4, <1>5, <1>6

(* The queries of a body return rows of the tables. *)
LEMMA QueryTypes ==
  ASSUME TableOK
  PROVE  /\ \A ks \in SUBSET {k \in CommentId : comments[k] # NoRow} :
               CommentRows(ks) \in SUBSET (CommentId \X PostId \X Texts)
         /\ \A p \in PostId : CategoriesOf(p) \in SUBSET (CatId \X Texts)
         /\ \A ps \in SUBSET {p \in PostId : posts[p] # NoRow} :
               PostRows(ps) \in SUBSET (PostId \X Texts)
         /\ OpenPages \in SUBSET (PageId \X Texts)
         /\ CategoryCounts \in SUBSET (CatId \X Texts \X Nat)
<1>1. \A ks \in SUBSET {k \in CommentId : comments[k] # NoRow} :
         CommentRows(ks) \in SUBSET (CommentId \X PostId \X Texts)
  BY DEF TableOK, CommentRows, Comment
<1>2. \A p \in PostId : CategoriesOf(p) \in SUBSET (CatId \X Texts)
  BY DEF TableOK, CategoriesOf, Linked, Existing
<1>3. \A ps \in SUBSET {p \in PostId : posts[p] # NoRow} :
         PostRows(ps) \in SUBSET (PostId \X Texts)
  BY DEF TableOK, PostRows, Post
<1>4. OpenPages \in SUBSET (PageId \X Texts)
  BY DEF TableOK, OpenPages, Page
<1>5. ASSUME NEW c \in CatId PROVE Cardinality(OpenIn(c)) \in Nat
  <2>1. IsFiniteSet(PostId)
    BY IdAssumption, FS_Interval DEF PostId
  <2>2. OpenIn(c) \subseteq PostId
    BY DEF OpenIn
  <2> QED BY <2>1, <2>2, FS_Subset, FS_CardinalityType
<1>6. CategoryCounts \in SUBSET (CatId \X Texts \X Nat)
  BY <1>5 DEF TableOK, CategoryCounts, Existing
<1> QED BY <1>1, <1>2, <1>3, <1>4, <1>6

(* A step that fills in the body of a response. *)
LEMMA BodyStep ==
  ASSUME ReqOK, NEW w \in Workers, req[w].op \in ReaderOps,
         NEW b \in Body, NEW pc \in ReaderPcs \ {"row"}, NEW trig \in SUBSET Trigger, NEW cl \in Flag,
         req' = [req EXCEPT ![w] = [req[w] EXCEPT !.body = b, !.trig = trig,
                                                  !.clean = cl, !.pc = pc]]
  PROVE  ReqOK'
<1> DEFINE r == [req[w] EXCEPT !.body = b, !.trig = trig, !.clean = cl, !.pc = pc]
<1>1. req[w] \in Request
  BY DEF ReqOK
<1>2. r \in Request /\ r.op = req[w].op /\ r.id = req[w].id /\ r.pc = pc
  BY <1>1 DEF Request
<1> HIDE DEF r
<1> QED BY <1>2, ReaderStepOK DEF r

(* A step that fills in the sidebar. *)
LEMMA SideStep ==
  ASSUME ReqOK, NEW w \in Workers, req[w].op \in ReaderOps,
         NEW s \in Side, NEW pc \in ReaderPcs \ {"row"}, NEW trig \in SUBSET Trigger,
         NEW rec \in SUBSET Trigger, NEW cl \in Flag,
         req' = [req EXCEPT ![w] = [req[w] EXCEPT !.side = s, !.trig = trig, !.rec = rec,
                                                  !.clean = cl, !.pc = pc]]
  PROVE  ReqOK'
<1> DEFINE r == [req[w] EXCEPT !.side = s, !.trig = trig, !.rec = rec, !.clean = cl, !.pc = pc]
<1>1. req[w] \in Request
  BY DEF ReqOK
<1>2. r \in Request /\ r.op = req[w].op /\ r.id = req[w].id /\ r.pc = pc
  BY <1>1 DEF Request
<1> HIDE DEF r
<1> QED BY <1>2, ReaderStepOK DEF r

(* A step that only moves on. *)
LEMMA GotoStep ==
  ASSUME ReqOK, NEW w \in Workers, req[w].op \in ReaderOps, NEW pc \in ReaderPcs \ {"row"}, Goto(w, pc)
  PROVE  ReqOK'
<1>1. req[w] \in Request
  BY DEF ReqOK
<1>2. /\ [req[w] EXCEPT !.pc = pc] \in Request
      /\ [req[w] EXCEPT !.pc = pc].op = req[w].op /\ [req[w] EXCEPT !.pc = pc].id = req[w].id
      /\ [req[w] EXCEPT !.pc = pc].pc = pc
  BY <1>1 DEF Request
<1>3. req' = [req EXCEPT ![w] = [req[w] EXCEPT !.pc = pc]]
  BY DEF Goto
<1> QED BY <1>2, <1>3, ReaderStepOK

(* The fields of a sidebar. *)
LEMMA SideFields ==
  ASSUME NEW s \in Side
  PROVE  /\ \A t \in Texts \cup {NoRow} : [s EXCEPT !.options = t] \in Side
         /\ \A x \in SUBSET (PageId \X Texts) : [s EXCEPT !.pages = x] \in Side
         /\ \A x \in SUBSET (CatId \X Texts \X Nat) : [s EXCEPT !.cats = x] \in Side
BY DEF Side

(* The fields of a body. *)
LEMMA BodyFields ==
  ASSUME NEW b \in Body
  PROVE  /\ \A t \in Texts \cup {NoRow} : [b EXCEPT !.text = t] \in Body
         /\ \A t \in Texts \cup {NoRow} : [b EXCEPT !.options = t] \in Body
         /\ \A x \in SUBSET (CommentId \X PostId \X Texts) : [b EXCEPT !.comments = x] \in Body
         /\ \A x \in SUBSET (CatId \X Texts) : [b EXCEPT !.cats = x] \in Body
         /\ \A x \in SUBSET (PostId \X Texts) : [b EXCEPT !.posts = x] \in Body
BY DEF Body

(***************************************************************************)
(* Every step of a handler that renders keeps the types.  The feed of a    *)
(* category joins links with posts, and relies on every link having one.   *)
(***************************************************************************)
LEMMA ViewTypes ==
  ASSUME Types, PublishSync, NEW w \in Workers, ViewStep(w)
  PROVE  Types'
<1> USE DEF Types
<1>r. req[w] \in Request /\ LocalOK(req[w])
  BY DEF ReqOK, LocalsOK
<1>b. /\ req[w].body \in Body /\ req[w].side \in Side /\ req[w].clean \in Flag
      /\ req[w].trig \in SUBSET Trigger /\ req[w].rec \in SUBSET Trigger
  BY <1>r DEF Request
<1>p. {"options", "opt_select", "opt_store", "comments", "cats", "posts", "frame", "info",
       "side_pages", "side_cats", "store_info", "store_frame", "store"} \subseteq ReaderPcs \ {"row"}
  BY DEF ReaderPcs
<1>ops. PostViews \subseteq ReaderOps /\ PageViews \subseteq ReaderOps
        /\ "feed_cat" \in ReaderOps /\ "feed_comments" \in ReaderOps /\ "feed_posts" \in ReaderOps
  BY DEF ReaderOps
<1>pcs. req[w].pc \in ReaderPcs => req[w].op \in ReaderOps
  BY <1>r DEF LocalOK
<1>1. CASE PostRow(w)
  <2>1. CASE Finish(w)
    BY <1>1, <2>1, FinishOK, RequestOnly DEF PostRow
  <2>2. CASE ~Finish(w)
    <3> DEFINE p == req[w].id
               b == [req[w].body EXCEPT !.text = posts[p].text]
    <3>1. /\ req' = [req EXCEPT ![w].body.text = posts[p].text, ![w].pc = "options"]
          /\ posts[p] # NoRow /\ p \in PostId
      BY <1>1, <2>2, <1>r DEF PostRow, LocalOK
    <3>2. b \in Body
      BY <3>1, <1>b, BodyFields DEF TableOK, Post
    <3>3. req' = [req EXCEPT ![w] = [req[w] EXCEPT !.body = b, !.trig = req[w].trig,
                                           !.clean = req[w].clean, !.pc = "options"]]
      BY <1>r, <3>1 DEF Request
    <3>4. ReqOK'
      <4> HIDE DEF b
      <4> QED BY <1>1, <1>b, <1>ops, <1>p, <3>2, <3>3, BodyStep DEF PostRow
    <3> QED BY <1>1, <3>4, RequestOnly DEF PostRow
  <2> QED BY <2>1, <2>2
<1>2. CASE PageRow(w)
  <2>1. CASE Finish(w)
    BY <1>2, <2>1, FinishOK, RequestOnly DEF PageRow
  <2>2. CASE ~Finish(w)
    <3> DEFINE i == req[w].id
               b == [req[w].body EXCEPT !.text = pages[i].text]
    <3>1. /\ req' = [req EXCEPT ![w].body.text = pages[i].text, ![w].pc = "options"]
          /\ pages[i] # NoRow /\ i \in PageId
      BY <1>2, <2>2, <1>r DEF PageRow, LocalOK
    <3>2. b \in Body
      BY <3>1, <1>b, BodyFields DEF TableOK, Page
    <3>3. req' = [req EXCEPT ![w] = [req[w] EXCEPT !.body = b, !.trig = req[w].trig,
                                           !.clean = req[w].clean, !.pc = "options"]]
      BY <1>r, <3>1 DEF Request
    <3>4. ReqOK'
      <4> HIDE DEF b
      <4> QED BY <1>2, <1>b, <1>ops, <1>p, <3>2, <3>3, BodyStep DEF PageRow
    <3> QED BY <1>2, <3>4, RequestOnly DEF PageRow
  <2> QED BY <2>1, <2>2
<1>3. CASE FeedCatRow(w)
  <2>1. CASE Finish(w)
    BY <1>3, <2>1, FinishOK, RequestOnly DEF FeedCatRow
  <2>2. CASE ~Finish(w)
    <3> DEFINE c == req[w].id
               b == [req[w].body EXCEPT !.text = cats[c]]
               t == {CatTrigger(c, req[w].zeros)}
    <3>1. /\ req' = [req EXCEPT ![w].body.text = cats[c], ![w].trig = t, ![w].pc = "posts"]
          /\ cats[c] # NoRow /\ c \in CatId
      BY <1>3, <2>2, <1>r DEF FeedCatRow, LocalOK, At
    <3>2. b \in Body
      BY <3>1, <1>b, BodyFields DEF TableOK
    <3>3. req' = [req EXCEPT ![w] = [req[w] EXCEPT !.body = b, !.trig = t,
                                           !.clean = req[w].clean, !.pc = "posts"]]
      BY <1>r, <3>1 DEF Request
    <3>4. t \in SUBSET Trigger
      BY <3>1, <1>r, KeyTypes DEF Request
    <3>5. ReqOK'
      <4> HIDE DEF b, t
      <4> QED BY <1>3, <1>b, <1>ops, <1>p, <3>2, <3>3, <3>4, BodyStep DEF FeedCatRow, At
    <3> QED BY <1>3, <3>5, RequestOnly DEF FeedCatRow
  <2> QED BY <2>1, <2>2
<1>4. CASE PostComments(w)
  <2>0. req[w].op \in ReaderOps
    BY <1>4, <1>ops DEF PostComments
  <2> DEFINE x == CommentRows(CommentsOf(req[w].id))
             b == [req[w].body EXCEPT !.comments = x]
  <2>1. x \in SUBSET (CommentId \X PostId \X Texts)
    BY QueryTypes DEF CommentsOf
  <2>2. req' = [req EXCEPT ![w].body.comments = x, ![w].pc = "cats"]
    BY <1>4 DEF PostComments
  <2> HIDE DEF x
  <2>3. req' = [req EXCEPT ![w] = [req[w] EXCEPT !.body = b, !.trig = req[w].trig,
                                         !.clean = req[w].clean, !.pc = "cats"]]
    BY <1>r, <2>2 DEF Request
  <2>4. b \in Body
    BY <2>1, <1>b, BodyFields
  <2>5. ReqOK'
    <3> HIDE DEF b
    <3> QED BY <2>0, <1>b, <1>p, <2>3, <2>4, BodyStep
  <2> QED BY <1>4, <2>5, RequestOnly DEF PostComments
<1>5. CASE PostCategories(w)
  <2>0. req[w].op \in ReaderOps
    BY <1>5, <1>ops DEF PostCategories
  <2> DEFINE x == CategoriesOf(req[w].id)
             b == [req[w].body EXCEPT !.cats = x]
  <2>1. req[w].id \in PostId
    BY <1>5, <1>r DEF PostCategories, LocalOK
  <2>2. x \in SUBSET (CatId \X Texts)
    BY <2>1, QueryTypes
  <2>3. req' = [req EXCEPT ![w].body.cats = x, ![w].pc = "frame"]
    BY <1>5 DEF PostCategories
  <2> HIDE DEF x
  <2>4. req' = [req EXCEPT ![w] = [req[w] EXCEPT !.body = b, !.trig = req[w].trig,
                                         !.clean = req[w].clean, !.pc = "frame"]]
    BY <1>r, <2>3 DEF Request
  <2>5. b \in Body
    BY <2>2, <1>b, BodyFields
  <2>6. ReqOK'
    <3> HIDE DEF b
    <3> QED BY <2>0, <1>b, <1>p, <2>4, <2>5, BodyStep
  <2> QED BY <1>5, <2>6, RequestOnly DEF PostCategories
<1>6. CASE FeedCommentRows(w)
  <2>0. req[w].op \in ReaderOps
    BY <1>6, <1>ops DEF FeedCommentRows, At
  <2>1. PICK ks \in RecentComments :
          req' = [req EXCEPT ![w].body.comments = CommentRows(ks), ![w].pc = "options"]
    BY <1>6 DEF FeedCommentRows
  <2> DEFINE x == CommentRows(ks)
             b == [req[w].body EXCEPT !.comments = x]
  <2>2. x \in SUBSET (CommentId \X PostId \X Texts)
    BY QueryTypes DEF RecentComments, Newest
  <2>3. req' = [req EXCEPT ![w].body.comments = x, ![w].pc = "options"]
    BY <2>1
  <2> HIDE DEF x
  <2>4. req' = [req EXCEPT ![w] = [req[w] EXCEPT !.body = b, !.trig = req[w].trig,
                                         !.clean = req[w].clean, !.pc = "options"]]
    BY <1>r, <2>3 DEF Request
  <2>5. b \in Body
    BY <2>2, <1>b, BodyFields
  <2>6. ReqOK'
    <3> HIDE DEF b
    <3> QED BY <2>0, <1>b, <1>p, <2>4, <2>5, BodyStep
  <2> QED BY <1>6, <2>6, RequestOnly DEF FeedCommentRows
<1>7. CASE FeedPostRows(w)
  <2>1. PICK ps \in SUBSET {p \in PostId : posts[p] # NoRow}, extra \in {{AllPosts}, {}} :
          ListPosts(w, ps, extra)
    <3>1. CASE At(w, "feed_posts", "posts")
      BY <1>7, <3>1 DEF FeedPostRows, RecentPosts, OpenPosts, Newest, At
    <3>2. CASE At(w, "feed_cat", "posts")
      <4>1. req[w].id \in CatId
        BY <1>r, <3>2 DEF LocalOK, At
      <4>2. PICK ps \in RecentIn(req[w].id) : ListPosts(w, ps, {})
        BY <1>7, <3>2 DEF FeedPostRows, At
      <4>3. ps \subseteq OpenIn(req[w].id)
        BY <4>2 DEF RecentIn, Newest
      <4>4. ps \subseteq {p \in PostId : posts[p] # NoRow}
        BY <4>1, <4>3 DEF OpenIn, PublishSync, Linked
      <4> QED BY <4>2, <4>4
    <3> QED BY <1>7, <3>1, <3>2 DEF FeedPostRows
  <2> DEFINE x == PostRows(ps)
             b == [req[w].body EXCEPT !.posts = x]
             t == req[w].trig \cup {PostKey(p, 0) : p \in ps} \cup extra
  <2>2. x \in SUBSET (PostId \X Texts)
    BY QueryTypes
  <2>3. t \in SUBSET Trigger
    BY <1>b, KeyTypes
  <2>4. req' = [req EXCEPT ![w].body.posts = x, ![w].pc = "options", ![w].trig = t]
    BY <2>1 DEF ListPosts
  <2> HIDE DEF x, t
  <2>5. req' = [req EXCEPT ![w] = [req[w] EXCEPT !.body = b, !.trig = t,
                                         !.clean = req[w].clean, !.pc = "options"]]
    BY <1>r, <2>4 DEF Request
  <2>6. b \in Body
    BY <2>2, <1>b, BodyFields
  <2>7. ReqOK'
    <3> HIDE DEF b
    <3> QED BY <1>7, <1>b, <1>ops, <1>p, <2>3, <2>5, <2>6, BodyStep DEF FeedPostRows, At
  <2> QED BY <1>7, <2>7, RequestOnly DEF FeedPostRows
<1>8. CASE Options(w)
  <2>0. req[w].op \in ReaderOps
    BY <1>8, <1>pcs, <1>p DEF Options
  <2>1. CASE Missing(OptionsKey)
    <3>1. ReqOK'
      BY <1>8, <2>0, <2>1, <1>p, GotoStep DEF Options
    <3> QED BY <1>8, <3>1, RequestOnly DEF Options
  <2>2. CASE ~Missing(OptionsKey)
    <3> DEFINE e == cache[OptionsKey]
               b == [req[w].body EXCEPT !.options = e.body.options]
               t == req[w].trig \cup e.trig
               cl == IF e.clean = 1 THEN req[w].clean ELSE 0
               pc == AfterOptions(req[w].op)
    <3>1. e \in Entry
      BY <2>2, KeyTypes DEF CacheOK, Missing
    <3>2. b \in Body
      <4>1. e.body.options \in Texts \cup {NoRow}
        BY <3>1 DEF Entry, Body
      <4> QED BY <4>1, <1>b, BodyFields
    <3>3. t \in SUBSET Trigger /\ cl \in Flag
      BY <3>1, <1>b DEF Entry, Flag
    <3>4. pc \in ReaderPcs \ {"row"}
      BY <1>p DEF AfterOptions
    <3>5. req' = [req EXCEPT ![w].body.options = e.body.options, ![w].trig = t,
                             ![w].clean = cl, ![w].pc = pc]
      BY <1>8, <2>2 DEF Options
    <3> HIDE DEF e, t, cl, pc
    <3>6. req' = [req EXCEPT ![w] = [req[w] EXCEPT !.body = b, !.trig = t,
                                           !.clean = cl, !.pc = pc]]
      BY <1>r, <3>5 DEF Request
    <3>7. ReqOK'
      <4> HIDE DEF b
      <4> QED BY <2>0, <3>2, <3>3, <3>4, <3>6, BodyStep
    <3> QED BY <1>8, <3>7, RequestOnly DEF Options
  <2> QED BY <2>1, <2>2
<1>9. CASE OptionsSelect(w)
  <2>0. req[w].op \in ReaderOps
    BY <1>9, <1>pcs, <1>p DEF OptionsSelect
  <2> DEFINE b == [req[w].body EXCEPT !.options = options]
  <2>1. b \in Body
    BY <1>b, BodyFields DEF TableOK
  <2>2. req' = [req EXCEPT ![w] = [req[w] EXCEPT !.body = b, !.trig = req[w].trig,
                                         !.clean = req[w].clean, !.pc = "opt_store"]]
    BY <1>r, <1>9 DEF Request, OptionsSelect
  <2>3. ReqOK'
    <3> HIDE DEF b
    <3> QED BY <2>0, <1>b, <1>p, <2>1, <2>2, BodyStep
  <2> QED BY <1>9, <2>3, RequestOnly DEF OptionsSelect
<1>10. CASE OptionsStore(w)
  <2>0. req[w].op \in ReaderOps
    BY <1>10, <1>pcs, <1>p DEF OptionsStore
  <2> DEFINE e == [body |-> [NoBody EXCEPT !.options = req[w].body.options],
                   side |-> NoSide, trig |-> {OptionsKey}, clean |-> req[w].clean]
             t == req[w].trig \cup {OptionsKey}
             pc == AfterOptions(req[w].op)
  <2>1. NoBody \in Body /\ NoSide \in Side /\ req[w].body.options \in Texts \cup {NoRow}
    BY <1>b DEF NoBody, NoSide, Body, Side
  <2>2. e \in Entry
    <3>1. [NoBody EXCEPT !.options = req[w].body.options] \in Body
      BY <2>1, BodyFields
    <3> QED BY <3>1, <2>1, <1>b, KeyTypes DEF Entry
  <2>3. CacheOK'
    <3>1. CacheStore(OptionsKey, e)
      BY <1>10 DEF OptionsStore
    <3> HIDE DEF e
    <3> QED BY <2>2, <3>1, KeyTypes, StoreOK
  <2>4. t \in SUBSET Trigger /\ pc \in ReaderPcs \ {"row"}
    BY <1>b, <1>p, KeyTypes DEF AfterOptions
  <2>5. req' = [req EXCEPT ![w].trig = t, ![w].pc = pc]
    BY <1>10 DEF OptionsStore
  <2> HIDE DEF t, pc
  <2>6. req' = [req EXCEPT ![w] = [req[w] EXCEPT !.body = req[w].body, !.trig = t,
                                         !.clean = req[w].clean, !.pc = pc]]
    BY <1>r, <2>5 DEF Request
  <2>7. ReqOK'
    BY <2>0, <1>b, <2>4, <2>6, BodyStep
  <2> QED BY <1>10, <2>3, <2>7, RequestAndCache DEF OptionsStore
<1>11. CASE Frame(w)
  <2>0. req[w].op \in ReaderOps
    BY <1>11, <1>pcs, <1>p DEF Frame
  <2>1. CASE Missing(Sidebar)
    <3>1. ReqOK'
      BY <1>11, <2>0, <2>1, <1>p, GotoStep DEF Frame
    <3> QED BY <1>11, <3>1, RequestOnly DEF Frame
  <2>2. CASE ~Missing(Sidebar)
    <3> DEFINE e == cache[Sidebar]
               s == e.side
               t == req[w].trig \cup e.trig
               rec == req[w].rec
               cl == IF e.clean = 1 THEN req[w].clean ELSE 0
    <3>1. e \in Entry
      BY <2>2, KeyTypes DEF CacheOK, Missing
    <3>2. s \in Side /\ t \in SUBSET Trigger /\ rec \in SUBSET Trigger /\ cl \in Flag
      BY <3>1, <1>b DEF Entry, Flag
    <3>3. req' = [req EXCEPT ![w].side = s, ![w].trig = t, ![w].clean = cl, ![w].pc = "store"]
      BY <1>11, <2>2 DEF Frame
    <3>4. req' = [req EXCEPT ![w] = [req[w] EXCEPT !.side = s, !.trig = t, !.rec = rec,
                                           !.clean = cl, !.pc = "store"]]
      <4> HIDE DEF e, s, cl
      <4> QED BY <1>r, <3>3 DEF Request
    <3>5. ReqOK'
      <4> HIDE DEF s, t, rec, cl
      <4> QED BY <2>0, <3>2, <1>p, <3>4, SideStep
    <3> QED BY <1>11, <3>5, RequestOnly DEF Frame
  <2> QED BY <2>1, <2>2
<1>12. CASE Info(w)
  <2>0. req[w].op \in ReaderOps
    BY <1>12, <1>pcs, <1>p DEF Info
  <2>1. CASE Missing(SidebarInfo)
    <3>1. ReqOK'
      BY <1>12, <2>0, <2>1, <1>p, GotoStep DEF Info
    <3> QED BY <1>12, <3>1, RequestOnly DEF Info
  <2>2. CASE ~Missing(SidebarInfo)
    <3> DEFINE e == cache[SidebarInfo]
               s == e.side
               t == req[w].trig
               rec == e.trig
               cl == IF e.clean = 1 THEN req[w].clean ELSE 0
    <3>1. e \in Entry
      BY <2>2, KeyTypes DEF CacheOK, Missing
    <3>2. s \in Side /\ t \in SUBSET Trigger /\ rec \in SUBSET Trigger /\ cl \in Flag
      BY <3>1, <1>b DEF Entry, Flag
    <3>3. req' = [req EXCEPT ![w].side = s, ![w].rec = rec, ![w].clean = cl, ![w].pc = "store_frame"]
      BY <1>12, <2>2 DEF Info
    <3>4. req' = [req EXCEPT ![w] = [req[w] EXCEPT !.side = s, !.trig = t, !.rec = rec,
                                           !.clean = cl, !.pc = "store_frame"]]
      <4> HIDE DEF e, s, cl
      <4> QED BY <1>r, <3>3 DEF Request
    <3>5. ReqOK'
      <4> HIDE DEF s, t, rec, cl
      <4> QED BY <2>0, <3>2, <1>p, <3>4, SideStep
    <3> QED BY <1>12, <3>5, RequestOnly DEF Info
  <2> QED BY <2>1, <2>2
<1>13. CASE SidePages(w)
  <2>0. req[w].op \in ReaderOps
    BY <1>13, <1>pcs, <1>p DEF SidePages
  <2> DEFINE s == [req[w].side EXCEPT !.pages = OpenPages]
             rec == {PagesTrigger}
  <2>1. s \in Side /\ rec \in SUBSET Trigger
    BY <1>b, SideFields, QueryTypes, KeyTypes
  <2>2. req' = [req EXCEPT ![w] = [req[w] EXCEPT !.side = s, !.trig = req[w].trig, !.rec = rec,
                                         !.clean = req[w].clean, !.pc = "side_cats"]]
    BY <1>r, <1>13 DEF Request, SidePages
  <2>3. ReqOK'
    <3> HIDE DEF s, rec
    <3> QED BY <2>0, <1>b, <1>p, <2>1, <2>2, SideStep
  <2> QED BY <1>13, <2>3, RequestOnly DEF SidePages
<1>14. CASE SideCats(w)
  <2>0. req[w].op \in ReaderOps
    BY <1>14, <1>pcs, <1>p DEF SideCats
  <2> DEFINE s == [req[w].side EXCEPT !.cats = CategoryCounts]
             rec == req[w].rec \cup {CatTrigger(c, 0) : c \in Existing}
                               \cup {CatsTrigger, GeneralInfo}
  <2>1. s \in Side
    BY <1>b, SideFields, QueryTypes
  <2>2. rec \in SUBSET Trigger
    BY <1>b, KeyTypes DEF Existing
  <2>3. req' = [req EXCEPT ![w].side.cats = CategoryCounts, ![w].rec = rec,
                           ![w].pc = "store_info"]
    BY <1>14 DEF SideCats
  <2> HIDE DEF rec
  <2>4. req' = [req EXCEPT ![w] = [req[w] EXCEPT !.side = s, !.trig = req[w].trig, !.rec = rec,
                                         !.clean = req[w].clean, !.pc = "store_info"]]
    BY <1>r, <2>3 DEF Request
  <2>5. ReqOK'
    <3> HIDE DEF s
    <3> QED BY <2>0, <1>b, <1>p, <2>1, <2>2, <2>4, SideStep
  <2> QED BY <1>14, <2>5, RequestOnly DEF SideCats
<1>e. ASSUME NEW t \in SUBSET Trigger
      PROVE  EntryOf(w, t) \in Entry /\ SideEntry(w, t) \in Entry
  <2>1. NoBody \in Body
    BY DEF NoBody, Body
  <2> QED BY <2>1, <1>b DEF EntryOf, SideEntry, Entry
<1>15. CASE StoreInfo(w)
  <2>0. req[w].op \in ReaderOps
    BY <1>15, <1>pcs, <1>p DEF StoreInfo
  <2> DEFINE rec == req[w].rec \cup {SidebarInfo}
  <2>1. rec \in SUBSET Trigger
    BY <1>b, KeyTypes
  <2>2. CacheOK'
    <3>1. CacheStore(SidebarInfo, SideEntry(w, rec))
      BY <1>15 DEF StoreInfo
    <3> QED BY <1>e, <2>1, <3>1, KeyTypes, StoreOK
  <2>3. req' = [req EXCEPT ![w].rec = rec, ![w].pc = "store_frame"]
    BY <1>15 DEF StoreInfo
  <2> HIDE DEF rec
  <2>4. req' = [req EXCEPT ![w] = [req[w] EXCEPT !.side = req[w].side, !.trig = req[w].trig,
                                 !.rec = rec, !.clean = req[w].clean, !.pc = "store_frame"]]
    BY <1>r, <2>3 DEF Request
  <2>5. ReqOK'
    BY <2>0, <1>b, <1>p, <2>1, <2>4, SideStep
  <2> QED BY <1>15, <2>2, <2>5, RequestAndCache DEF StoreInfo
<1>16. CASE StoreFrame(w)
  <2>0. req[w].op \in ReaderOps
    BY <1>16, <1>pcs, <1>p DEF StoreFrame
  <2> DEFINE o == req[w].body.options
             s == [req[w].side EXCEPT !.options = o]
             x == FrameTriggers(req[w])
             t == req[w].trig \cup x
             e == [SideEntry(w, x) EXCEPT !.side = [@ EXCEPT !.options = o]]
  <2>1. x \in SUBSET Trigger /\ t \in SUBSET Trigger
    BY <1>b, KeyTypes DEF FrameTriggers
  <2>2. o \in Texts \cup {NoRow}
    BY <1>b DEF Body
  <2>3. s \in Side
    BY <1>b, <2>2, SideFields
  <2>4. e \in Entry
    <3> HIDE DEF x, o
    <3>1. SideEntry(w, x) \in Entry
      BY <1>e, <2>1
    <3>2. SideEntry(w, x).side \in Side
      BY <3>1 DEF Entry
    <3>3. [SideEntry(w, x).side EXCEPT !.options = o] \in Side
      BY <3>2, <2>2, SideFields
    <3> QED BY <3>1, <3>3 DEF Entry
  <2>5. CacheOK'
    <3>1. CacheStore(Sidebar, e)
      BY <1>16 DEF StoreFrame
    <3> HIDE DEF e
    <3> QED BY <2>4, <3>1, KeyTypes, StoreOK
  <2>6. req' = [req EXCEPT ![w].trig = t, ![w].side.options = o, ![w].rec = {},
                           ![w].pc = "store"]
    BY <1>16 DEF StoreFrame
  <2> HIDE DEF t, o
  <2>7. req' = [req EXCEPT ![w] = [req[w] EXCEPT !.side = s, !.trig = t, !.rec = {},
                                         !.clean = req[w].clean, !.pc = "store"]]
    BY <1>r, <2>6 DEF Request
  <2>8. ReqOK'
    <3> HIDE DEF s
    <3> QED BY <2>0, <1>b, <1>p, <2>1, <2>3, <2>7, SideStep
  <2> QED BY <1>16, <2>5, <2>8, RequestAndCache DEF StoreFrame
<1>17. CASE StorePage(w)
  <2>0. req[w].op \in ReaderOps
    BY <1>17, <1>pcs, <1>p DEF StorePage
  <2> DEFINE k == PageKeyOf(req[w])
             t == req[w].trig \cup {k}
  <2>1. k \in Key
    <3>1. req[w].zeros \in Spellings
      BY <1>r DEF Request
    <3> QED BY <1>r, <3>1, KeyTypes DEF PageKeyOf, LocalOK, PostViews, PageViews
  <2>2. t \in SUBSET Trigger
    BY <2>1, <1>b, KeyTypes
  <2>3. CacheOK'
    <3>1. CacheStore(k, EntryOf(w, t))
      BY <1>17 DEF StorePage
    <3> HIDE DEF k
    <3> QED BY <1>e, <2>1, <2>2, <3>1, StoreOK
  <2>4. ReqOK'
    BY <1>17, FinishOK DEF StorePage
  <2> QED BY <1>17, <2>3, <2>4, RequestAndCache DEF StorePage
<1>18. CASE Respond(w)
  BY <1>18, FinishOK, RequestOnly DEF Respond
<1> QED BY <1>1, <1>2, <1>3, <1>4, <1>5, <1>6, <1>7, <1>8, <1>9, <1>10, <1>11, <1>12,
          <1>13, <1>14, <1>15, <1>16, <1>17, <1>18 DEF ViewStep

-----------------------------------------------------------------------------
(* A handler that writes, past the step that decides what it writes. *)
LEMMA WriterOK ==
  ASSUME NEW r, r.op \in WriterOps \ {"post"}, r.pc \in {"exec", "tx", "fail", "after"},
         r.op = "cat_remove" => r.id \in CatId,
         r.op = "page" /\ r.pc = "exec" => r.id \in PageId,
         r.op \in {"edit", "remove", "send", "erase", "amend"} => r.post \in PostId,
         r.op = "insert" /\ r.pc \in {"tx", "fail"} => r.post \in PostId,
         r.op = "send" => r.id \in PostId,
         r.op \in {"insert", "edit", "send", "amend", "options"} => r.text \in Texts,
         r.op \in {"insert", "edit"} => r.now \in Times,
         r.op \in {"erase", "amend"} => r.comment \in CommentId,
         r.op = "send" /\ r.pc = "tx" => r.comment \in CommentId
  PROVE  LocalOK(r)
BY DEF LocalOK, WriterOps, PostViews, PageViews, ReaderPcs

(* The statements of a transaction are executed: its triggers are still to be risen. *)
LEMMA ExecOK ==
  ASSUME ReqOK, NEW w \in Workers, NEW X \in SUBSET Trigger, NEW pc \in {"tx", "fail"},
         req[w].pc = "exec",
         req[w].op \in {"remove", "edit", "erase", "amend"},
         EnterWrite(w, [req[w] EXCEPT !.pc = pc, !.rises = X])
  PROVE  ReqOK'
<1> DEFINE r == [req[w] EXCEPT !.pc = pc, !.rises = X]
<1>1. req[w] \in Request /\ LocalOK(req[w])
  BY DEF ReqOK, LocalsOK
<1>2. r \in Request
  BY <1>1 DEF Request, WriterPcs
<1>3. /\ r.op = req[w].op /\ r.pc = pc /\ r.id = req[w].id /\ r.post = req[w].post
      /\ r.text = req[w].text /\ r.now = req[w].now /\ r.comment = req[w].comment
  BY <1>1 DEF Request
<1> HIDE DEF r
<1>4. LocalOK(r)
  BY <1>1, <1>3 DEF LocalOK, ReaderPcs
<1> QED BY <1>2, <1>4, EnterOK DEF r

(* The triggers that a handler is going to rise are triggers. *)
LEMMA RiseTypes ==
  ASSUME NEW r \in Request
  PROVE  /\ InsertRises(r) \in SUBSET Trigger
         /\ JoinRises(r, Existing) \in SUBSET Trigger
         /\ r.post \in PostId => /\ RemoveRises(r) \in SUBSET Trigger
                                 /\ EditRises(r) \in SUBSET Trigger
                                 /\ FailRises(r) \in SUBSET Trigger
                                 /\ SendRises(r) \in SUBSET Trigger
                                 /\ CommentRises(r) \in SUBSET Trigger
         /\ \A c \in CatId : CatRises(c) \in SUBSET Trigger
         /\ \A i \in PageId : PageRises(i) \in SUBSET Trigger
<1>1. r.add \subseteq CatId /\ r.inUse \subseteq CatId
  BY DEF Request
<1>2. InsertRises(r) \in SUBSET Trigger
  BY <1>1, KeyTypes DEF InsertRises
<1>6. \A can : JoinRises(r, can) \in SUBSET Trigger
  BY <1>1, KeyTypes DEF JoinRises
<1>3. ASSUME r.post \in PostId
      PROVE  EditRises(r) \in SUBSET Trigger /\ FailRises(r) \in SUBSET Trigger
  <2>1. EditRises(r) \in SUBSET Trigger
    BY <1>1, <1>3, KeyTypes DEF EditRises
  <2>2. FailRises(r) \in SUBSET Trigger
    BY <1>3, <1>6, KeyTypes DEF FailRises
  <2> QED BY <2>1, <2>2
<1>4. r.post \in PostId => /\ RemoveRises(r) \in SUBSET Trigger
                           /\ SendRises(r) \in SUBSET Trigger
                           /\ CommentRises(r) \in SUBSET Trigger
  BY KeyTypes DEF RemoveRises, SendRises, CommentRises
<1>5. /\ \A c \in CatId : CatRises(c) \in SUBSET Trigger
      /\ \A i \in PageId : PageRises(i) \in SUBSET Trigger
  BY KeyTypes DEF CatRises, PageRises
<1> QED BY <1>2, <1>3, <1>4, <1>5, <1>6

(* Every step of the administration of posts keeps the types. *)
LEMMA PostAdminTypes ==
  ASSUME Types, NEW w \in Workers, PostStart(w) \/ PostAdminStep(w)
  PROVE  Types'
<1> USE DEF Types
<1>r. req[w] \in Request /\ LocalOK(req[w])
  BY DEF ReqOK, LocalsOK
<1>n. PostId \subseteq Nat /\ CommentId \subseteq Nat /\ 0 \in Nat
  BY DEF PostId, CommentId
<1>1. CASE PostStart(w)
  <2>1. PICK p \in {0} \cup PostId :
          req' = [req EXCEPT ![w] = [Idle EXCEPT !.op = "post", !.post = p,
                                       !.pc = IF p = 0 THEN "form" ELSE "is_open"]]
    BY <1>1 DEF PostStart
  <2> DEFINE r == [Idle EXCEPT !.op = "post", !.post = p,
                               !.pc = IF p = 0 THEN "form" ELSE "is_open"]
  <2>2. r \in Request
    <3>1. (IF p = 0 THEN "form" ELSE "is_open") \in WriterPcs /\ "post" \in WriterOps /\ p \in Nat
      BY <1>n DEF WriterOps, WriterPcs
    <3> QED BY <3>1, IdleType DEF Request
  <2>3. r.op = "post" /\ r.post = p /\ r.pc = IF p = 0 THEN "form" ELSE "is_open"
    BY DEF Idle
  <2>4. LocalOK(r)
    <3> HIDE DEF r
    <3> QED BY <2>3 DEF LocalOK, PostViews, PageViews, ReaderPcs, PostId
  <2>5. ReqOK'
    <3> HIDE DEF r
    <3> QED BY <2>1, <2>2, <2>4, OneRequest DEF r
  <2> QED BY <1>1, <2>5, RequestOnly DEF PostStart
<1>2. CASE PostIsOpen(w)
  <2>1. CASE Finish(w)
    BY <1>2, <2>1, FinishOK, RequestOnly DEF PostIsOpen
  <2>2. CASE ~Finish(w)
    <3> DEFINE p == req[w].post
               r == [req[w] EXCEPT !.open = posts[p].open, !.pc = "in_use"]
    <3>1. req' = [req EXCEPT ![w] = r] /\ posts[p] # NoRow /\ p \in PostId
          /\ req[w].op = "post"
      BY <1>2, <2>2, <1>r DEF PostIsOpen, LocalOK, At
    <3>2. r \in Request
      BY <3>1, <1>r DEF TableOK, Request, Post, WriterPcs
    <3>3. r.op = "post" /\ r.post = p /\ r.pc = "in_use"
      BY <3>1, <1>r DEF Request
    <3>4. LocalOK(r)
      <4> HIDE DEF r
      <4> QED BY <3>1, <3>3 DEF LocalOK, PostViews, PageViews, ReaderPcs
    <3>5. ReqOK'
      <4> HIDE DEF r
      <4> QED BY <3>1, <3>2, <3>4, OneRequest
    <3> QED BY <1>2, <3>5, RequestOnly DEF PostIsOpen
  <2> QED BY <2>1, <2>2
<1>3. CASE PostInUse(w)
  <2> DEFINE u == Linked(req[w].post) \cap Existing
             r == [req[w] EXCEPT !.inUse = u, !.pc = "form"]
  <2>1. req' = [req EXCEPT ![w] = r] /\ req[w].op = "post"
    BY <1>3 DEF PostInUse, At
  <2>2. r \in Request
    BY <1>r DEF Request, WriterPcs, Linked, Existing
  <2>3. r.op = "post" /\ r.post = req[w].post /\ r.pc = "form"
    BY <2>1, <1>r DEF Request
  <2>4. LocalOK(r)
    <3> HIDE DEF r
    <3> QED BY <1>r, <2>1, <2>3 DEF LocalOK, PostViews, PageViews, ReaderPcs
  <2>5. ReqOK'
    <3> HIDE DEF r
    <3> QED BY <2>1, <2>2, <2>4, OneRequest
  <2> QED BY <1>3, <2>5, RequestOnly DEF PostInUse
<1>4. CASE PostForm(w)
  <2>0. req[w].op = "post" /\ req[w].post \in {0} \cup PostId
    BY <1>4, <1>r DEF PostForm, At, LocalOK
  <2>u. UNCHANGED <<db, cache, lost>>
    BY <1>4 DEF PostForm
  <2>1. CASE RenderAdmin(w)
    BY <2>u, <2>1, RenderAdminOK, RequestOnly
  <2>2. CASE Finish(w)
    BY <2>u, <2>2, FinishOK, RequestOnly
  <2>3. ASSUME NEW t \in Texts, NEW change \in Flag, NEW now \in Times,
               NEW add \in SUBSET (Existing \ req[w].inUse), NEW del \in SUBSET req[w].inUse,
               PostSave(w, t, change, now, add, del)
        PROVE  Types'
    <3> DEFINE o == Flipped(req[w].open, change)
               op == IF req[w].post = 0 THEN "insert" ELSE "edit"
               r == [req[w] EXCEPT !.op = op, !.pc = "exec", !.text = t, !.change = change,
                                   !.now = now, !.add = add, !.del = del, !.open = o]
    <3>1. o \in Flag
      BY <1>r DEF Request, Flag, Flipped
    <3>2. req' = [req EXCEPT ![w] = r]
      BY <2>3 DEF PostSave
    <3>3. op \in {"insert", "edit"} /\ (op = "edit" => req[w].post \in PostId)
      BY <2>0
    <3>4. add \in SUBSET CatId /\ del \in SUBSET CatId
      BY <1>r DEF Request, Existing
    <3> HIDE DEF o, op
    <3>5. r \in Request
      BY <1>r, <3>1, <3>3, <3>4 DEF Request, WriterPcs, WriterOps
    <3>6. r.op = op /\ r.pc = "exec" /\ r.post = req[w].post /\ r.text = t /\ r.now = now
      BY <1>r DEF Request
    <3>7. LocalOK(r)
      <4> HIDE DEF r
      <4> QED BY <3>3, <3>6, WriterOK DEF WriterOps
    <3>8. ReqOK'
      <4> HIDE DEF r
      <4> QED BY <3>2, <3>5, <3>7, OneRequest
    <3> QED BY <2>u, <3>8, RequestOnly
  <2>4. ASSUME req[w].post # 0, req' = [req EXCEPT ![w].op = "remove", ![w].pc = "exec"]
        PROVE  Types'
    <3> DEFINE r == [req[w] EXCEPT !.op = "remove", !.pc = "exec"]
    <3>1. req' = [req EXCEPT ![w] = r]
      BY <2>4
    <3>2. r \in Request
      BY <1>r DEF Request, WriterPcs, WriterOps
    <3>3. r.op = "remove" /\ r.pc = "exec" /\ r.post = req[w].post
      BY <1>r DEF Request
    <3>4. LocalOK(r)
      <4> HIDE DEF r
      <4> QED BY <2>0, <2>4, <3>3, WriterOK DEF WriterOps
    <3>5. ReqOK'
      <4> HIDE DEF r
      <4> QED BY <3>1, <3>2, <3>4, OneRequest
    <3> QED BY <2>u, <3>5, RequestOnly
  <2> QED BY Zenon, <1>4, <2>1, <2>2, <2>3, <2>4 DEF PostForm
<1>5. CASE PostInsert(w)
  <2>1. TableOK' /\ CacheOK' /\ LostOK'
    BY <1>5 DEF PostInsert, TableOK, CacheOK, LostOK, NextIds
  <2>2. CASE Finish(w)
    BY <2>1, <2>2, FinishOK
  <2>3. CASE ~Finish(w)
    <3> DEFINE can == req[w].add \subseteq Existing
               X == IF can THEN InsertRises(req[w]) ELSE JoinRises(req[w], Existing)
               pc == IF can THEN "tx" ELSE "fail"
               n == nextId.post
               r == [req[w] EXCEPT !.pc = pc, !.post = n, !.rises = X]
    <3>1. EnterWrite(w, r) /\ ~(n > MaxPost)
      BY <1>5, <2>3 DEF PostInsert
    <3>2. req[w].op = "insert" /\ n \in PostId /\ X \in SUBSET Trigger
      <4>1. req[w].op = "insert"
        BY <1>5 DEF PostInsert, At
      <4>2. n \in Nat /\ n >= 1
        BY DEF TableOK, NextIds
      <4>3. n \in PostId
        BY <3>1, <4>2, IdAssumption DEF PostId
      <4>4. X \in SUBSET Trigger
        BY <1>r, RiseTypes
      <4> QED BY <4>1, <4>3, <4>4
    <3>p. pc \in {"tx", "fail"}
      OBVIOUS
    <3> HIDE DEF X, n, pc
    <3>3. r \in Request
      BY <1>r, <1>n, <3>2, <3>p DEF Request, WriterPcs
    <3>4. r.op = "insert" /\ r.pc = pc /\ r.post = n /\ r.text = req[w].text /\ r.now = req[w].now
      BY <1>r, <3>2 DEF Request
    <3> HIDE DEF r
    <3>5. LocalOK(r)
      <4>1. req[w].text \in Texts /\ req[w].now \in Times
        BY <1>r, <3>2 DEF LocalOK
      <4> QED BY <3>2, <3>4, <3>p, <4>1, WriterOK DEF WriterOps
    <3> QED BY <2>1, <3>1, <3>3, <3>5, EnterOK
  <2> QED BY <2>2, <2>3
<1>6. CASE PostInsertCommit(w)
  <2>0. req[w].op = "insert" /\ req[w].pc = "tx"
    BY <1>6 DEF PostInsertCommit, At
  <2>1. /\ req[w].text \in Texts /\ req[w].now \in Times /\ req[w].open \in Flag
        /\ req[w].post \in PostId
    BY <1>r, <2>0 DEF LocalOK, Request
  <2>2. posts' \in [PostId -> Post \cup {NoRow}]
    <3>1. [text |-> req[w].text, open |-> req[w].open, publish |-> req[w].now, count |-> 0] \in Post
      BY <2>1 DEF Post
    <3> QED BY <1>6, <3>1 DEF PostInsertCommit, TableOK
  <2>3. post2cat' \in [PostId -> [CatId -> Link \cup {NoRow}]]
    <3>1. [open |-> req[w].open, publish |-> req[w].now] \in Link
      BY <2>1 DEF Link
    <3> QED BY <1>6, <3>1 DEF PostInsertCommit, TableOK
  <2>4. TableOK' /\ CacheOK' /\ LostOK'
    BY <1>6, <2>2, <2>3 DEF PostInsertCommit, TableOK, CacheOK, LostOK
  <2>5. Finish(w) \/ RenderAdmin(w)
    BY <1>6 DEF PostInsertCommit
  <2> QED BY <2>4, <2>5, FinishOK, RenderAdminOK
<1>7. CASE PostRemove(w)
  <2>1. req[w].op = "remove" /\ req[w].pc = "exec"
    BY <1>7 DEF PostRemove, At
  <2>2. RemoveRises(req[w]) \in SUBSET Trigger
    BY <2>1, <1>r, RiseTypes DEF LocalOK
  <2>3. /\ EnterWrite(w, [req[w] EXCEPT !.pc = "tx", !.rises = RemoveRises(req[w])])
        /\ UNCHANGED <<db, cache, lost>>
    BY <1>7 DEF PostRemove
  <2> QED BY <2>1, <2>2, <2>3, ExecOK, RequestOnly
<1>8. CASE PostRemoveCommit(w)
  <2>1. req[w].post \in PostId
    BY <1>8, <1>r DEF PostRemoveCommit, At, LocalOK
  <2>2. TableOK' /\ CacheOK' /\ LostOK' /\ Finish(w)
    BY <1>8, <2>1 DEF PostRemoveCommit, TableOK, CacheOK, LostOK
  <2> QED BY <2>2, FinishOK
<1>9. CASE PostEdit(w)
  <2>0. req[w].op = "edit" /\ req[w].pc = "exec"
    BY <1>9 DEF PostEdit, At
  <2>1. req[w].post \in PostId
    BY <2>0, <1>r DEF LocalOK
  <2>2. EditRises(req[w]) \in SUBSET Trigger /\ FailRises(req[w]) \in SUBSET Trigger
    BY <2>1, <1>r, RiseTypes
  <2>3. TableOK' /\ CacheOK'
    BY <1>9, TablesUnchanged, CacheUnchanged DEF PostEdit
  <2>4. LostOK'
    BY <1>9, <2>1 DEF PostEdit, LostOK
  <2>5. \/ Finish(w)
        \/ EnterWrite(w, [req[w] EXCEPT !.pc = "fail", !.rises = FailRises(req[w])])
        \/ EnterWrite(w, [req[w] EXCEPT !.pc = "tx", !.rises = EditRises(req[w])])
    BY <1>9 DEF PostEdit
  <2> QED BY <2>0, <2>2, <2>3, <2>4, <2>5, FinishOK, ExecOK
<1>10. CASE PostEditCommit(w)
  <2> DEFINE r == req[w]
  <2>0. r.op = "edit" /\ r.pc = "tx"
    BY <1>10 DEF PostEditCommit, At
  <2>1. /\ r.text \in Texts /\ r.now \in Times /\ r.open \in Flag /\ r.post \in PostId
    BY <1>r, <2>0 DEF LocalOK, Request
  <2>2. CacheOK' /\ LostOK' /\ ReqOK'
    BY <1>10, RenderAdminOK DEF PostEditCommit, CacheOK, LostOK
  <2>3. CASE posts[r.post] = NoRow
    BY <1>10, <2>2, <2>3 DEF PostEditCommit, TableOK
  <2>4. CASE posts[r.post] # NoRow
    <3>1. EditedPost(r) \in Post
      BY <2>1, <2>4 DEF EditedPost, TableOK, Post
    <3>2. ASSUME NEW c \in CatId PROVE EditedLink(r, c) \in Link \cup {NoRow}
      <4>1. post2cat[r.post][c] \in Link \cup {NoRow}
        BY <2>1 DEF TableOK
      <4>2. EditedPost(r).publish \in Times
        BY <3>1 DEF Post
      <4> QED BY <2>1, <4>1, <4>2 DEF EditedLink, Link
    <3>3. posts' \in [PostId -> Post \cup {NoRow}]
      BY <1>10, <2>4, <3>1 DEF PostEditCommit, TableOK
    <3>4. post2cat' \in [PostId -> [CatId -> Link \cup {NoRow}]]
      BY <1>10, <2>4, <3>2 DEF PostEditCommit, TableOK
    <3>5. TableOK'
      BY <1>10, <3>3, <3>4 DEF PostEditCommit, TableOK
    <3> QED BY <2>2, <3>5
  <2> QED BY <2>3, <2>4
<1> QED BY <1>1, <1>2, <1>3, <1>4, <1>5, <1>6, <1>7, <1>8, <1>9, <1>10 DEF PostAdminStep

(* A count of comments is a number. *)
LEMMA RecountType == ASSUME NEW p, NEW table PROVE Recount(p, table) \in Nat
<1>1. IsFiniteSet(CommentId)
  BY IdAssumption, FS_Interval DEF CommentId
<1>2. {k \in CommentId : table[k] # NoRow /\ table[k].post = p} \subseteq CommentId
  OBVIOUS
<1> QED BY <1>1, <1>2, FS_Subset, FS_CardinalityType DEF Recount

(* Every step of the handlers of comments keeps the types. *)
LEMMA CommentTypes ==
  ASSUME Types, CommentCountExact, TxHolds, NEW w \in Workers,
         Postback(w) \/ CommentStart(w) \/ CommentStep(w)
  PROVE  Types'
<1> USE DEF Types
<1>r. req[w] \in Request /\ LocalOK(req[w])
  BY DEF ReqOK, LocalsOK
<1>n. PostId \subseteq Nat /\ CommentId \subseteq Nat /\ 0 \in Nat
  BY DEF PostId, CommentId
<1>v. /\ "render_post" \in ReaderOps /\ "row" \in ReaderPcs
      /\ "render_post" \in PostViews /\ "render_post" \notin PageViews
  BY DEF ReaderOps, ReaderPcs, PostViews, PageViews
<1>1. CASE Postback(w)
  <2>u. UNCHANGED <<db, cache, lost>>
    BY <1>1 DEF Postback
  <2>1. PICK p \in PostId, z \in Spellings, t \in Texts :
          \/ Begin(w, "render_post", "row", p, z)
          \/ req' = [req EXCEPT ![w] = [Idle EXCEPT !.op = "send", !.pc = "select",
                        !.id = p, !.zeros = z, !.post = p, !.text = t]]
    BY <1>1 DEF Postback
  <2>2. CASE Begin(w, "render_post", "row", p, z)
    BY <1>n, <1>v, <2>u, <2>2, BeginOK, RequestOnly
  <2>3. CASE ~Begin(w, "render_post", "row", p, z)
    <3> DEFINE r == [Idle EXCEPT !.op = "send", !.pc = "select",
                        !.id = p, !.zeros = z, !.post = p, !.text = t]
    <3>1. req' = [req EXCEPT ![w] = r]
      BY <2>1, <2>3
    <3>2. r \in Request
      BY <1>n, IdleType DEF Request, WriterOps, WriterPcs
    <3>3. r.op = "send" /\ r.pc = "select" /\ r.id = p /\ r.post = p /\ r.text = t
      BY DEF Idle
    <3> HIDE DEF r
    <3>4. LocalOK(r)
      BY <3>3 DEF LocalOK, PostViews, PageViews, ReaderPcs
    <3> QED BY <2>u, <3>1, <3>2, <3>4, OneRequest, RequestOnly
  <2> QED BY <2>2, <2>3
<1>2. CASE SendSelect(w)
  <2>u. UNCHANGED <<db, cache, lost>> /\ req[w].op = "send"
    BY <1>2 DEF SendSelect, At
  <2>1. \/ Goto(w, "exec") \/ Begin(w, "render_post", "row", req[w].id, req[w].zeros) \/ Finish(w)
    BY <1>2 DEF SendSelect
  <2>2. CASE Goto(w, "exec")
    <3> DEFINE r == [req[w] EXCEPT !.pc = "exec"]
    <3>1. req' = [req EXCEPT ![w] = r]
      BY <2>2 DEF Goto
    <3>2. r \in Request /\ r.op = "send" /\ r.pc = "exec" /\ r.id = req[w].id
          /\ r.post = req[w].post /\ r.text = req[w].text
      BY <1>r, <2>u DEF Request, WriterPcs
    <3> HIDE DEF r
    <3>3. LocalOK(r)
      BY <1>r, <2>u, <3>2 DEF LocalOK, ReaderPcs, PostViews, PageViews
    <3> QED BY <2>u, <3>1, <3>2, <3>3, OneRequest, RequestOnly
  <2>3. CASE Begin(w, "render_post", "row", req[w].id, req[w].zeros)
    <3>1. req[w].id \in PostId /\ req[w].zeros \in Spellings
      BY <1>r, <2>u DEF LocalOK, Request
    <3> QED BY <1>n, <1>v, <2>u, <2>3, <3>1, BeginOK, RequestOnly
  <2> QED BY <2>1, <2>2, <2>3, <2>u, FinishOK, RequestOnly
<1>3. CASE SendInsert(w)
  <2>1. TableOK' /\ CacheOK' /\ LostOK'
    BY <1>3 DEF SendInsert, TableOK, CacheOK, LostOK, NextIds
  <2>2. CASE Finish(w)
    BY <2>1, <2>2, FinishOK
  <2>3. CASE ~Finish(w)
    <3> DEFINE X == SendRises(req[w])
               n == nextId.comment
               r == [req[w] EXCEPT !.pc = "tx", !.comment = n, !.rises = X]
    <3>1. EnterWrite(w, r) /\ ~(n > MaxComment) /\ req[w].op = "send"
      BY <1>3, <2>3 DEF SendInsert, At
    <3>2. req[w].post \in PostId /\ req[w].id \in PostId /\ req[w].text \in Texts
      BY <3>1, <1>r DEF LocalOK
    <3>3. n \in CommentId /\ X \in SUBSET Trigger
      <4>1. n \in Nat \ {0}
        BY DEF TableOK, NextIds
      <4> QED BY <3>1, <3>2, <4>1, <1>r, RiseTypes, IdAssumption DEF CommentId
    <3> HIDE DEF X, n
    <3>4. r \in Request
      BY <1>r, <1>n, <3>3 DEF Request, WriterPcs
    <3>5. /\ r.op = "send" /\ r.pc = "tx" /\ r.post = req[w].post /\ r.text = req[w].text
          /\ r.id = req[w].id /\ r.comment = n
      BY <1>r, <3>1 DEF Request
    <3> HIDE DEF r
    <3>6. LocalOK(r)
      BY <3>2, <3>3, <3>5, WriterOK DEF WriterOps
    <3> QED BY <2>1, <3>1, <3>4, <3>6, EnterOK
  <2> QED BY <2>2, <2>3
<1>4. CASE SendCommit(w)
  <2>0. req[w].op = "send" /\ req[w].pc = "tx"
    BY <1>4 DEF SendCommit, At
  <2>1. /\ req[w].post \in PostId /\ req[w].id \in PostId /\ req[w].text \in Texts
        /\ req[w].comment \in CommentId /\ req[w].zeros \in Spellings
    BY <2>0, <1>r DEF LocalOK, Request
  <2>2. posts[req[w].post] # NoRow
    BY <2>0 DEF TxHolds, SendHolds, At
  <2>3. comments' \in [CommentId -> Comment \cup {NoRow}]
    BY <1>4, <2>1 DEF SendCommit, TableOK, Comment
  <2>4. posts' \in [PostId -> Post \cup {NoRow}]
    <3> DEFINE n == Recount(req[w].post, comments')
    <3>1. n \in Nat
      BY RecountType
    <3>2. posts' = [posts EXCEPT ![req[w].post].count = n]
      BY <1>4 DEF SendCommit
    <3> HIDE DEF n
    <3> QED BY <2>1, <2>2, <3>1, <3>2 DEF TableOK, Post
  <2>5. TableOK' /\ CacheOK' /\ LostOK'
    BY <1>4, <2>3, <2>4 DEF SendCommit, TableOK, CacheOK, LostOK
  <2>6. ReqOK'
    <3>1. Begin(w, "render_post", "row", req[w].id, req[w].zeros)
      BY <1>4 DEF SendCommit
    <3> QED BY <1>n, <1>v, <2>1, <3>1, BeginOK
  <2> QED BY <2>5, <2>6
<1>5. CASE CommentStart(w)
  <2>u. UNCHANGED <<db, cache, lost>>
    BY <1>5 DEF CommentStart
  <2>1. PICK k \in CommentId, op \in {"erase", "amend"}, t \in Texts :
          /\ comments[k] # NoRow
          /\ req' = [req EXCEPT ![w] = [Idle EXCEPT !.op = op, !.pc = "exec",
                       !.comment = k, !.post = comments[k].post,
                       !.text = IF op = "amend" THEN t ELSE NoRow]]
    BY <1>5 DEF CommentStart
  <2> DEFINE p == comments[k].post
             x == IF op = "amend" THEN t ELSE NoRow
             r == [Idle EXCEPT !.op = op, !.pc = "exec", !.comment = k, !.post = p, !.text = x]
  <2>2. p \in PostId /\ x \in Texts \cup {NoRow} /\ (op = "amend" => x \in Texts)
    BY <2>1 DEF TableOK, Comment
  <2>3. req' = [req EXCEPT ![w] = r]
    BY <2>1
  <2> HIDE DEF p, x
  <2>4. r \in Request
    BY <1>n, <2>2, IdleType DEF Request, WriterOps, WriterPcs
  <2>5. r.op = op /\ r.pc = "exec" /\ r.comment = k /\ r.post = p /\ r.text = x
    BY DEF Idle
  <2> HIDE DEF r
  <2>6. LocalOK(r)
    BY <2>2, <2>5, WriterOK DEF WriterOps
  <2> QED BY <2>u, <2>3, <2>4, <2>6, OneRequest, RequestOnly
<1>6. CASE CommentExec(w)
  <2>1. req[w].op \in {"erase", "amend"} /\ req[w].pc = "exec"
    BY <1>6 DEF CommentExec
  <2>2. CommentRises(req[w]) \in SUBSET Trigger
    BY <2>1, <1>r, RiseTypes DEF LocalOK
  <2>3. /\ EnterWrite(w, [req[w] EXCEPT !.pc = "tx", !.rises = CommentRises(req[w])])
        /\ UNCHANGED <<db, cache, lost>>
    BY <1>6 DEF CommentExec
  <2> QED BY <2>1, <2>2, <2>3, ExecOK, RequestOnly
<1>7. CASE EraseCommit(w)
  <2>1. req[w].post \in PostId /\ req[w].comment \in CommentId
    BY <1>7, <1>r DEF EraseCommit, At, LocalOK
  <2>2. posts' \in [PostId -> Post \cup {NoRow}]
    <3> DEFINE n == Recount(req[w].post, comments')
    <3>1. n \in Nat
      BY RecountType
    <3>2. posts' = IF posts[req[w].post] = NoRow THEN posts
                   ELSE [posts EXCEPT ![req[w].post].count = n]
      BY <1>7 DEF EraseCommit
    <3> HIDE DEF n
    <3> QED BY <2>1, <3>1, <3>2 DEF TableOK, Post
  <2>3. TableOK' /\ CacheOK' /\ LostOK' /\ Finish(w)
    BY <1>7, <2>1, <2>2 DEF EraseCommit, TableOK, CacheOK, LostOK
  <2> QED BY <2>3, FinishOK
<1>8. CASE AmendCommit(w)
  <2>1. req[w].text \in Texts /\ req[w].comment \in CommentId
    BY <1>8, <1>r DEF AmendCommit, At, LocalOK
  <2>2. TableOK' /\ CacheOK' /\ LostOK' /\ Finish(w)
    BY <1>8, <2>1 DEF AmendCommit, TableOK, CacheOK, LostOK, Comment
  <2> QED BY <2>2, FinishOK
<1> QED BY <1>1, <1>2, <1>3, <1>4, <1>5, <1>6, <1>7, <1>8 DEF CommentStep

(* The statement of a category or of a page is committed, its triggers not yet risen. *)
LEMMA AfterOK ==
  ASSUME ReqOK, NEW w \in Workers, NEW op \in {"form", "page"}, NEW X \in SUBSET Trigger,
         AfterCommit(w, op, X)
  PROVE  ReqOK'
<1> DEFINE r == [req[w] EXCEPT !.op = op, !.pc = "after", !.rises = X]
<1>1. req[w] \in Request
  BY DEF ReqOK
<1>2. r \in Request /\ r.op = op /\ r.pc = "after"
  BY <1>1 DEF Request, WriterPcs, WriterOps
<1>3. EnterWrite(w, r)
  BY DEF AfterCommit
<1> HIDE DEF r
<1>4. LocalOK(r)
  BY <1>2, WriterOK DEF WriterOps
<1> QED BY <1>2, <1>3, <1>4, EnterOK

(* Every step of the administration of the site keeps the types. *)
LEMMA SiteAdminTypes ==
  ASSUME Types, NEW w \in Workers,
         \/ CatAdd(w) \/ CatRename(w) \/ CatRemove(w) \/ PageInsert(w) \/ PageIsOpen(w)
         \/ OptionsExec(w) \/ AdminForm(w) \/ ClearCache(w) \/ NewLanguage(w)
         \/ SiteAdminStep(w)
  PROVE  Types'
<1> USE DEF Types
<1>r. req[w] \in Request /\ LocalOK(req[w])
  BY DEF ReqOK, LocalsOK
<1>n. PageId \subseteq Nat /\ CatId \subseteq Nat /\ 0 \in Nat
  BY DEF PageId, CatId
<1>t. \A c \in CatId, i \in PageId : CatRises(c) \in SUBSET Trigger /\ PageRises(i) \in SUBSET Trigger
  BY <1>r, RiseTypes
<1>s. {CatsTrigger} \in SUBSET Trigger /\ {PagesTrigger} \in SUBSET Trigger /\ {OptionsKey} \in SUBSET Trigger
  BY KeyTypes
<1>1. CASE CatAdd(w)
  <2>1. nextId.cat \in CatId
    BY <1>1, IdAssumption DEF CatAdd, TableOK, NextIds, CatId
  <2>2. TableOK' /\ CacheOK' /\ LostOK'
    BY <1>1, <2>1 DEF CatAdd, TableOK, CacheOK, LostOK, NextIds
  <2>3. AfterCommit(w, "form", {CatsTrigger})
    BY <1>1 DEF CatAdd
  <2> QED BY <1>s, <2>2, <2>3, AfterOK
<1>2. CASE CatRename(w)
  <2>1. PICK c \in CatId, name \in Texts :
          /\ cats' = [cats EXCEPT ![c] = IF cats[c] = NoRow THEN NoRow ELSE name]
          /\ AfterCommit(w, "form", CatRises(c))
    BY <1>2 DEF CatRename
  <2>2. TableOK' /\ CacheOK' /\ LostOK'
    BY <1>2, <2>1 DEF CatRename, TableOK, CacheOK, LostOK
  <2>3. CatRises(c) \in SUBSET Trigger
    BY <1>r, RiseTypes
  <2> QED BY <2>1, <2>2, <2>3, AfterOK
<1>3. CASE CatRemove(w)
  <2>u. UNCHANGED <<db, cache, lost>>
    BY <1>3 DEF CatRemove
  <2>1. CASE RenderAdmin(w)
    BY <2>u, <2>1, RenderAdminOK, RequestOnly
  <2>2. CASE ~RenderAdmin(w)
    <3>1. PICK c \in CatId, x \in Flag :
            req' = [req EXCEPT ![w] = [Idle EXCEPT !.op = "cat_remove", !.pc = "exec",
                                                   !.id = c, !.change = x]]
      BY <1>3, <2>2 DEF CatRemove, Flag
    <3> DEFINE r == [Idle EXCEPT !.op = "cat_remove", !.pc = "exec", !.id = c, !.change = x]
    <3>2. r \in Request
      BY <1>n, IdleType DEF Request, WriterOps, WriterPcs
    <3>3. r.op = "cat_remove" /\ r.pc = "exec" /\ r.id = c
      BY DEF Idle
    <3>4. req' = [req EXCEPT ![w] = r]
      BY <3>1
    <3> HIDE DEF r
    <3>5. LocalOK(r)
      BY <3>3, WriterOK DEF WriterOps
    <3> QED BY <2>u, <3>2, <3>4, <3>5, OneRequest, RequestOnly
  <2> QED BY <2>1, <2>2
<1>4. CASE CatDelete(w)
  <2>1. req[w].id \in CatId
    BY <1>4, <1>r DEF CatDelete, At, LocalOK
  <2>2. TableOK' /\ CacheOK' /\ LostOK'
    <3> DEFINE c == req[w].id
    <3>1. \/ UNCHANGED <<cats, post2cat>>
          \/ /\ cats' = [cats EXCEPT ![c] = NoRow]
             /\ post2cat' = [p \in PostId |-> [post2cat[p] EXCEPT ![c] = NoRow]]
      BY <1>4 DEF CatDelete
    <3> HIDE DEF c
    <3>2. /\ cats' \in [CatId -> Texts \cup {NoRow}]
          /\ post2cat' \in [PostId -> [CatId -> Link \cup {NoRow}]]
      BY <3>1 DEF TableOK
    <3> QED BY <1>4, <3>2 DEF CatDelete, TableOK, CacheOK, LostOK
  <2>3. Finish(w) \/ AfterCommit(w, "form", CatRises(req[w].id))
    BY <1>4 DEF CatDelete
  <2>4. CatRises(req[w].id) \in SUBSET Trigger
    BY <1>r, <2>1, RiseTypes
  <2> QED BY <2>2, <2>3, <2>4, FinishOK, AfterOK
<1>5. CASE PageInsert(w)
  <2>1. nextId.page \in PageId
    BY <1>5, IdAssumption DEF PageInsert, TableOK, NextIds, PageId
  <2>2. PICK t \in Texts, open \in Flag :
          pages' = [pages EXCEPT ![nextId.page] = [text |-> t, open |-> open]]
    BY <1>5 DEF PageInsert
  <2>3. TableOK' /\ CacheOK' /\ LostOK'
    BY <1>5, <2>1, <2>2 DEF PageInsert, TableOK, CacheOK, LostOK, NextIds, Page
  <2>4. AfterCommit(w, "page", {PagesTrigger}) \/ RenderAdmin(w) \/ Finish(w)
    BY <1>5 DEF PageInsert
  <2> QED BY <1>s, <2>3, <2>4, AfterOK, FinishOK, RenderAdminOK
<1>6. CASE PageIsOpen(w)
  <2>u. UNCHANGED <<db, cache, lost>>
    BY <1>6 DEF PageIsOpen
  <2>1. PICK i \in PageId :
          /\ pages[i] # NoRow
          /\ req' = [req EXCEPT ![w] = [Idle EXCEPT !.op = "page", !.pc = "exec",
                                          !.id = i, !.open = pages[i].open]]
    BY <1>6 DEF PageIsOpen
  <2> DEFINE o == pages[i].open
             r == [Idle EXCEPT !.op = "page", !.pc = "exec", !.id = i, !.open = o]
  <2>2. o \in Flag
    BY <2>1 DEF TableOK, Page
  <2>3. req' = [req EXCEPT ![w] = r]
    BY <2>1
  <2> HIDE DEF o
  <2>4. r \in Request
    BY <1>n, <2>2, IdleType DEF Request, WriterOps, WriterPcs
  <2>5. r.op = "page" /\ r.pc = "exec" /\ r.id = i
    BY DEF Idle
  <2> HIDE DEF r
  <2>6. LocalOK(r)
    BY <2>5, WriterOK DEF WriterOps
  <2> QED BY <2>u, <2>3, <2>4, <2>6, OneRequest, RequestOnly
<1>7. CASE PageDelete(w)
  <2>1. req[w].id \in PageId
    BY <1>7, <1>r DEF PageDelete, At, LocalOK
  <2>2. TableOK' /\ CacheOK'
    BY <1>7, <2>1 DEF PageDelete, TableOK, CacheOK
  <2>3. LostOK'
    BY <1>7, <2>1 DEF PageDelete, PageLost, LostOK
  <2>4. Finish(w) \/ AfterCommit(w, "page", PageRises(req[w].id))
    BY <1>7 DEF PageDelete
  <2>5. PageRises(req[w].id) \in SUBSET Trigger
    BY <1>r, <2>1, RiseTypes
  <2> QED BY <2>2, <2>3, <2>4, <2>5, FinishOK, AfterOK
<1>8. CASE PageUpdate(w)
  <2>1. req[w].id \in PageId /\ req[w].open \in Flag
    BY <1>8, <1>r DEF PageUpdate, At, LocalOK, Request
  <2>2. PICK t \in Texts, change \in Flag :
          pages' = [pages EXCEPT ![req[w].id] =
                      IF @ = NoRow THEN NoRow
                      ELSE [text |-> t, open |-> Flipped(req[w].open, change)]]
    BY <1>8 DEF PageUpdate
  <2> DEFINE status == Flipped(req[w].open, change)
  <2>s. status \in Flag
    BY <2>1 DEF Flag, Flipped
  <2> HIDE DEF status
  <2>3. TableOK' /\ CacheOK'
    <3>1. [text |-> t, open |-> status] \in Page
      BY <2>s DEF Page
    <3>2. pages' \in [PageId -> Page \cup {NoRow}]
      BY <2>1, <2>2, <3>1 DEF TableOK, status
    <3> QED BY <1>8, <3>2 DEF PageUpdate, TableOK, CacheOK
  <2>4. LostOK'
    BY <1>8, <2>1 DEF PageUpdate, PageLost, LostOK
  <2>5. \/ Finish(w) \/ RenderAdmin(w)
        \/ \E op \in {"form", "page"} : AfterCommit(w, op, PageRises(req[w].id))
    BY <1>8 DEF PageUpdate, PageShown
  <2>6. PageRises(req[w].id) \in SUBSET Trigger
    BY <1>r, <2>1, RiseTypes
  <2> QED BY <2>3, <2>4, <2>5, <2>6, FinishOK, RenderAdminOK, AfterOK
<1>9. CASE OptionsExec(w)
  <2>u. UNCHANGED <<db, cache, lost>>
    BY <1>9 DEF OptionsExec
  <2>1. PICK t \in Texts :
          EnterWrite(w, [Idle EXCEPT !.op = "options", !.pc = "tx", !.text = t,
                                     !.rises = {OptionsKey}])
    BY <1>9 DEF OptionsExec
  <2> DEFINE r == [Idle EXCEPT !.op = "options", !.pc = "tx", !.text = t, !.rises = {OptionsKey}]
  <2>2. r \in Request
    BY <1>s, IdleType DEF Request, WriterOps, WriterPcs
  <2>3. r.op = "options" /\ r.pc = "tx" /\ r.text = t
    BY DEF Idle
  <2>4. EnterWrite(w, r)
    BY <2>1
  <2> HIDE DEF r
  <2>5. LocalOK(r)
    BY <2>3, WriterOK DEF WriterOps
  <2> QED BY <2>u, <2>2, <2>4, <2>5, EnterOK, RequestOnly
<1>10. CASE OptionsCommit(w)
  <2>1. req[w].text \in Texts
    BY <1>10, <1>r DEF OptionsCommit, At, LocalOK
  <2>2. TableOK' /\ CacheOK' /\ LostOK' /\ RenderAdmin(w)
    BY <1>10, <2>1 DEF OptionsCommit, TableOK, CacheOK, LostOK
  <2> QED BY <2>2, RenderAdminOK
<1>11. CASE AdminForm(w)
  BY <1>11, RenderAdminOK, RequestOnly DEF AdminForm
<1>12. CASE ClearCache(w)
  BY <1>12, ClearOK, RenderAdminOK, RequestAndCache DEF ClearCache
<1>13. CASE NewLanguage(w)
  <2>1. ReqOK'
    BY <1>13 DEF NewLanguage, ReqOK, LocalsOK
  <2> QED BY <1>13, <2>1, ClearOK, RequestAndCache DEF NewLanguage
<1> QED BY <1>1, <1>2, <1>3, <1>4, <1>5, <1>6, <1>7, <1>8, <1>9, <1>10, <1>11, <1>12, <1>13
        DEF SiteAdminStep

(* So do a rise, the end of a request, and what goes wrong. *)
LEMMA OtherTypes ==
  ASSUME Types, NEW w \in Workers,
         Rise(w) \/ AfterRises(w) \/ Rollback(w) \/ LockTimeout(w) \/ Restart
  PROVE  Types'
<1> USE DEF Types
<1>r. req[w] \in Request /\ LocalOK(req[w])
  BY DEF ReqOK, LocalsOK
<1>1. CASE Rise(w)
  <2>1. PICK t \in req[w].rises : CacheRise(t) /\ req' = [req EXCEPT ![w].rises = @ \ {t}]
    BY <1>1 DEF Rise
  <2> DEFINE X == req[w].rises \ {t}
             r == [req[w] EXCEPT !.rises = X]
  <2>2. X \in SUBSET Trigger /\ req' = [req EXCEPT ![w] = r]
    BY <1>r, <2>1 DEF Request
  <2> HIDE DEF X
  <2>3. /\ r \in Request /\ r.op = req[w].op /\ r.pc = req[w].pc /\ r.id = req[w].id
        /\ r.post = req[w].post /\ r.text = req[w].text /\ r.now = req[w].now
        /\ r.comment = req[w].comment
    BY <1>r, <2>2 DEF Request
  <2> HIDE DEF r
  <2>4. LocalOK(r)
    BY <1>r, <2>3, SameLocal
  <2>5. UNCHANGED <<db, lost>>
    BY <1>1 DEF Rise
  <2> QED BY <2>1, <2>2, <2>3, <2>4, <2>5, OneRequest, RiseOK, RequestAndCache
<1>2. CASE AfterRises(w)
  BY <1>2, RenderAdminOK, FinishOK, RequestOnly DEF AfterRises
<1>3. CASE Rollback(w)
  BY <1>3, FinishOK, RequestOnly DEF Rollback
<1>4. CASE LockTimeout(w)
  BY <1>4, FinishOK, RequestOnly DEF LockTimeout
<1>5. CASE Restart
  <2>1. ReqOK'
    BY <1>5, IdleType, IdleLocal DEF Restart, ReqOK, LocalsOK
  <2> QED BY <1>5, <2>1, ClearOK, RequestAndCache DEF Restart
<1> QED BY <1>1, <1>2, <1>3, <1>4, <1>5

-----------------------------------------------------------------------------
(* What TableInv says of the tables, and what of the transactions. *)
Facts == /\ FreshIds /\ PublishSync /\ CommentCountExact
         /\ StatusSplitNeedsStaleEdit /\ LinksHaveCategories
TxInv == KnownIds /\ PostLockExclusive /\ TxHolds /\ SendAlone

(* TableInv, in the parts that the proofs below treat one at a time. *)
LEMMA InvParts == TableInv <=> Types /\ Facts /\ TxInv
BY TypeParts DEF TableInv, Types, Facts, TxInv

-----------------------------------------------------------------------------
(* Frames.                                                                 *)

(* The other requests keep what the invariant says about them. *)
Others(w) == \A v \in Workers \ {w} :
    /\ req'[v].op = req[v].op /\ req'[v].pc = req[v].pc
    /\ req'[v].post = req[v].post /\ req'[v].comment = req[v].comment
    /\ req'[v].add = req[v].add /\ req'[v].open = req[v].open
    /\ req'[v].change = req[v].change

(* Nothing but the request of w itself changes. *)
LEMMA OthersOne ==
  ASSUME ReqOK, NEW w \in Workers, NEW r, req' = [req EXCEPT ![w] = r]
  PROVE  Others(w) /\ req'[w] = r
BY DEF ReqOK, Others

(* A request that begins to write makes the responses under way unclean. *)
LEMMA OthersEnter ==
  ASSUME ReqOK, NEW w \in Workers, NEW r, EnterWrite(w, r)
  PROVE  Others(w) /\ req'[w] = r
<1>1. req'[w] = r
  BY DEF EnterWrite
<1>2. ASSUME NEW v \in Workers \ {w}
      PROVE  /\ req'[v].op = req[v].op /\ req'[v].pc = req[v].pc
             /\ req'[v].post = req[v].post /\ req'[v].comment = req[v].comment
             /\ req'[v].add = req[v].add /\ req'[v].open = req[v].open
             /\ req'[v].change = req[v].change
  <2>1. req[v] \in Request
    BY DEF ReqOK
  <2>2. req'[v] = req[v] \/ req'[v] = [req[v] EXCEPT !.clean = 0]
    BY DEF EnterWrite
  <2> QED BY <2>1, <2>2 DEF Request
<1> QED BY <1>1, <1>2 DEF Others

(* A request that holds nothing and has read nothing. *)
Calm(r) == r.op \in {"idle", "form", "cat_remove", "page", "options"} \cup ReaderOps

(* The ways in which a request ends, or goes on to its response. *)
LEMMA CalmSteps ==
  ASSUME ReqOK, NEW w \in Workers
  PROVE  /\ Finish(w) => Others(w) /\ Calm(req'[w])
         /\ RenderAdmin(w) => Others(w) /\ Calm(req'[w])
         /\ \A op \in ReaderOps : \A pc, id, z : Begin(w, op, pc, id, z) => Others(w) /\ Calm(req'[w])
         /\ \A op \in {"form", "page"} : \A X : AfterCommit(w, op, X) => Others(w) /\ Calm(req'[w])
<1>1. ASSUME Finish(w) PROVE Others(w) /\ Calm(req'[w])
  <2>1. Others(w) /\ req'[w] = Idle
    BY <1>1, OthersOne DEF Finish
  <2> QED BY <2>1 DEF Calm, Idle
<1>2. ASSUME NEW op \in ReaderOps, NEW pc, NEW id, NEW z, Begin(w, op, pc, id, z)
      PROVE  Others(w) /\ Calm(req'[w])
  <2> DEFINE r == [Idle EXCEPT !.op = op, !.pc = pc, !.id = id, !.zeros = z,
                    !.clean = IF \A v \in Workers \ {w} : ~Writing(v) THEN 1 ELSE 0]
  <2>1. req' = [req EXCEPT ![w] = r]
    BY <1>2 DEF Begin
  <2>2. r.op = op
    BY DEF Idle
  <2> HIDE DEF r
  <2>3. Others(w) /\ req'[w] = r
    BY <2>1, OthersOne
  <2> QED BY <2>2, <2>3 DEF Calm
<1>3. RenderAdmin(w) => Others(w) /\ Calm(req'[w])
  <2>1. "admin_page" \in ReaderOps
    BY DEF ReaderOps
  <2> QED BY <1>2, <2>1 DEF RenderAdmin
<1>4. ASSUME NEW op \in {"form", "page"}, NEW X, AfterCommit(w, op, X)
      PROVE  Others(w) /\ Calm(req'[w])
  <2> DEFINE r == [req[w] EXCEPT !.op = op, !.pc = "after", !.rises = X]
  <2>1. EnterWrite(w, r)
    BY <1>4 DEF AfterCommit
  <2>2. r.op = op
    BY DEF ReqOK, Request
  <2> HIDE DEF r
  <2>3. Others(w) /\ req'[w] = r
    BY <2>1, OthersEnter
  <2> QED BY <2>2, <2>3 DEF Calm
<1> QED BY <1>1, <1>2, <1>3, <1>4

(* Ids and the record of outdated forms only grow. *)
Forward == /\ nextId.post <= nextId'.post /\ nextId.comment <= nextId'.comment
           /\ lost \subseteq lost'

(* A step that writes none of the tables the properties are about. *)
LEMMA FactsFrame ==
  ASSUME Types, Types', Facts, UNCHANGED <<posts, post2cat, comments, cats>>, Forward
  PROVE  Facts'
<1>n. /\ nextId.post \in Nat /\ nextId'.post \in Nat
      /\ nextId.comment \in Nat /\ nextId'.comment \in Nat
  BY DEF Types, TableOK, NextIds
<1>1. FreshIds'
  BY <1>n DEF Facts, FreshIds, Forward, PostId, CommentId
<1>2. PublishSync' /\ LinksHaveCategories'
  BY DEF Facts, PublishSync, LinksHaveCategories, Linked, Existing
<1>3. CommentCountExact'
  BY DEF Facts, CommentCountExact, CommentsOf
<1>4. StatusSplitNeedsStaleEdit'
  BY DEF Facts, StatusSplitNeedsStaleEdit, Linked, Forward
<1> QED BY <1>1, <1>2, <1>3, <1>4 DEF Facts

(* What the other transactions rely on is left alone. *)
Keeps(v) ==
    /\ At(v, "insert", "tx") =>
         posts'[req[v].post] = NoRow /\ req[v].add \subseteq Existing'
    /\ At(v, "edit", "tx") /\ posts'[req[v].post] # NoRow =>
         /\ posts[req[v].post] # NoRow /\ req[v].add \subseteq Existing'
         /\ posts'[req[v].post].open = posts[req[v].post].open
    /\ At(v, "send", "tx") =>
         posts'[req[v].post] # NoRow /\ comments'[req[v].comment] = NoRow
    /\ req[v].op \in {"erase", "amend"} /\ comments'[req[v].comment] # NoRow =>
         comments'[req[v].comment].post = req[v].post

(* They are, when the tables are not written. *)
LEMMA KeepsSame ==
  ASSUME TxInv, NEW v \in Workers, UNCHANGED <<posts, comments, cats>> PROVE Keeps(v)
BY DEF TxInv, TxHolds, InsertHolds, EditHolds, SendHolds, CommentHolds, Keeps, Existing

(* What a request has to guarantee when it gets hold of something itself. *)
Enters(w) ==
    /\ Known(req[w])' /\ InsertHolds(w)' /\ EditHolds(w)' /\ SendHolds(w)' /\ CommentHolds(w)'
    /\ \A v \in Workers \ {w}, p \in PostId : ~(LocksPost(w, p)' /\ LocksPost(v, p))
    /\ \A v \in Workers \ {w} :
         /\ At(w, "send", "tx")' /\ (At(v, "send", "tx") \/ req[v].op \in {"erase", "amend"})
              => req'[w].comment # req[v].comment
         /\ At(v, "send", "tx") /\ (At(w, "send", "tx")' \/ req'[w].op \in {"erase", "amend"})
              => req'[w].comment # req[v].comment

(* The invariant of the transactions over a step of w. *)
LEMMA TxFrame ==
  ASSUME Types, Types', TxInv, NEW w \in Workers, Others(w), Enters(w), Forward,
         \A v \in Workers \ {w} : Keeps(v)
  PROVE  TxInv'
<1>n. /\ nextId.post \in Nat /\ nextId'.post \in Nat
      /\ nextId.comment \in Nat /\ nextId'.comment \in Nat
  BY DEF Types, TableOK, NextIds
<1>t. \A v \in Workers : req[v].post \in Nat /\ req[v].comment \in Nat
  BY DEF Types, ReqOK, Request
<1>1. KnownIds'
  <2> SUFFICES ASSUME NEW v \in Workers PROVE Known(req[v])'
    BY DEF KnownIds
  <2>1. CASE v = w
    BY <2>1 DEF Enters
  <2>2. CASE v # w
    <3>1. Known(req[v])
      BY DEF TxInv, KnownIds
    <3> QED BY <1>n, <1>t, <2>2, <3>1 DEF Known, Others, Forward
  <2> QED BY <2>1, <2>2
<1>o. ASSUME NEW v \in Workers \ {w}, NEW op, NEW pc PROVE At(v, op, pc)' <=> At(v, op, pc)
  BY DEF At, Others
<1>2. PostLockExclusive'
  <2> SUFFICES ASSUME NEW u \in Workers, NEW v \in Workers, NEW p \in PostId,
                      LocksPost(u, p)', LocksPost(v, p)'
               PROVE  u = v
    BY DEF PostLockExclusive
  <2>1. \A x \in Workers \ {w} : LocksPost(x, p)' => LocksPost(x, p)
    BY DEF Others, LocksPost, InTx
  <2> QED BY <2>1 DEF Enters, TxInv, PostLockExclusive
<1>3. TxHolds'
  <2> SUFFICES ASSUME NEW v \in Workers
               PROVE  (InsertHolds(v) /\ EditHolds(v) /\ SendHolds(v) /\ CommentHolds(v))'
    BY DEF TxHolds
  <2>1. CASE v = w
    BY <2>1 DEF Enters
  <2>2. CASE v # w
    <3>0. /\ InsertHolds(v) /\ EditHolds(v) /\ SendHolds(v) /\ CommentHolds(v) /\ Keeps(v)
          /\ req'[v].op = req[v].op /\ req'[v].pc = req[v].pc
          /\ req'[v].post = req[v].post /\ req'[v].comment = req[v].comment
          /\ req'[v].add = req[v].add /\ req'[v].open = req[v].open
          /\ req'[v].change = req[v].change
      BY <2>2 DEF TxInv, TxHolds, Others
    <3>1. InsertHolds(v)'
      BY <1>n, <1>t, <3>0 DEF InsertHolds, Keeps, Forward, At
    <3>2. EditHolds(v)'
      BY <3>0 DEF EditHolds, Keeps, Forward, At, WasOpen
    <3>3. SendHolds(v)'
      BY <1>n, <1>t, <3>0 DEF SendHolds, Keeps, Forward, At
    <3>4. CommentHolds(v)'
      BY <3>0 DEF CommentHolds, Keeps
    <3> QED BY <3>1, <3>2, <3>3, <3>4
  <2> QED BY <2>1, <2>2
<1>4. SendAlone'
  <2> SUFFICES ASSUME NEW u \in Workers, NEW v \in Workers, At(v, "send", "tx")',
                      At(u, "send", "tx")' \/ req'[u].op \in {"erase", "amend"},
                      req'[u].comment = req'[v].comment
               PROVE  u = v
    BY DEF SendAlone
  <2>1. \A x \in Workers \ {w} : /\ At(x, "send", "tx")' <=> At(x, "send", "tx")
                                 /\ req'[x].op = req[x].op /\ req'[x].comment = req[x].comment
    BY DEF Others, At
  <2> QED BY <2>1 DEF Enters, TxInv, SendAlone
<1> QED BY <1>1, <1>2, <1>3, <1>4 DEF TxInv

(* A request that holds nothing guarantees nothing. *)
LEMMA CalmEnters == ASSUME NEW w \in Workers, Calm(req'[w]) PROVE Enters(w)
<1>1. req'[w].op \notin {"insert", "edit", "remove", "send", "erase", "amend", "post"}
  BY DEF Calm, ReaderOps, PostViews, PageViews
<1> QED BY <1>1 DEF Enters, Known, InsertHolds, EditHolds, SendHolds, CommentHolds, At, LocksPost

(* A step that writes no table and ends, or goes on, without holding anything. *)
LEMMA CalmStep ==
  ASSUME Types, Types', Facts, TxInv, NEW w \in Workers, Others(w), Calm(req'[w]),
         UNCHANGED <<posts, post2cat, comments, cats>>, Forward
  PROVE  Facts' /\ TxInv'
BY FactsFrame, KeepsSame, CalmEnters, TxFrame

(* Unchanged counters and records are a special case. *)
LEMMA ForwardSame == ASSUME Types, UNCHANGED <<db, lost>> PROVE Forward
BY DEF Types, TableOK, NextIds, Forward, db

-----------------------------------------------------------------------------
(* One lemma for each component.                                           *)

(* The handlers that render write no table. *)
LEMMA ViewCalm ==
  ASSUME Types, NEW w \in Workers, ViewStep(w)
  PROVE  Others(w) /\ Calm(req'[w]) /\ UNCHANGED <<db, lost>>
<1>r. ReqOK /\ req \in [Workers -> Request] /\ req[w] \in Request /\ LocalOK(req[w])
  BY DEF Types, ReqOK, LocalsOK
<1>u. UNCHANGED <<db, lost>>
  BY DEF ViewStep, PostRow, PageRow, FeedCatRow, PostComments, PostCategories, FeedCommentRows, FeedPostRows, Options, OptionsSelect, OptionsStore, Frame, Info, SidePages, SideCats, StoreInfo, StoreFrame, StorePage, Respond
<1>f. Finish(w) => Others(w) /\ Calm(req'[w])
  BY <1>r, CalmSteps
<1>s. \/ Finish(w)
      \/ Others(w) /\ req'[w].op = req[w].op /\ req[w].op \in ReaderOps
  <2>1. CASE PostRow(w)
    BY <2>1, <1>r DEF PostRow, At, Others, Request, LocalOK, Finish, ReaderOps, ReaderPcs
  <2>2. CASE PageRow(w)
    BY <2>2, <1>r DEF PageRow, At, Others, Request, LocalOK, Finish, ReaderOps, ReaderPcs
  <2>3. CASE FeedCatRow(w)
    BY <2>3, <1>r DEF FeedCatRow, At, Others, Request, LocalOK, Finish, ReaderOps, ReaderPcs
  <2>4. CASE PostComments(w)
    BY <2>4, <1>r DEF PostComments, At, Others, Request, LocalOK, Finish, ReaderOps, ReaderPcs
  <2>5. CASE PostCategories(w)
    BY <2>5, <1>r DEF PostCategories, At, Others, Request, LocalOK, Finish, ReaderOps, ReaderPcs
  <2>6. CASE FeedCommentRows(w)
    BY <2>6, <1>r DEF FeedCommentRows, At, Others, Request, LocalOK, Finish, ReaderOps, ReaderPcs
  <2>7. CASE FeedPostRows(w)
    <3>1. PICK ps, extra : ListPosts(w, ps, extra)
      BY <2>7 DEF FeedPostRows
    <3>2. req[w].op \in ReaderOps
      BY <2>7 DEF FeedPostRows, At, ReaderOps
    <3> QED BY <1>r, <3>1, <3>2 DEF ListPosts, Others, Request
  <2>8. CASE Options(w)
    BY <2>8, <1>r DEF Options, Goto, At, Others, Request, LocalOK, Finish, ReaderOps, ReaderPcs
  <2>9. CASE OptionsSelect(w)
    BY <2>9, <1>r DEF OptionsSelect, At, Others, Request, LocalOK, Finish, ReaderOps, ReaderPcs
  <2>10. CASE OptionsStore(w)
    BY <2>10, <1>r DEF OptionsStore, At, Others, Request, LocalOK, Finish, ReaderOps, ReaderPcs
  <2>11. CASE Frame(w)
    BY <2>11, <1>r DEF Frame, Goto, At, Others, Request, LocalOK, Finish, ReaderOps, ReaderPcs
  <2>12. CASE Info(w)
    BY <2>12, <1>r DEF Info, Goto, At, Others, Request, LocalOK, Finish, ReaderOps, ReaderPcs
  <2>13. CASE SidePages(w)
    BY <2>13, <1>r DEF SidePages, At, Others, Request, LocalOK, Finish, ReaderOps, ReaderPcs
  <2>14. CASE SideCats(w)
    BY <2>14, <1>r DEF SideCats, At, Others, Request, LocalOK, Finish, ReaderOps, ReaderPcs
  <2>15. CASE StoreInfo(w)
    BY <2>15, <1>r DEF StoreInfo, At, Others, Request, LocalOK, Finish, ReaderOps, ReaderPcs
  <2>16. CASE StoreFrame(w)
    BY <2>16, <1>r DEF StoreFrame, At, Others, Request, LocalOK, Finish, ReaderOps, ReaderPcs
  <2>17. CASE StorePage(w)
    BY <2>17 DEF StorePage
  <2>18. CASE Respond(w)
    BY <2>18 DEF Respond
  <2> QED BY <2>1, <2>2, <2>3, <2>4, <2>5, <2>6, <2>7, <2>8, <2>9, <2>10, <2>11, <2>12, <2>13, <2>14, <2>15, <2>16, <2>17, <2>18 DEF ViewStep
<1> QED BY <1>f, <1>s, <1>u DEF Calm

(* Steps of the site that leave the posts, the links and the comments alone. *)
LEMMA QuietSafe ==
  ASSUME Types, Types', Facts, TxInv, NEW w \in Workers,
         \/ DisplayPost(w) \/ DisplayPage(w) \/ Preview(w)
         \/ FeedComments(w) \/ FeedPosts(w) \/ FeedCat(w) \/ ViewStep(w)
         \/ CatRemove(w) \/ PageInsert(w) \/ PageIsOpen(w) \/ PageDelete(w) \/ PageUpdate(w)
         \/ OptionsExec(w) \/ OptionsCommit(w) \/ AfterRises(w) \/ Rollback(w) \/ LockTimeout(w)
         \/ AdminForm(w) \/ ClearCache(w)
  PROVE  Facts' /\ TxInv'
<1>r. ReqOK /\ TableOK /\ req[w] \in Request
  BY DEF Types, ReqOK
<1>n. nextId \in NextIds
  BY <1>r DEF TableOK
<1>c. /\ Finish(w) => Others(w) /\ Calm(req'[w])
      /\ RenderAdmin(w) => Others(w) /\ Calm(req'[w])
      /\ \A op \in ReaderOps : \A pc, id, z : Begin(w, op, pc, id, z) => Others(w) /\ Calm(req'[w])
      /\ \A op \in {"form", "page"} : \A X : AfterCommit(w, op, X) => Others(w) /\ Calm(req'[w])
  BY <1>r, CalmSteps
<1>d. UNCHANGED <<db, lost>> => UNCHANGED <<posts, post2cat, comments, cats>> /\ Forward
  BY ForwardSame DEF db
<1> SUFFICES /\ Others(w) /\ Calm(req'[w])
             /\ UNCHANGED <<posts, post2cat, comments, cats>> /\ Forward
  BY CalmStep
<1>1. CASE DisplayPost(w) \/ DisplayPage(w) \/ Preview(w)
             \/ FeedComments(w) \/ FeedPosts(w) \/ FeedCat(w)
  <2>1. UNCHANGED <<db, lost>>
    BY <1>1 DEF DisplayPost, DisplayPage, Preview, FeedComments, FeedPosts, FeedCat
  <2>2. \E op \in ReaderOps : \E pc, id, z : Begin(w, op, pc, id, z)
    <3>1. {"display_post", "display_page", "preview_post", "preview_page", "feed_comments",
           "feed_posts", "feed_cat"} \subseteq ReaderOps
      BY DEF ReaderOps, PostViews, PageViews
    <3> QED BY Zenon, <1>1, <3>1
            DEF DisplayPost, DisplayPage, Preview, FeedComments, FeedPosts, FeedCat
  <2> QED BY <1>c, <1>d, <2>1, <2>2
<1>2. CASE ViewStep(w)
  BY <1>2, <1>d, ViewCalm
<1>3. CASE AfterRises(w) \/ Rollback(w) \/ LockTimeout(w) \/ AdminForm(w) \/ ClearCache(w)
  BY <1>3, <1>c, <1>d DEF AfterRises, Rollback, LockTimeout, AdminForm, ClearCache
<1>4. CASE CatRemove(w) \/ PageIsOpen(w)
  <2>1. UNCHANGED <<db, lost>>
    BY <1>4 DEF CatRemove, PageIsOpen
  <2>2. RenderAdmin(w) \/ \E r : req' = [req EXCEPT ![w] = r] /\ r.op \in {"cat_remove", "page"}
    <3>1. CASE CatRemove(w)
      <4>1. CASE ~RenderAdmin(w)
        <5>1. PICK c, x : req' = [req EXCEPT ![w] =
                 [Idle EXCEPT !.op = "cat_remove", !.pc = "exec", !.id = c, !.change = x]]
          BY <3>1, <4>1 DEF CatRemove
        <5>2. [Idle EXCEPT !.op = "cat_remove", !.pc = "exec", !.id = c, !.change = x].op = "cat_remove"
          BY DEF Idle
        <5> QED BY <5>1, <5>2
      <4> QED BY <4>1
    <3>2. CASE PageIsOpen(w)
      <4>1. PICK i, x : req' = [req EXCEPT ![w] =
               [Idle EXCEPT !.op = "page", !.pc = "exec", !.id = i, !.open = x]]
        BY <3>2 DEF PageIsOpen
      <4>2. [Idle EXCEPT !.op = "page", !.pc = "exec", !.id = i, !.open = x].op = "page"
        BY DEF Idle
      <4> QED BY <4>1, <4>2
    <3> QED BY <1>4, <3>1, <3>2
  <2>3. ASSUME NEW r, req' = [req EXCEPT ![w] = r], r.op \in {"cat_remove", "page"}
        PROVE  Others(w) /\ Calm(req'[w])
    BY <1>r, <2>3, OthersOne DEF Calm
  <2> QED BY <1>c, <1>d, <2>1, <2>2, <2>3
<1>5. CASE PageInsert(w)
  <2>1. UNCHANGED <<posts, post2cat, comments, cats>> /\ Forward
    BY <1>5, <1>n DEF PageInsert, Forward, NextIds
  <2>2. AfterCommit(w, "page", {PagesTrigger}) \/ RenderAdmin(w) \/ Finish(w)
    BY <1>5 DEF PageInsert
  <2> QED BY <1>c, <2>1, <2>2
<1>6. CASE PageDelete(w) \/ PageUpdate(w)
  <2>1. UNCHANGED <<posts, post2cat, comments, cats>> /\ Forward
    BY <1>6, <1>n DEF PageDelete, PageUpdate, PageLost, Forward, NextIds
  <2>2. \/ RenderAdmin(w) \/ Finish(w)
        \/ \E op \in {"form", "page"} : AfterCommit(w, op, PageRises(req[w].id))
    BY <1>6 DEF PageDelete, PageUpdate, PageShown
  <2> QED BY <1>c, <2>1, <2>2
<1>7. CASE OptionsExec(w)
  <2>1. PICK t : EnterWrite(w, [Idle EXCEPT !.op = "options", !.pc = "tx", !.text = t,
                                            !.rises = {OptionsKey}])
    BY <1>7 DEF OptionsExec
  <2>2. [Idle EXCEPT !.op = "options", !.pc = "tx", !.text = t, !.rises = {OptionsKey}].op = "options"
    BY DEF Idle
  <2>3. Others(w) /\ req'[w].op = "options"
    BY <1>r, <2>1, <2>2, OthersEnter
  <2> QED BY <1>7, <1>d, <2>3 DEF OptionsExec, Calm
<1>8. CASE OptionsCommit(w)
  <2>1. UNCHANGED <<posts, post2cat, comments, cats>> /\ Forward
    BY <1>8, <1>n DEF OptionsCommit, Forward, NextIds
  <2> QED BY <1>8, <1>c, <2>1 DEF OptionsCommit
<1> QED BY <1>1, <1>2, <1>3, <1>4, <1>5, <1>6, <1>7, <1>8

(* Rising a trigger changes no field that the invariant is about. *)
LEMMA RiseSafe ==
  ASSUME Types, Types', Facts, TxInv, NEW w \in Workers, Rise(w) \/ NewLanguage(w)
  PROVE  Facts' /\ TxInv'
<1>r. req \in [Workers -> Request]
  BY DEF Types, ReqOK
<1>1. ASSUME NEW v \in Workers
      PROVE  /\ req'[v].op = req[v].op /\ req'[v].pc = req[v].pc
             /\ req'[v].post = req[v].post /\ req'[v].comment = req[v].comment
             /\ req'[v].add = req[v].add /\ req'[v].open = req[v].open
             /\ req'[v].change = req[v].change
  <2>1. CASE NewLanguage(w)
    BY <2>1 DEF NewLanguage
  <2>2. CASE Rise(w)
    <3>1. PICK X : req' = [req EXCEPT ![w].rises = X]
      BY <2>2 DEF Rise
    <3> QED BY <1>r, <3>1 DEF Request
  <2> QED BY <2>1, <2>2
<1>2. UNCHANGED <<db, lost>>
  BY DEF Rise, NewLanguage
<1>3. UNCHANGED <<posts, post2cat, comments, cats, nextId, lost>> /\ Forward
  BY <1>2, ForwardSame DEF db
<1>4. Others(w)
  BY <1>1 DEF Others
<1>5. Enters(w)
  <2>1. Known(req[w])'
    BY <1>1, <1>3 DEF TxInv, KnownIds, Known
  <2>2. (InsertHolds(w) /\ EditHolds(w) /\ SendHolds(w) /\ CommentHolds(w))'
    <3>1. InsertHolds(w) /\ EditHolds(w) /\ SendHolds(w) /\ CommentHolds(w)
      BY DEF TxInv, TxHolds
    <3>2. InsertHolds(w)' /\ SendHolds(w)' /\ CommentHolds(w)'
      BY <1>1, <1>3, <3>1 DEF InsertHolds, SendHolds, CommentHolds, At, Existing
    <3>3. EditHolds(w)'
      BY <1>1, <1>3, <3>1 DEF EditHolds, At, WasOpen, Existing
    <3> QED BY <3>2, <3>3
  <2>3. \A v \in Workers \ {w}, p \in PostId : ~(LocksPost(w, p)' /\ LocksPost(v, p))
    <3>1. \A p \in PostId : LocksPost(w, p)' => LocksPost(w, p)
      BY <1>1 DEF LocksPost, InTx
    <3> QED BY <3>1 DEF TxInv, PostLockExclusive
  <2>4. \A v \in Workers \ {w} :
         /\ At(w, "send", "tx")' /\ (At(v, "send", "tx") \/ req[v].op \in {"erase", "amend"})
              => req'[w].comment # req[v].comment
         /\ At(v, "send", "tx") /\ (At(w, "send", "tx")' \/ req'[w].op \in {"erase", "amend"})
              => req'[w].comment # req[v].comment
    <3>1. At(w, "send", "tx")' <=> At(w, "send", "tx")
      BY <1>1 DEF At
    <3> QED BY <1>1, <3>1 DEF TxInv, SendAlone
  <2> QED BY <2>1, <2>2, <2>3, <2>4 DEF Enters
<1>6. \A v \in Workers \ {w} : Keeps(v)
  BY <1>3, KeepsSame
<1> QED BY <1>3, <1>4, <1>5, <1>6, FactsFrame, TxFrame

(* A request that is not in a transaction yet. *)
LEMMA EarlyStep ==
  ASSUME Types, Types', Facts, TxInv, NEW w \in Workers, Others(w), Known(req[w])',
         req'[w].pc \notin {"tx", "fail"}, req'[w].op \notin {"erase", "amend"}, UNCHANGED <<db, lost>>
  PROVE  Facts' /\ TxInv'
<1>1. Enters(w)
  BY DEF Enters, InsertHolds, EditHolds, SendHolds, CommentHolds, At, LocksPost, InTx
<1>2. UNCHANGED <<posts, post2cat, comments, cats>> /\ Forward
  BY ForwardSame DEF db
<1> QED BY <1>1, <1>2, FactsFrame, KeepsSame, TxFrame

(* What /admin/post reads before its transaction. *)
LEMMA PostReadSafe ==
  ASSUME Types, Types', Facts, TxInv, NEW w \in Workers,
         PostStart(w) \/ PostIsOpen(w) \/ PostInUse(w) \/ PostForm(w)
  PROVE  Facts' /\ TxInv'
<1>r. ReqOK /\ TableOK /\ req[w] \in Request /\ LocalOK(req[w]) /\ Known(req[w])
  BY DEF Types, ReqOK, LocalsOK, TxInv, KnownIds
<1>u. UNCHANGED <<db, lost>> /\ UNCHANGED <<posts, post2cat, comments, cats>> /\ Forward
      /\ nextId' = nextId
  <2>1. UNCHANGED <<db, lost>>
    BY DEF PostStart, PostIsOpen, PostInUse, PostForm
  <2> QED BY <2>1, ForwardSame DEF db
<1>c. (Finish(w) \/ RenderAdmin(w)) => Facts' /\ TxInv'
  BY <1>r, <1>u, CalmSteps, CalmStep
<1>s. ASSUME NEW r, req' = [req EXCEPT ![w] = r], r.pc \notin {"tx", "fail"},
             r.op \in {"post", "insert", "edit", "remove"}, Known(r)
      PROVE  Facts' /\ TxInv'
  <2>1. Others(w) /\ req'[w] = r
    BY <1>r, <1>s, OthersOne
  <2>2. Known(req[w])'
    BY <2>1, <1>u, <1>s DEF Known
  <2> QED BY <1>u, <1>s, <2>1, <2>2, EarlyStep
<1>1. CASE PostStart(w)
  <2>1. PICK p \in {0} \cup PostId :
          req' = [req EXCEPT ![w] = [Idle EXCEPT !.op = "post", !.post = p,
                                       !.pc = IF p = 0 THEN "form" ELSE "is_open"]]
    BY <1>1 DEF PostStart
  <2> DEFINE r == [Idle EXCEPT !.op = "post", !.post = p,
                               !.pc = IF p = 0 THEN "form" ELSE "is_open"]
  <2>2. /\ r.op = "post" /\ r.post = p /\ r.pc = IF p = 0 THEN "form" ELSE "is_open"
        /\ req' = [req EXCEPT ![w] = r]
    BY <2>1 DEF Idle
  <2> HIDE DEF r
  <2>3. Known(r) /\ r.pc \notin {"tx", "fail"}
    BY <1>r, <2>2 DEF Known, TableOK, NextIds
  <2> QED BY <1>s, <2>2, <2>3
<1>2. CASE PostIsOpen(w)
  <2>1. CASE Finish(w)
    BY <1>c, <2>1
  <2>2. CASE ~Finish(w)
    <3> DEFINE p == req[w].post
               r == [req[w] EXCEPT !.open = posts[p].open, !.pc = "in_use"]
    <3>1. req' = [req EXCEPT ![w] = r] /\ posts[p] # NoRow /\ p \in PostId /\ req[w].op = "post"
      BY <1>2, <2>2, <1>r DEF PostIsOpen, LocalOK, At
    <3>2. p < nextId.post
      BY <3>1, <1>r DEF Facts, FreshIds, TableOK, NextIds, PostId
    <3>3. r.op = "post" /\ r.post = p /\ r.pc = "in_use"
      BY <3>1, <1>r DEF Request
    <3> HIDE DEF r
    <3>4. Known(r)
      BY <3>2, <3>3 DEF Known
    <3> QED BY <1>s, <3>1, <3>3, <3>4
  <2> QED BY <2>1, <2>2
<1>3. CASE PostInUse(w)
  <2> DEFINE u == Linked(req[w].post) \cap Existing
             r == [req[w] EXCEPT !.inUse = u, !.pc = "form"]
  <2>1. req' = [req EXCEPT ![w] = r] /\ req[w].op = "post" /\ req[w].pc = "in_use"
    BY <1>3 DEF PostInUse, At
  <2>2. r.op = "post" /\ r.post = req[w].post /\ r.pc = "form"
    BY <2>1, <1>r DEF Request
  <2> HIDE DEF r
  <2>3. Known(r)
    BY <1>r, <2>1, <2>2 DEF Known
  <2> QED BY <1>s, <2>1, <2>2, <2>3
<1>4. CASE PostForm(w)
  <2>0. req[w].op = "post" /\ req[w].pc = "form" /\ req[w].post < nextId.post
    BY <1>4, <1>r DEF PostForm, At, Known
  <2>1. ASSUME NEW t, NEW change, NEW now, NEW add, NEW del,
               PostSave(w, t, change, now, add, del)
        PROVE  Facts' /\ TxInv'
    <3> DEFINE op == IF req[w].post = 0 THEN "insert" ELSE "edit"
               o == Flipped(req[w].open, change)
               r == [req[w] EXCEPT !.op = op, !.pc = "exec", !.text = t, !.change = change,
                                   !.now = now, !.add = add, !.del = del, !.open = o]
    <3>1. req' = [req EXCEPT ![w] = r] /\ op \in {"insert", "edit"}
      BY <2>1 DEF PostSave
    <3> HIDE DEF op, o
    <3>2. r.op = op /\ r.pc = "exec" /\ r.post = req[w].post
      BY <1>r DEF Request
    <3> HIDE DEF r
    <3>3. Known(r)
      BY <2>0, <3>1, <3>2 DEF Known
    <3> QED BY <1>s, <3>1, <3>2, <3>3
  <2>2. ASSUME req' = [req EXCEPT ![w].op = "remove", ![w].pc = "exec"]
        PROVE  Facts' /\ TxInv'
    <3> DEFINE r == [req[w] EXCEPT !.op = "remove", !.pc = "exec"]
    <3>1. req' = [req EXCEPT ![w] = r]
      BY <2>2
    <3>2. r.op = "remove" /\ r.pc = "exec" /\ r.post = req[w].post
      BY <1>r DEF Request
    <3> HIDE DEF r
    <3>3. Known(r)
      BY <2>0, <3>2 DEF Known
    <3> QED BY <1>s, <3>1, <3>2, <3>3
  <2> QED BY Zenon, <1>4, <1>c, <2>1, <2>2 DEF PostForm
<1> QED BY <1>1, <1>2, <1>3, <1>4

(* The statements of /admin/post: what the transaction may rely on. *)
LEMMA PostExecSafe ==
  ASSUME Types, Types', Facts, TxInv, NEW w \in Workers,
         PostInsert(w) \/ PostRemove(w) \/ PostEdit(w)
  PROVE  Facts' /\ TxInv'
<1>r. ReqOK /\ TableOK /\ req[w] \in Request /\ LocalOK(req[w]) /\ Known(req[w])
      /\ nextId.post \in Nat \ {0} /\ nextId.comment \in Nat
  BY DEF Types, ReqOK, LocalsOK, TxInv, KnownIds, TableOK, NextIds
<1>u. UNCHANGED <<posts, post2cat, comments, cats>> /\ Forward
  BY <1>r DEF PostInsert, PostRemove, PostEdit, db, Forward, TableOK, NextIds
<1>c. Finish(w) => Facts' /\ TxInv'
  BY <1>r, <1>u, CalmSteps, CalmStep
<1>k. \A v \in Workers : Keeps(v)
  BY <1>u, KeepsSame
<1>f. Facts'
  BY <1>u, FactsFrame
<1> SUFFICES ASSUME ~Finish(w) PROVE TxInv'
  BY <1>c, <1>f
<1>1. CASE PostInsert(w)
  <2> DEFINE can == req[w].add \subseteq Existing
             pc == IF can THEN "tx" ELSE "fail"
             X == IF can THEN InsertRises(req[w]) ELSE JoinRises(req[w], Existing)
             n == nextId.post
             r == [req[w] EXCEPT !.pc = pc, !.post = n, !.rises = X]
  <2>1. EnterWrite(w, r) /\ req[w].op = "insert" /\ n <= MaxPost /\ nextId'.post = n + 1
    <3>1. ~(n > MaxPost) /\ req[w].op = "insert"
      BY <1>1 DEF PostInsert, At
    <3>2. n <= MaxPost
      BY <1>r, <3>1, IdAssumption
    <3>3. EnterWrite(w, r)
      BY <1>1, <3>1 DEF PostInsert
    <3>4. nextId'.post = n + 1
      BY <1>1, <1>r, <3>2 DEF PostInsert, TableOK, NextIds
    <3> QED BY <3>1, <3>2, <3>3, <3>4
  <2>c. pc \in {"tx", "fail"} /\ (pc = "tx" => req[w].add \subseteq Existing)
    OBVIOUS
  <2> HIDE DEF X, pc
  <2>2. r.op = "insert" /\ r.pc = pc /\ r.post = n /\ r.add = req[w].add
    BY <1>r, <2>1 DEF Request
  <2> HIDE DEF r
  <2>3. Others(w) /\ req'[w] = r
    BY <1>r, <2>1, OthersEnter
  <2>4. posts[n] = NoRow
    BY <1>r, <2>1, IdAssumption DEF Facts, FreshIds, PostId
  <2>5. InsertHolds(w)' /\ Known(req[w])'
    BY <1>r, <1>u, <2>1, <2>2, <2>3, <2>4, <2>c DEF InsertHolds, Existing, Known, At
  <2>6. \A v \in Workers \ {w}, p \in PostId : ~(LocksPost(w, p)' /\ LocksPost(v, p))
    <3> SUFFICES ASSUME NEW v \in Workers \ {w}, NEW p \in PostId, LocksPost(w, p)', LocksPost(v, p)
                 PROVE  FALSE
      OBVIOUS
    <3>1. p = n
      BY <2>2, <2>3 DEF LocksPost
    <3>2. req[v].post = p /\ req[v].pc \in {"tx", "fail"}
          /\ req[v].op \in {"insert", "remove", "edit", "send", "erase"}
      BY DEF LocksPost, InTx
    <3>3. req[v].post < nextId.post
      BY <3>2 DEF TxInv, KnownIds, Known
    <3> QED BY <1>r, <3>1, <3>2, <3>3
  <2>7. Enters(w)
    BY <2>2, <2>3, <2>5, <2>6 DEF Enters, EditHolds, SendHolds, CommentHolds, At
  <2> QED BY <1>u, <1>k, <2>3, <2>7, TxFrame
<1>l. ASSUME NEW X, NEW pc, PostFree(w, req[w].post),
             EnterWrite(w, [req[w] EXCEPT !.pc = pc, !.rises = X]),
             req[w].op \in {"remove", "edit"}
      PROVE  /\ Others(w) /\ Known(req[w])'
             /\ req'[w].op = req[w].op /\ req'[w].pc = pc /\ req'[w].post = req[w].post
             /\ req'[w].add = req[w].add /\ req'[w].open = req[w].open
             /\ req'[w].change = req[w].change
             /\ \A v \in Workers \ {w}, p \in PostId : ~(LocksPost(w, p)' /\ LocksPost(v, p))
  <2> DEFINE r == [req[w] EXCEPT !.pc = pc, !.rises = X]
  <2>1. /\ r.op = req[w].op /\ r.pc = pc /\ r.post = req[w].post /\ r.add = req[w].add
        /\ r.open = req[w].open /\ r.change = req[w].change /\ EnterWrite(w, r)
    BY <1>r, <1>l DEF Request
  <2> HIDE DEF r
  <2>2. Others(w) /\ req'[w] = r
    BY <1>r, <2>1, OthersEnter
  <2>3. Known(req[w])'
    <3>1. req[w].post < nextId.post /\ req[w].post \in Nat /\ nextId'.post \in Nat
      BY <1>r, <1>l DEF Known, Request, Types, TableOK, NextIds
    <3> QED BY <1>r, <1>u, <1>l, <2>1, <2>2, <3>1 DEF Known, Forward
  <2>4. \A v \in Workers \ {w}, p \in PostId : ~(LocksPost(w, p)' /\ LocksPost(v, p))
    BY <1>l, <2>1, <2>2 DEF LocksPost, PostFree
  <2> QED BY <2>1, <2>2, <2>3, <2>4
<1>2. CASE PostRemove(w)
  <2>1. /\ PostFree(w, req[w].post) /\ req[w].op = "remove"
        /\ EnterWrite(w, [req[w] EXCEPT !.pc = "tx", !.rises = RemoveRises(req[w])])
    BY <1>2 DEF PostRemove, At
  <2>2. /\ Others(w) /\ Known(req[w])' /\ req'[w].op = "remove"
        /\ \A v \in Workers \ {w}, p \in PostId : ~(LocksPost(w, p)' /\ LocksPost(v, p))
    BY <2>1, <1>l
  <2>3. Enters(w)
    BY <2>2 DEF Enters, InsertHolds, EditHolds, SendHolds, CommentHolds, At
  <2> QED BY <1>u, <1>k, <2>2, <2>3, TxFrame
<1>3. CASE PostEdit(w)
  <2>0. /\ PostFree(w, req[w].post) /\ req[w].op = "edit"
        /\ \/ EnterWrite(w, [req[w] EXCEPT !.pc = "fail", !.rises = FailRises(req[w])])
           \/ /\ req[w].add \subseteq Joinable(req[w])
              /\ EnterWrite(w, [req[w] EXCEPT !.pc = "tx", !.rises = EditRises(req[w])])
              /\ lost' = IF EditIsStale(req[w]) THEN lost \cup {<<"post", req[w].post>>} ELSE lost
    BY <1>3 DEF PostEdit, At
  <2>1. CASE EnterWrite(w, [req[w] EXCEPT !.pc = "fail", !.rises = FailRises(req[w])])
    <3>1. /\ Others(w) /\ Known(req[w])' /\ req'[w].op = "edit" /\ req'[w].pc = "fail"
          /\ \A v \in Workers \ {w}, p \in PostId : ~(LocksPost(w, p)' /\ LocksPost(v, p))
      BY <2>0, <2>1, <1>l
    <3>2. Enters(w)
      BY <3>1 DEF Enters, InsertHolds, EditHolds, SendHolds, CommentHolds, At
    <3> QED BY <1>u, <1>k, <3>1, <3>2, TxFrame
  <2>2. CASE /\ req[w].add \subseteq Joinable(req[w])
             /\ EnterWrite(w, [req[w] EXCEPT !.pc = "tx", !.rises = EditRises(req[w])])
             /\ lost' = IF EditIsStale(req[w]) THEN lost \cup {<<"post", req[w].post>>} ELSE lost
    <3>2. /\ Others(w) /\ Known(req[w])'
          /\ req'[w].op = "edit" /\ req'[w].pc = "tx" /\ req'[w].post = req[w].post
          /\ req'[w].add = req[w].add /\ req'[w].open = req[w].open
          /\ req'[w].change = req[w].change
          /\ \A v \in Workers \ {w}, p \in PostId : ~(LocksPost(w, p)' /\ LocksPost(v, p))
      BY <2>0, <2>2, <1>l
    <3>3. req[w].add \subseteq Existing
      BY <2>2 DEF Joinable
    <3>4. posts[req[w].post] # NoRow /\ <<"post", req[w].post>> \notin lost'
            => WasOpen(req[w]) = posts[req[w].post].open
      BY <2>2 DEF EditIsStale
    <3>5. EditHolds(w)'
      BY <1>u, <3>2, <3>3, <3>4 DEF EditHolds, WasOpen, Existing
    <3>6. Enters(w)
      BY <3>2, <3>5 DEF Enters, InsertHolds, SendHolds, CommentHolds, At
    <3> QED BY <1>u, <1>k, <3>2, <3>6, TxFrame
  <2> QED BY <2>0, <2>1, <2>2
<1> QED BY <1>1, <1>2, <1>3

(* A transaction that commits holds its post alone. *)
LEMMA HeldAlone ==
  ASSUME TxInv, NEW w \in Workers, NEW p \in PostId, LocksPost(w, p)
  PROVE  \A v \in Workers \ {w} : ~LocksPost(v, p)
BY DEF TxInv, PostLockExclusive

(* The count of a post follows its comments when these do not change. *)
LEMMA NoComments ==
  ASSUME Facts, NEW p \in PostId, posts[p] = NoRow
  PROVE  CommentsOf(p) = {} /\ Linked(p) = {}
BY DEF Facts, CommentCountExact, PublishSync, CommentsOf, Linked

(* The commit of a new post. *)
LEMMA InsertCommitSafe ==
  ASSUME Types, Types', Facts, TxInv, NEW w \in Workers, PostInsertCommit(w)
  PROVE  Facts' /\ TxInv'
<1> DEFINE r == req[w]
           p == r.post
           row == [text |-> r.text, open |-> r.open, publish |-> r.now, count |-> 0]
           link == [open |-> r.open, publish |-> r.now]
<1>r. /\ ReqOK /\ TableOK /\ r \in Request /\ p \in PostId /\ nextId.post \in Nat
      /\ r.op = "insert" /\ r.pc = "tx" /\ p < nextId.post /\ posts[p] = NoRow
      /\ r.add \subseteq Existing /\ InsertHolds(w)
  BY DEF Types, ReqOK, LocalsOK, LocalOK, TxInv, TxHolds, InsertHolds, PostInsertCommit, At,
         TableOK, NextIds, KnownIds, Known
<1>p. /\ posts' = [posts EXCEPT ![p] = row]
      /\ post2cat' = [post2cat EXCEPT ![p] = [c \in CatId |-> IF c \in r.add THEN link ELSE NoRow]]
      /\ UNCHANGED <<comments, cats, nextId, lost>>
  BY DEF PostInsertCommit
<1>l. row # NoRow /\ link # NoRow /\ row.publish = link.publish /\ row.open = link.open
      /\ row.count = 0
  <2>1. r.text \in Texts /\ r.now \in Times /\ r.open \in Flag
    BY <1>r DEF Types, ReqOK, LocalsOK, LocalOK, Request
  <2>2. row \in Post /\ link \in Link
    BY <2>1 DEF Post, Link
  <2> QED BY <2>2, NoRowAssumption
<1>t. posts \in [PostId -> Post \cup {NoRow}] /\ post2cat \in [PostId -> [CatId -> Link \cup {NoRow}]]
  BY <1>r DEF TableOK
<1>e. CommentsOf(p) = {} /\ Linked(p) = {}
  BY <1>r, NoComments
<1> HIDE DEF row, link, p
<1>q. /\ \A q \in PostId \ {p} : posts'[q] = posts[q] /\ post2cat'[q] = post2cat[q]
      /\ posts'[p] = row
      /\ \A c \in CatId : post2cat'[p][c] = IF c \in r.add THEN link ELSE NoRow
      /\ p \in PostId
  BY <1>p, <1>t, <1>r DEF p
<1> HIDE DEF r
<1>1. FreshIds'
  <2>1. p < nextId.post /\ nextId.post \in Nat
    BY <1>r DEF p
  <2> QED BY <1>q, <1>p, <2>1 DEF Facts, FreshIds, PostId
<1>2. PublishSync'
  <2> SUFFICES ASSUME NEW q \in PostId, NEW c \in CatId, post2cat'[q][c] # NoRow
               PROVE  posts'[q] # NoRow /\ post2cat'[q][c].publish = posts'[q].publish
    BY DEF PublishSync, Linked
  <2> QED BY <1>q, <1>l DEF Facts, PublishSync, Linked
<1>3. StatusSplitNeedsStaleEdit'
  <2> SUFFICES ASSUME NEW q \in PostId, NEW c \in CatId, post2cat'[q][c] # NoRow,
                      post2cat'[q][c].open # posts'[q].open
               PROVE  <<"post", q>> \in lost'
    BY DEF StatusSplitNeedsStaleEdit, Linked
  <2> QED BY <1>q, <1>l, <1>p DEF Facts, StatusSplitNeedsStaleEdit, Linked
<1>4. LinksHaveCategories'
  <2> SUFFICES ASSUME NEW q \in PostId, NEW c \in CatId, post2cat'[q][c] # NoRow
               PROVE  cats'[c] # NoRow
    BY DEF LinksHaveCategories, Linked, Existing
  <2>1. r.add \subseteq Existing
    BY <1>r DEF r
  <2> QED BY <1>q, <1>p, <2>1 DEF Facts, LinksHaveCategories, Linked, Existing
<1>5. CommentCountExact'
  <2>0. \A q \in PostId : CommentsOf(q)' = CommentsOf(q)
    BY <1>p DEF CommentsOf
  <2>1. ASSUME NEW q \in PostId, posts'[q] # NoRow
        PROVE  posts'[q].count = Cardinality(CommentsOf(q)')
    <3>1. CASE q = p
      BY <1>q, <1>l, <1>e, <2>0, <3>1, FS_EmptySet DEF p
    <3>2. CASE q # p
      BY <1>q, <2>0, <2>1, <3>2 DEF Facts, CommentCountExact
    <3> QED BY <3>1, <3>2
  <2>2. ASSUME NEW k \in CommentId, comments'[k] # NoRow
        PROVE  posts'[comments'[k].post] # NoRow
    <3>1. comments[k] # NoRow /\ comments'[k] = comments[k] /\ comments[k].post \in PostId
      BY <1>p, <2>2, <1>r DEF TableOK, Comment
    <3> QED BY <1>q, <1>l, <3>1 DEF Facts, CommentCountExact
  <2> QED BY <2>1, <2>2 DEF CommentCountExact
<1>6. Others(w) /\ Calm(req'[w])
  BY <1>r, CalmSteps DEF PostInsertCommit
<1>7. ASSUME NEW v \in Workers \ {w} PROVE Keeps(v)
  <2>0. InsertHolds(v) /\ EditHolds(v) /\ SendHolds(v) /\ CommentHolds(v)
        /\ LocalOK(req[v]) /\ Existing' = Existing /\ comments' = comments
    BY <1>p DEF TxInv, TxHolds, Existing, Types, ReqOK, LocalsOK
  <2>1. ~LocksPost(v, p)
    BY <1>r, HeldAlone DEF LocksPost, InTx, p, r
  <2>2. req[v].pc = "tx" /\ req[v].op \in {"insert", "edit", "send"}
          => /\ req[v].post \in PostId \ {p}
             /\ posts'[req[v].post] = posts[req[v].post]
    BY <2>0, <2>1, <1>q DEF LocksPost, InTx, LocalOK
  <2> QED BY <2>0, <2>2 DEF Keeps, InsertHolds, EditHolds, SendHolds, CommentHolds, At
<1>8. TxInv'
  <2>1. Forward
    BY <1>p, <1>r DEF Forward, TableOK, NextIds
  <2> QED BY <1>6, <1>7, <2>1, CalmEnters, TxFrame
<1> QED BY <1>1, <1>2, <1>3, <1>4, <1>5, <1>8 DEF Facts

(* What other transactions rely on is left alone by a commit that writes   *)
(* the post it holds and adds no comment.                                  *)
LEMMA CommitKeeps ==
  ASSUME Types, TxInv, NEW w \in Workers, NEW p \in PostId, LocksPost(w, p),
         \A q \in PostId \ {p} : posts'[q] = posts[q], UNCHANGED cats,
         \A k \in CommentId : comments'[k] # NoRow =>
             comments[k] # NoRow /\ comments'[k].post = comments[k].post
  PROVE  \A v \in Workers \ {w} : Keeps(v)
<1> SUFFICES ASSUME NEW v \in Workers \ {w} PROVE Keeps(v)
  OBVIOUS
<1>0. InsertHolds(v) /\ EditHolds(v) /\ SendHolds(v) /\ CommentHolds(v)
      /\ LocalOK(req[v]) /\ Existing' = Existing
  BY DEF TxInv, TxHolds, Existing, Types, ReqOK, LocalsOK
<1>1. ~LocksPost(v, p)
  BY HeldAlone
<1>2. req[v].pc = "tx" /\ req[v].op \in {"insert", "edit", "send"}
        => req[v].post \in PostId \ {p} /\ posts'[req[v].post] = posts[req[v].post]
  BY <1>0, <1>1 DEF LocksPost, InTx, LocalOK
<1>3. /\ req[v].op \in {"erase", "amend"} => req[v].comment \in CommentId
      /\ At(v, "send", "tx") => req[v].comment \in CommentId
  BY <1>0 DEF LocalOK, At
<1> QED BY <1>0, <1>2, <1>3 DEF Keeps, InsertHolds, EditHolds, SendHolds, CommentHolds, At

(* The commit of a removal. *)
LEMMA RemoveCommitSafe ==
  ASSUME Types, Types', Facts, TxInv, NEW w \in Workers, PostRemoveCommit(w)
  PROVE  Facts' /\ TxInv'
<1> DEFINE p == req[w].post
<1>r. /\ ReqOK /\ TableOK /\ req[w] \in Request /\ p \in PostId
      /\ req[w].op = "remove" /\ req[w].pc = "tx"
  BY DEF Types, ReqOK, LocalsOK, LocalOK, PostRemoveCommit, At
<1>p. /\ posts' = [posts EXCEPT ![p] = NoRow]
      /\ post2cat' = [post2cat EXCEPT ![p] = [c \in CatId |-> NoRow]]
      /\ comments' = [k \in CommentId |-> IF k \in CommentsOf(p) THEN NoRow ELSE comments[k]]
      /\ UNCHANGED <<cats, nextId, lost>>
  BY DEF PostRemoveCommit
<1>h. LocksPost(w, p)
  BY <1>r DEF LocksPost, InTx
<1> HIDE DEF p
<1>q. /\ \A q \in PostId \ {p} : posts'[q] = posts[q] /\ post2cat'[q] = post2cat[q]
      /\ posts'[p] = NoRow
      /\ \A c \in CatId : post2cat'[p][c] = NoRow
  BY <1>p, <1>r DEF TableOK
<1>k. \A k \in CommentId :
        /\ comments'[k] # NoRow => comments[k] # NoRow /\ comments'[k] = comments[k]
                                    /\ comments[k].post \in PostId \ {p}
        /\ comments[k] # NoRow /\ comments[k].post # p => comments'[k] = comments[k]
  BY <1>p, <1>r DEF CommentsOf, TableOK, Comment
<1>1. FreshIds'
  BY <1>q, <1>k, <1>p DEF Facts, FreshIds
<1>2. PublishSync' /\ StatusSplitNeedsStaleEdit' /\ LinksHaveCategories'
  <2> SUFFICES ASSUME NEW q \in PostId, NEW c \in CatId, post2cat'[q][c] # NoRow
               PROVE  /\ posts'[q] # NoRow /\ post2cat'[q][c].publish = posts'[q].publish
                      /\ post2cat'[q][c].open # posts'[q].open => <<"post", q>> \in lost'
                      /\ cats'[c] # NoRow
    BY DEF PublishSync, StatusSplitNeedsStaleEdit, LinksHaveCategories, Linked, Existing
  <2>1. q # p /\ posts'[q] = posts[q] /\ post2cat'[q] = post2cat[q] /\ c \in Linked(q)
    BY <1>q DEF Linked
  <2> QED BY <2>1, <1>p DEF Facts, PublishSync, StatusSplitNeedsStaleEdit, LinksHaveCategories, Existing
<1>5. CommentCountExact'
  <2>0. ASSUME NEW q \in PostId \ {p} PROVE CommentsOf(q)' = CommentsOf(q)
    BY <1>k DEF CommentsOf
  <2>1. ASSUME NEW q \in PostId, posts'[q] # NoRow
        PROVE  posts'[q].count = Cardinality(CommentsOf(q)')
    BY <1>q, <2>0, <2>1 DEF Facts, CommentCountExact
  <2>2. ASSUME NEW k \in CommentId, comments'[k] # NoRow
        PROVE  posts'[comments'[k].post] # NoRow
    BY <1>q, <1>k, <2>2 DEF Facts, CommentCountExact
  <2> QED BY <2>1, <2>2 DEF CommentCountExact
<1>6. Others(w) /\ Calm(req'[w])
  BY <1>r, CalmSteps DEF PostRemoveCommit
<1>7. \A v \in Workers \ {w} : Keeps(v)
  BY <1>r, <1>p, <1>q, <1>k, <1>h, CommitKeeps
<1>8. TxInv'
  <2>1. Forward
    BY <1>p, <1>r DEF Forward, TableOK, NextIds
  <2> QED BY <1>6, <1>7, <2>1, CalmEnters, TxFrame
<1> QED BY <1>1, <1>2, <1>5, <1>8 DEF Facts

(* The commit of a change. *)
LEMMA EditCommitSafe ==
  ASSUME Types, Types', Facts, TxInv, NEW w \in Workers, PostEditCommit(w)
  PROVE  Facts' /\ TxInv'
<1> DEFINE r == req[w]
           p == r.post
<1>r. /\ ReqOK /\ TableOK /\ r \in Request /\ p \in PostId /\ r.op = "edit" /\ r.pc = "tx"
      /\ EditHolds(w)
  BY DEF Types, ReqOK, LocalsOK, LocalOK, PostEditCommit, At, TxInv, TxHolds
<1>u. UNCHANGED <<comments, cats, nextId, lost>> /\ Forward
  BY <1>r DEF PostEditCommit, Forward, TableOK, NextIds
<1>6. Others(w) /\ Calm(req'[w])
  BY <1>r, CalmSteps DEF PostEditCommit
<1>0. CASE posts[p] = NoRow
  BY <1>0, <1>u, <1>6, CalmStep DEF PostEditCommit
<1>1. CASE posts[p] # NoRow
  <2> DEFINE row == EditedPost(r)
  <2>p. /\ posts' = [posts EXCEPT ![p] = row]
        /\ post2cat' = [post2cat EXCEPT ![p] = [c \in CatId |-> EditedLink(r, c)]]
    BY <1>1 DEF PostEditCommit
  <2>t. row # NoRow /\ row.open = r.open /\ row.count = posts[p].count
        /\ row.publish = IF Publishing(r) THEN r.now ELSE posts[p].publish
    <3>1. r.text \in Texts /\ r.now \in Times /\ r.open \in Flag /\ posts[p] \in Post
      BY <1>r, <1>1 DEF Types, ReqOK, LocalsOK, LocalOK, Request, TableOK
    <3>2. row \in Post
      BY <3>1 DEF EditedPost, Post
    <3> QED BY <3>1, <3>2, NoRowAssumption DEF EditedPost, Post
  <2>e. /\ r.add \subseteq Existing
        /\ <<"post", p>> \notin lost => posts[p].open = IF r.change = 1 THEN 1 - r.open ELSE r.open
    BY <1>r, <1>1 DEF EditHolds, At, WasOpen, Flipped
  <2>l. ASSUME NEW c \in CatId, EditedLink(r, c) # NoRow
        PROVE  /\ EditedLink(r, c).publish = row.publish
               /\ c \in Existing
               /\ <<"post", p>> \notin lost => EditedLink(r, c).open = row.open
    <3>1. CASE c \in r.add
      BY <2>l, <2>e, <2>t, <3>1 DEF EditedLink
    <3>2. CASE c \notin r.add
      <4>1. c \in Linked(p) /\ c \notin r.del
        BY <2>l, <3>2 DEF EditedLink, Linked
      <4>2. /\ post2cat[p][c].publish = posts[p].publish
            /\ post2cat[p][c].open # posts[p].open => <<"post", p>> \in lost
            /\ c \in Existing
        BY <1>r, <4>1 DEF Facts, PublishSync, StatusSplitNeedsStaleEdit, LinksHaveCategories
      <4>3. EditedLink(r, c) =
              [open |-> IF r.change = 1 THEN r.open ELSE post2cat[p][c].open,
               publish |-> IF Publishing(r) THEN r.now ELSE post2cat[p][c].publish]
        BY <3>2, <4>1 DEF EditedLink, Linked
      <4> QED BY <4>2, <4>3, <2>t, <2>e
    <3> QED BY <3>1, <3>2
  <2>h. LocksPost(w, p)
    BY <1>r DEF LocksPost, InTx
  <2> HIDE DEF row, p, r
  <2>q. /\ \A q \in PostId \ {p} : posts'[q] = posts[q] /\ post2cat'[q] = post2cat[q]
        /\ posts'[p] = row
        /\ \A c \in CatId : post2cat'[p][c] = EditedLink(r, c)
    BY <2>p, <1>r DEF TableOK
  <2>1. FreshIds'
    BY <1>r, <1>1, <1>u, <2>q DEF Facts, FreshIds
  <2>2. PublishSync' /\ StatusSplitNeedsStaleEdit' /\ LinksHaveCategories'
    <3> SUFFICES ASSUME NEW q \in PostId, NEW c \in CatId, post2cat'[q][c] # NoRow
                 PROVE  /\ posts'[q] # NoRow /\ post2cat'[q][c].publish = posts'[q].publish
                        /\ post2cat'[q][c].open # posts'[q].open => <<"post", q>> \in lost'
                        /\ cats'[c] # NoRow
      BY DEF PublishSync, StatusSplitNeedsStaleEdit, LinksHaveCategories, Linked, Existing
    <3>1. CASE q = p
      BY <3>1, <2>q, <2>l, <2>t, <1>u DEF Existing
    <3>2. CASE q # p
      <4>1. posts'[q] = posts[q] /\ post2cat'[q] = post2cat[q] /\ c \in Linked(q)
        BY <2>q, <3>2 DEF Linked
      <4> QED BY <4>1, <1>u
              DEF Facts, PublishSync, StatusSplitNeedsStaleEdit, LinksHaveCategories, Existing
    <3> QED BY <3>1, <3>2
  <2>3. CommentCountExact'
    <3>0. \A q \in PostId : CommentsOf(q)' = CommentsOf(q)
      BY <1>u DEF CommentsOf
    <3>1. \A q \in PostId : posts'[q] # NoRow =>
            posts[q] # NoRow /\ posts'[q].count = posts[q].count
      BY <1>1, <2>q, <2>t
    <3>2. ASSUME NEW k \in CommentId, comments'[k] # NoRow
          PROVE  posts'[comments'[k].post] # NoRow
      <4>1. comments[k] # NoRow /\ comments'[k] = comments[k] /\ comments[k].post \in PostId
        BY <1>u, <3>2, <1>r DEF TableOK, Comment
      <4> QED BY <2>q, <2>t, <4>1 DEF Facts, CommentCountExact
    <3> QED BY <3>0, <3>1, <3>2 DEF Facts, CommentCountExact
  <2>4. \A v \in Workers \ {w} : Keeps(v)
    BY <1>r, <1>u, <2>q, <2>h, CommitKeeps
  <2> QED BY <1>u, <1>6, <2>1, <2>2, <2>3, <2>4, CalmEnters, TxFrame DEF Facts
<1> QED BY <1>0, <1>1

(* What the handlers of comments read before they write. *)
LEMMA CommentReadSafe ==
  ASSUME Types, Types', Facts, TxInv, NEW w \in Workers,
         Postback(w) \/ SendSelect(w) \/ CommentStart(w)
  PROVE  Facts' /\ TxInv'
<1>r. /\ ReqOK /\ TableOK /\ req[w] \in Request /\ LocalOK(req[w]) /\ Known(req[w])
      /\ nextId.post \in Nat /\ nextId.comment \in Nat
  BY DEF Types, ReqOK, LocalsOK, TxInv, KnownIds, TableOK, NextIds
<1>u. UNCHANGED <<db, lost>> /\ UNCHANGED <<posts, post2cat, comments, cats, nextId>> /\ Forward
  <2>1. UNCHANGED <<db, lost>>
    BY DEF Postback, SendSelect, CommentStart
  <2> QED BY <2>1, ForwardSame DEF db
<1>v. "render_post" \in ReaderOps
  BY DEF ReaderOps, PostViews
<1>c. /\ Finish(w) \/ RenderAdmin(w) => Facts' /\ TxInv'
      /\ \A id, z : Begin(w, "render_post", "row", id, z) => Facts' /\ TxInv'
  BY <1>r, <1>u, <1>v, CalmSteps, CalmStep
<1>1. CASE Postback(w)
  <2>1. PICK p \in PostId, z \in Spellings, t \in Texts :
          \/ Begin(w, "render_post", "row", p, z)
          \/ req' = [req EXCEPT ![w] = [Idle EXCEPT !.op = "send", !.pc = "select",
                        !.id = p, !.zeros = z, !.post = p, !.text = t]]
    BY <1>1 DEF Postback
  <2>2. CASE Begin(w, "render_post", "row", p, z)
    BY <1>c, <2>2
  <2>3. CASE ~Begin(w, "render_post", "row", p, z)
    <3> DEFINE r == [Idle EXCEPT !.op = "send", !.pc = "select",
                        !.id = p, !.zeros = z, !.post = p, !.text = t]
    <3>1. req' = [req EXCEPT ![w] = r] /\ r.op = "send" /\ r.pc = "select"
      BY <2>1, <2>3 DEF Idle
    <3> HIDE DEF r
    <3>2. Others(w) /\ req'[w] = r
      BY <1>r, <3>1, OthersOne
    <3>3. Known(req[w])'
      BY <3>1, <3>2 DEF Known
    <3> QED BY <1>u, <3>1, <3>2, <3>3, EarlyStep
  <2> QED BY <2>2, <2>3
<1>2. CASE SendSelect(w)
  <2>1. CASE Goto(w, "exec") /\ posts[req[w].post] # NoRow
    <3> DEFINE r == [req[w] EXCEPT !.pc = "exec"]
    <3>0. req[w].op = "send" /\ req[w].post \in PostId
      BY <1>2, <1>r DEF SendSelect, At, LocalOK
    <3>1. req[w].post < nextId.post
      BY <1>r, <2>1, <3>0 DEF Facts, FreshIds, PostId
    <3>2. req' = [req EXCEPT ![w] = r] /\ r.op = "send" /\ r.pc = "exec" /\ r.post = req[w].post
      BY <1>r, <2>1, <3>0 DEF Goto, Request
    <3> HIDE DEF r
    <3>3. Others(w) /\ req'[w] = r
      BY <1>r, <3>2, OthersOne
    <3>4. Known(req[w])'
      BY <1>u, <3>1, <3>2, <3>3 DEF Known
    <3> QED BY <1>u, <3>2, <3>3, <3>4, EarlyStep
  <2> QED BY <1>2, <1>c, <2>1 DEF SendSelect
<1>3. CASE CommentStart(w)
  <2>1. PICK k \in CommentId, op \in {"erase", "amend"}, t \in Texts \cup {NoRow} :
          /\ comments[k] # NoRow
          /\ req' = [req EXCEPT ![w] = [Idle EXCEPT !.op = op, !.pc = "exec",
                       !.comment = k, !.post = comments[k].post, !.text = t]]
    BY <1>3 DEF CommentStart
  <2> DEFINE p == comments[k].post
             r == [Idle EXCEPT !.op = op, !.pc = "exec", !.comment = k, !.post = p, !.text = t]
  <2>2. p \in PostId /\ p < nextId.post /\ k < nextId.comment
    <3>1. p \in PostId
      BY <2>1, <1>r DEF TableOK, Comment
    <3>2. posts[p] # NoRow
      BY <2>1 DEF Facts, CommentCountExact
    <3> QED BY <1>r, <2>1, <3>1, <3>2 DEF Facts, FreshIds, PostId, CommentId
  <2>3. req' = [req EXCEPT ![w] = r] /\ r.op = op /\ r.pc = "exec" /\ r.comment = k /\ r.post = p
    BY <2>1 DEF Idle
  <2> HIDE DEF r
  <2>4. Others(w) /\ req'[w] = r
    BY <1>r, <2>3, OthersOne
  <2>5. Enters(w)
    <3>1. Known(req[w])' /\ CommentHolds(w)'
      BY <1>u, <2>2, <2>3, <2>4 DEF Known, CommentHolds
    <3>2. InsertHolds(w)' /\ EditHolds(w)' /\ SendHolds(w)'
      BY <2>3, <2>4 DEF InsertHolds, EditHolds, SendHolds, At
    <3>3. \A q \in PostId : ~LocksPost(w, q)'
      BY <2>3, <2>4 DEF LocksPost, InTx
    <3>4. \A v \in Workers \ {w} : At(v, "send", "tx") => k # req[v].comment
      BY <2>1 DEF TxInv, TxHolds, SendHolds
    <3> QED BY <2>3, <2>4, <3>1, <3>2, <3>3, <3>4 DEF Enters, At
  <2> QED BY <1>u, <2>4, <2>5, FactsFrame, KeepsSame, TxFrame
<1> QED BY <1>1, <1>2, <1>3

(* Their statements. *)
LEMMA CommentExecSafe ==
  ASSUME Types, Types', Facts, TxInv, NEW w \in Workers, SendInsert(w) \/ CommentExec(w)
  PROVE  Facts' /\ TxInv'
<1>r. /\ ReqOK /\ TableOK /\ req[w] \in Request /\ LocalOK(req[w]) /\ Known(req[w])
      /\ nextId.post \in Nat /\ nextId.comment \in Nat \ {0} /\ nextId \in NextIds
  BY DEF Types, ReqOK, LocalsOK, TxInv, KnownIds, TableOK, NextIds
<1>u. UNCHANGED <<posts, post2cat, comments, cats, lost>> /\ Forward /\ nextId'.post = nextId.post
  BY <1>r DEF SendInsert, CommentExec, db, Forward, NextIds
<1>c. Finish(w) => Facts' /\ TxInv'
  BY <1>r, <1>u, CalmSteps, CalmStep
<1>k. \A v \in Workers : Keeps(v)
  BY <1>u, KeepsSame
<1>f. Facts'
  BY <1>u, FactsFrame
<1> SUFFICES ASSUME ~Finish(w) PROVE TxInv'
  BY <1>c, <1>f
<1>1. CASE SendInsert(w)
  <2> DEFINE X == SendRises(req[w])
             n == nextId.comment
             r == [req[w] EXCEPT !.pc = "tx", !.comment = n, !.rises = X]
  <2>1. /\ EnterWrite(w, r) /\ req[w].op = "send" /\ req[w].pc = "exec" /\ PostFree(w, req[w].post)
        /\ posts[req[w].post] # NoRow /\ n <= MaxComment /\ nextId'.comment = n + 1
    BY <1>1, <1>r, IdAssumption DEF SendInsert, At, NextIds
  <2> HIDE DEF X
  <2>2. r.op = "send" /\ r.pc = "tx" /\ r.post = req[w].post /\ r.comment = n
    BY <1>r, <2>1 DEF Request
  <2> HIDE DEF r
  <2>3. Others(w) /\ req'[w] = r
    BY <1>r, <2>1, OthersEnter
  <2>4. comments[n] = NoRow /\ n < nextId'.comment
    BY <1>r, <2>1, IdAssumption DEF Facts, FreshIds, CommentId
  <2>5. Known(req[w])' /\ SendHolds(w)'
    BY <1>r, <1>u, <2>1, <2>2, <2>3, <2>4 DEF Known, SendHolds
  <2>6. \A v \in Workers \ {w}, p \in PostId : ~(LocksPost(w, p)' /\ LocksPost(v, p))
    BY <2>1, <2>2, <2>3 DEF LocksPost, PostFree
  <2>7. \A v \in Workers \ {w} :
          At(v, "send", "tx") \/ req[v].op \in {"erase", "amend"} => n # req[v].comment
    <3> SUFFICES ASSUME NEW v \in Workers \ {w},
                        At(v, "send", "tx") \/ req[v].op \in {"erase", "amend"}
                 PROVE  n # req[v].comment
      OBVIOUS
    <3>1. req[v].comment < nextId.comment
      BY DEF TxInv, TxHolds, SendHolds, KnownIds, Known
    <3> QED BY <1>r, <3>1
  <2>8. Enters(w)
    BY <2>2, <2>3, <2>5, <2>6, <2>7 DEF Enters, InsertHolds, EditHolds, CommentHolds, At
  <2> QED BY <1>u, <1>k, <2>3, <2>8, TxFrame
<1>2. CASE CommentExec(w)
  <2> DEFINE X == CommentRises(req[w])
             r == [req[w] EXCEPT !.pc = "tx", !.rises = X]
  <2>1. /\ EnterWrite(w, r) /\ req[w].op \in {"erase", "amend"}
        /\ req[w].op = "erase" => PostFree(w, req[w].post)
        /\ nextId' = nextId
    BY <1>2 DEF CommentExec, db
  <2> HIDE DEF X
  <2>2. r.op = req[w].op /\ r.pc = "tx" /\ r.post = req[w].post /\ r.comment = req[w].comment
    BY <1>r DEF Request
  <2> HIDE DEF r
  <2>3. Others(w) /\ req'[w] = r
    BY <1>r, <2>1, OthersEnter
  <2>4. Known(req[w])'
    BY <1>r, <2>1, <2>2, <2>3 DEF Known
  <2>5. CommentHolds(w)'
    BY <1>u, <2>1, <2>2, <2>3 DEF TxInv, TxHolds, CommentHolds
  <2>6. \A v \in Workers \ {w}, p \in PostId : ~(LocksPost(w, p)' /\ LocksPost(v, p))
    BY <2>1, <2>2, <2>3 DEF LocksPost, PostFree
  <2>7. \A v \in Workers \ {w} : At(v, "send", "tx") => req[w].comment # req[v].comment
    BY <2>1 DEF TxInv, SendAlone
  <2>8. Enters(w)
    BY <2>1, <2>2, <2>3, <2>4, <2>5, <2>6, <2>7 DEF Enters, InsertHolds, EditHolds, SendHolds, At
  <2> QED BY <1>u, <1>k, <2>3, <2>8, TxFrame
<1> QED BY <1>1, <1>2

(* A commit that adds or erases one comment and counts again. *)
LEMMA CountCommit ==
  ASSUME Types, Types', Facts, NEW p \in PostId, NEW k \in CommentId,
         \A j \in CommentId \ {k} : comments'[j] = comments[j],
         comments[k] # NoRow => comments[k].post = p,
         comments'[k] # NoRow => /\ comments'[k].post = p /\ posts[p] # NoRow
                                 /\ k < nextId.comment,
         posts' = IF posts[p] = NoRow THEN posts
                  ELSE [posts EXCEPT ![p].count = Recount(p, comments')],
         UNCHANGED <<post2cat, cats, nextId, lost>>
  PROVE  Facts' /\ \A q \in PostId \ {p} : posts'[q] = posts[q]
<1> DEFINE n == Recount(p, comments')
<1>t. TableOK /\ nextId.comment \in Nat
  BY DEF Types, TableOK, NextIds
<1>n. n = Cardinality(CommentsOf(p)')
  BY DEF Recount, CommentsOf
<1>p. posts' = IF posts[p] = NoRow THEN posts ELSE [posts EXCEPT ![p].count = n]
  OBVIOUS
<1> HIDE DEF n
<1>1. \A q \in PostId \ {p} : posts'[q] = posts[q]
  BY <1>t, <1>p DEF TableOK
<1>2. /\ posts[p] = NoRow => posts'[p] = NoRow
      /\ posts[p] # NoRow => /\ posts'[p] # NoRow /\ posts'[p].count = n
                             /\ posts'[p].open = posts[p].open
                             /\ posts'[p].publish = posts[p].publish
  <2>1. CASE posts[p] = NoRow
    BY <1>p, <2>1
  <2>2. CASE posts[p] # NoRow
    <3>1. posts[p] \in Post /\ posts'[p] = [posts[p] EXCEPT !.count = n]
      BY <1>t, <1>p, <2>2 DEF TableOK
    <3>2. n \in Nat
      BY RecountType DEF n
    <3>3. posts'[p] \in Post
      BY <3>1, <3>2 DEF Post
    <3> QED BY <2>2, <3>1, <3>3, NoRowAssumption DEF Post
  <2> QED BY <2>1, <2>2
<1>3. FreshIds'
  BY <1>1, <1>2, <1>t DEF Facts, FreshIds, CommentId
<1>4. PublishSync' /\ StatusSplitNeedsStaleEdit' /\ LinksHaveCategories'
  <2> SUFFICES ASSUME NEW q \in PostId, NEW c \in CatId, post2cat'[q][c] # NoRow
               PROVE  /\ posts'[q] # NoRow /\ post2cat'[q][c].publish = posts'[q].publish
                      /\ post2cat'[q][c].open # posts'[q].open => <<"post", q>> \in lost'
                      /\ cats'[c] # NoRow
    BY DEF PublishSync, StatusSplitNeedsStaleEdit, LinksHaveCategories, Linked, Existing
  <2>1. c \in Linked(q) /\ post2cat'[q] = post2cat[q]
    BY DEF Linked
  <2>2. posts[q] # NoRow
    BY <2>1 DEF Facts, PublishSync
  <2>3. posts'[q] # NoRow /\ posts'[q].publish = posts[q].publish /\ posts'[q].open = posts[q].open
    BY <1>1, <1>2, <2>2
  <2> QED BY <2>1, <2>3 DEF Facts, PublishSync, StatusSplitNeedsStaleEdit, LinksHaveCategories, Existing
<1>5. CommentCountExact'
  <2>1. ASSUME NEW q \in PostId \ {p} PROVE CommentsOf(q)' = CommentsOf(q)
    BY DEF CommentsOf
  <2>2. ASSUME NEW q \in PostId, posts'[q] # NoRow
        PROVE  posts'[q].count = Cardinality(CommentsOf(q)')
    BY <1>1, <1>2, <1>n, <2>1, <2>2 DEF Facts, CommentCountExact
  <2>3. ASSUME NEW j \in CommentId, comments'[j] # NoRow
        PROVE  posts'[comments'[j].post] # NoRow
    <3>1. CASE j = k
      BY <1>2, <2>3, <3>1
    <3>2. CASE j # k
      <4>1. comments'[j] = comments[j] /\ comments[j].post \in PostId
        BY <1>t, <2>3, <3>2 DEF TableOK, Comment
      <4> QED BY <1>1, <1>2, <2>3, <4>1 DEF Facts, CommentCountExact
    <3> QED BY <3>1, <3>2
  <2> QED BY <2>2, <2>3 DEF CommentCountExact
<1> QED BY <1>1, <1>3, <1>4, <1>5 DEF Facts

(* The commits of the handlers of comments. *)
LEMMA CommentCommitSafe ==
  ASSUME Types, Types', Facts, TxInv, NEW w \in Workers,
         SendCommit(w) \/ EraseCommit(w) \/ AmendCommit(w)
  PROVE  Facts' /\ TxInv'
<1> DEFINE r == req[w]
           p == r.post
           k == r.comment
<1>r. /\ ReqOK /\ TableOK /\ r \in Request /\ LocalOK(r) /\ CommentHolds(w) /\ SendHolds(w)
      /\ r.pc = "tx" /\ r.op \in {"send", "erase", "amend"}
      /\ nextId.comment \in Nat /\ nextId.post \in Nat
  BY DEF Types, ReqOK, LocalsOK, SendCommit, EraseCommit, AmendCommit, At, TxInv, TxHolds,
         TableOK, NextIds
<1>i. p \in PostId /\ k \in CommentId
  BY <1>r DEF LocalOK
<1>u. UNCHANGED <<post2cat, cats, nextId, lost>> /\ Forward
  BY <1>r DEF SendCommit, EraseCommit, AmendCommit, Forward
<1>c. Others(w) /\ Calm(req'[w])
  <2>1. "render_post" \in ReaderOps
    BY DEF ReaderOps, PostViews
  <2> QED BY <1>r, <2>1, CalmSteps DEF SendCommit, EraseCommit, AmendCommit
<1>s. ASSUME \A v \in Workers \ {w} : Keeps(v), Facts' PROVE Facts' /\ TxInv'
  BY <1>c, <1>u, <1>s, CalmEnters, TxFrame
<1>1. CASE SendCommit(w)
  <2> DEFINE row == [post |-> p, text |-> r.text]
  <2>0. /\ r.op = "send" /\ posts[p] # NoRow /\ comments[k] = NoRow /\ k < nextId.comment
    BY <1>1, <1>r DEF SendCommit, At, SendHolds
  <2>1. /\ comments' = [comments EXCEPT ![k] = row]
        /\ posts' = [posts EXCEPT ![p].count = Recount(p, comments')]
    BY <1>1 DEF SendCommit
  <2>2. row # NoRow /\ row.post = p
    <3>1. row \in Comment
      BY <1>r, <1>i, <2>0 DEF Comment, LocalOK
    <3> QED BY <3>1, NoRowAssumption
  <2>l. LocksPost(w, p)
    BY <1>r, <2>0 DEF LocksPost, InTx
  <2>x. \A v \in Workers \ {w} :
          At(v, "send", "tx") \/ req[v].op \in {"erase", "amend"} => req[v].comment # k
    BY <1>r, <2>0 DEF TxInv, SendAlone, At
  <2> HIDE DEF row, p, k, r
  <2>3. (\A j \in CommentId \ {k} : comments'[j] = comments[j]) /\ comments'[k] = row
    BY <1>r, <1>i, <2>1 DEF TableOK
  <2>4. Facts' /\ \A q \in PostId \ {p} : posts'[q] = posts[q]
    <3>1. posts' = IF posts[p] = NoRow THEN posts
                   ELSE [posts EXCEPT ![p].count = Recount(p, comments')]
      BY <2>0, <2>1
    <3> QED BY <1>i, <1>u, <2>0, <2>2, <2>3, <3>1, CountCommit
  <2>5. ASSUME NEW v \in Workers \ {w} PROVE Keeps(v)
    <3>0. InsertHolds(v) /\ EditHolds(v) /\ SendHolds(v) /\ CommentHolds(v)
          /\ LocalOK(req[v]) /\ Existing' = Existing
      BY <1>u DEF TxInv, TxHolds, Existing, Types, ReqOK, LocalsOK
    <3>1. ~LocksPost(v, p)
      BY <1>i, <2>l, HeldAlone
    <3>2. req[v].pc = "tx" /\ req[v].op \in {"insert", "edit", "send"}
            => req[v].post \in PostId \ {p} /\ posts'[req[v].post] = posts[req[v].post]
      BY <2>4, <3>0, <3>1 DEF LocksPost, InTx, LocalOK
    <3>3. At(v, "send", "tx") \/ req[v].op \in {"erase", "amend"}
            => comments'[req[v].comment] = comments[req[v].comment]
      BY <2>3, <2>x, <3>0 DEF LocalOK, At
    <3> QED BY <3>0, <3>2, <3>3 DEF Keeps, InsertHolds, EditHolds, SendHolds, CommentHolds, At
  <2> QED BY <1>s, <2>4, <2>5
<1>2. CASE EraseCommit(w)
  <2>0. r.op = "erase" /\ (comments[k] # NoRow => comments[k].post = p)
    BY <1>2, <1>r DEF EraseCommit, At, CommentHolds
  <2>1. /\ comments' = [comments EXCEPT ![k] = NoRow]
        /\ posts' = IF posts[p] = NoRow THEN posts
                    ELSE [posts EXCEPT ![p].count = Recount(p, comments')]
    BY <1>2 DEF EraseCommit
  <2>l. LocksPost(w, p)
    BY <1>r, <2>0 DEF LocksPost, InTx
  <2> HIDE DEF p, k, r
  <2>3. (\A j \in CommentId \ {k} : comments'[j] = comments[j]) /\ comments'[k] = NoRow
    BY <1>r, <1>i, <2>1 DEF TableOK
  <2>4. Facts' /\ \A q \in PostId \ {p} : posts'[q] = posts[q]
    BY <1>i, <1>u, <2>0, <2>1, <2>3, CountCommit
  <2>5. \A v \in Workers \ {w} : Keeps(v)
    BY <1>i, <1>u, <2>l, <2>3, <2>4, CommitKeeps
  <2> QED BY <1>s, <2>4, <2>5
<1>3. CASE AmendCommit(w)
  <2>1. \A j \in CommentId : /\ comments'[j] # NoRow <=> comments[j] # NoRow
                             /\ comments[j] # NoRow => comments'[j].post = comments[j].post
    <3>1. r.text \in Texts
      BY <1>3, <1>r DEF AmendCommit, At, LocalOK
    <3>2. CASE comments[k] = NoRow
      BY <1>3, <3>2 DEF AmendCommit
    <3>3. CASE comments[k] # NoRow
      <4>1. comments' = [comments EXCEPT ![k].text = r.text]
        BY <1>3, <3>3 DEF AmendCommit
      <4>2. comments[k] \in Comment
        BY <1>r, <1>i, <3>3 DEF TableOK
      <4>3. [comments[k] EXCEPT !.text = r.text] \in Comment
            /\ [comments[k] EXCEPT !.text = r.text].post = comments[k].post
        BY <3>1, <4>2 DEF Comment
      <4> QED BY <1>r, <1>i, <3>3, <4>1, <4>3, NoRowAssumption DEF TableOK
    <3> QED BY <3>2, <3>3
  <2>2. posts' = posts
    BY <1>3 DEF AmendCommit
  <2>3. CommentCountExact'
    <3>1. \A q \in PostId : CommentsOf(q)' = CommentsOf(q)
      BY <2>1 DEF CommentsOf
    <3> QED BY <2>1, <2>2, <3>1 DEF Facts, CommentCountExact
  <2>4. Facts'
    BY <1>u, <2>1, <2>2, <2>3
       DEF Facts, FreshIds, PublishSync, StatusSplitNeedsStaleEdit, LinksHaveCategories, Linked, Existing
  <2>5. ASSUME NEW v \in Workers \ {w} PROVE Keeps(v)
    <3>0. InsertHolds(v) /\ EditHolds(v) /\ SendHolds(v) /\ CommentHolds(v)
          /\ LocalOK(req[v]) /\ Existing' = Existing
      BY <1>u DEF TxInv, TxHolds, Existing, Types, ReqOK, LocalsOK
    <3>1. At(v, "send", "tx") \/ req[v].op \in {"erase", "amend"} => req[v].comment \in CommentId
      BY <3>0 DEF LocalOK, At
    <3> QED BY <2>1, <2>2, <3>0, <3>1
            DEF Keeps, InsertHolds, EditHolds, SendHolds, CommentHolds
  <2> QED BY <1>s, <2>4, <2>5
<1> QED BY <1>1, <1>2, <1>3

(* Categories: the rows that a transaction has joined stay until it ends. *)
LEMMA CategorySafe ==
  ASSUME Types, Types', Facts, TxInv, NEW w \in Workers, CatAdd(w) \/ CatRename(w) \/ CatDelete(w)
  PROVE  Facts' /\ TxInv'
<1>r. ReqOK /\ TableOK /\ nextId \in NextIds
  BY DEF Types, TableOK
<1>u. UNCHANGED <<posts, comments, lost>> /\ Forward
  BY <1>r DEF CatAdd, CatRename, CatDelete, Forward, NextIds
<1>c. Others(w) /\ Calm(req'[w])
  BY <1>r, CalmSteps DEF CatAdd, CatRename, CatDelete
<1>1. /\ \A p \in PostId, c \in CatId : post2cat'[p][c] # NoRow =>
            post2cat'[p][c] = post2cat[p][c] /\ cats'[c] # NoRow
      /\ \A v \in Workers \ {w} : req[v].pc = "tx" /\ req[v].add \subseteq Existing
            => req[v].add \subseteq Existing'
  <2>l. \A p \in PostId, c \in CatId : post2cat[p][c] # NoRow => cats[c] # NoRow
    BY DEF Facts, LinksHaveCategories, Linked, Existing
  <2>1. CASE CatAdd(w)
    <3>1. PICK name \in Texts : cats' = [cats EXCEPT ![nextId.cat] = name]
      BY <2>1 DEF CatAdd
    <3>2. \A c \in CatId : cats[c] # NoRow => cats'[c] # NoRow
      BY <1>r, <3>1, NoRowAssumption DEF TableOK
    <3> QED BY <2>1, <2>l, <3>2 DEF CatAdd, Existing
  <2>2. CASE CatRename(w)
    <3>1. PICK c \in CatId, name \in Texts :
            cats' = [cats EXCEPT ![c] = IF cats[c] = NoRow THEN NoRow ELSE name]
      BY <2>2 DEF CatRename
    <3>2. \A d \in CatId : cats[d] # NoRow => cats'[d] # NoRow
      BY <1>r, <3>1, NoRowAssumption DEF TableOK
    <3> QED BY <2>2, <2>l, <3>2 DEF CatRename, Existing
  <2>3. CASE CatDelete(w)
    <3> DEFINE c == req[w].id
    <3>1. /\ CatFree(w, c)
          /\ \/ UNCHANGED <<cats, post2cat>>
             \/ /\ cats' = [cats EXCEPT ![c] = NoRow]
                /\ post2cat' = [p \in PostId |-> [post2cat[p] EXCEPT ![c] = NoRow]]
      BY <2>3 DEF CatDelete
    <3> HIDE DEF c
    <3>2. CASE UNCHANGED <<cats, post2cat>>
      BY <2>l, <3>2 DEF Existing
    <3>3. CASE ~UNCHANGED <<cats, post2cat>>
      <4>1. /\ \A d \in CatId : d # c => cats'[d] = cats[d]
            /\ \A p \in PostId, d \in CatId :
                  post2cat'[p][d] = IF d = c THEN NoRow ELSE post2cat[p][d]
        BY <1>r, <3>1, <3>3 DEF TableOK
      <4>2. \A v \in Workers \ {w} : req[v].pc = "tx" => c \notin req[v].add
        BY <3>1 DEF CatFree, LocksCat, InTx
      <4> QED BY <2>l, <4>1, <4>2 DEF Existing
    <3> QED BY <3>2, <3>3
  <2> QED BY <2>1, <2>2, <2>3
<1>2. Facts'
  <2>1. PublishSync' /\ StatusSplitNeedsStaleEdit' /\ LinksHaveCategories'
    BY <1>1, <1>u DEF Facts, PublishSync, StatusSplitNeedsStaleEdit, LinksHaveCategories, Linked, Existing
  <2>2. CommentCountExact'
    BY <1>u DEF Facts, CommentCountExact, CommentsOf
  <2>3. FreshIds'
    BY <1>r, <1>u DEF CatAdd, CatRename, CatDelete, Facts, FreshIds, NextIds
  <2> QED BY <2>1, <2>2, <2>3 DEF Facts
<1>3. ASSUME NEW v \in Workers \ {w} PROVE Keeps(v)
  <2>1. InsertHolds(v) /\ EditHolds(v) /\ SendHolds(v) /\ CommentHolds(v)
    BY DEF TxInv, TxHolds
  <2> QED BY <1>1, <1>u, <2>1 DEF Keeps, InsertHolds, EditHolds, SendHolds, CommentHolds, At
<1> QED BY <1>c, <1>u, <1>2, <1>3, CalmEnters, TxFrame

-----------------------------------------------------------------------------
(* The theorems.                                                           *)

(* A configured blog without posts satisfies the invariant. *)
LEMMA InitInv == Init => TableInv
<1> SUFFICES ASSUME Init PROVE TableInv
  OBVIOUS
<1>1. TypeOK
  BY IdleType DEF Init, TypeOK, NextIds
<1>2. req = [w \in Workers |-> Idle] /\ \A w \in Workers : req[w].op = "idle"
  BY DEF Init, Idle
<1>3. LocalsOK
  BY <1>2, IdleLocal DEF LocalsOK
<1>4. Facts
  BY DEF Init, Facts, FreshIds, PublishSync, CommentCountExact, StatusSplitNeedsStaleEdit,
         LinksHaveCategories, Linked
<1>5. TxInv
  BY <1>2 DEF TxInv, KnownIds, Known, PostLockExclusive, LocksPost, TxHolds, InsertHolds,
         EditHolds, SendHolds, CommentHolds, SendAlone, At
<1> QED BY <1>1, <1>3, <1>4, <1>5, TypeParts, InvParts DEF Types

(* A restart leaves the tables as the last commits left them. *)
LEMMA RestartSafe ==
  ASSUME Types, Types', Facts, Restart PROVE Facts' /\ TxInv'
<1>1. UNCHANGED <<db, lost>> /\ req' = [w \in Workers |-> Idle]
  BY DEF Restart
<1>2. UNCHANGED <<posts, post2cat, comments, cats>> /\ Forward
  BY <1>1, ForwardSame DEF db
<1>3. \A w \in Workers : req'[w].op = "idle"
  BY <1>1 DEF Idle
<1>4. TxInv'
  BY <1>3 DEF TxInv, KnownIds, Known, PostLockExclusive, LocksPost, TxHolds, InsertHolds,
         EditHolds, SendHolds, CommentHolds, SendAlone, At
<1> QED BY <1>2, <1>4, FactsFrame

(* Every step of every request keeps the types. *)
LEMMA StepTypes ==
  ASSUME Types, Facts, TxInv, Next PROVE Types'
<1>1. CASE Restart
  <2>1. ReqOK'
    BY <1>1, IdleType, IdleLocal DEF Restart, ReqOK, LocalsOK
  <2> QED BY <1>1, <2>1, ClearOK, RequestAndCache DEF Restart, Types
<1>2. ASSUME NEW w \in Workers, Arrive(w) \/ Step(w) PROVE Types'
  <2>1. CASE PostStart(w) \/ PostAdminStep(w)
    BY <2>1, PostAdminTypes
  <2>2. CASE Postback(w) \/ CommentStart(w) \/ CommentStep(w)
    BY <2>2, CommentTypes DEF Facts, TxInv
  <2>3. CASE \/ CatAdd(w) \/ CatRename(w) \/ CatRemove(w) \/ PageInsert(w) \/ PageIsOpen(w)
             \/ OptionsExec(w) \/ AdminForm(w) \/ ClearCache(w) \/ NewLanguage(w)
             \/ SiteAdminStep(w)
    BY <2>3, SiteAdminTypes
  <2>4. CASE \/ DisplayPost(w) \/ DisplayPage(w) \/ Preview(w)
             \/ FeedComments(w) \/ FeedPosts(w) \/ FeedCat(w)
    BY <2>4, StartTypes
  <2>5. CASE ViewStep(w)
    BY <2>5, ViewTypes DEF Facts
  <2>6. CASE Rise(w) \/ AfterRises(w) \/ Rollback(w) \/ LockTimeout(w)
    BY <2>6, OtherTypes
  <2> QED BY <1>2, <2>1, <2>2, <2>3, <2>4, <2>5, <2>6 DEF Arrive, Step
<1> QED BY <1>1, <1>2 DEF Next

(* Every step keeps what the tables and the transactions satisfy. *)
LEMMA StepSafe ==
  ASSUME Types, Types', Facts, TxInv, Next PROVE Facts' /\ TxInv'
<1>1. CASE Restart
  BY <1>1, RestartSafe
<1>2. ASSUME NEW w \in Workers, Arrive(w) \/ Step(w) PROVE Facts' /\ TxInv'
  <2>1. CASE PostStart(w) \/ PostIsOpen(w) \/ PostInUse(w) \/ PostForm(w)
    BY <2>1, PostReadSafe
  <2>2. CASE PostInsert(w) \/ PostRemove(w) \/ PostEdit(w)
    BY <2>2, PostExecSafe
  <2>3. CASE PostInsertCommit(w) \/ PostRemoveCommit(w) \/ PostEditCommit(w)
    BY <2>3, InsertCommitSafe, RemoveCommitSafe, EditCommitSafe
  <2>4. CASE Postback(w) \/ SendSelect(w) \/ CommentStart(w)
    BY <2>4, CommentReadSafe
  <2>5. CASE SendInsert(w) \/ CommentExec(w)
    BY <2>5, CommentExecSafe
  <2>6. CASE SendCommit(w) \/ EraseCommit(w) \/ AmendCommit(w)
    BY <2>6, CommentCommitSafe
  <2>7. CASE CatAdd(w) \/ CatRename(w) \/ CatDelete(w)
    BY <2>7, CategorySafe
  <2>8. CASE Rise(w) \/ NewLanguage(w)
    BY <2>8, RiseSafe
  <2>9. CASE \/ DisplayPost(w) \/ DisplayPage(w) \/ Preview(w)
             \/ FeedComments(w) \/ FeedPosts(w) \/ FeedCat(w) \/ ViewStep(w)
             \/ CatRemove(w) \/ PageInsert(w) \/ PageIsOpen(w) \/ PageDelete(w) \/ PageUpdate(w)
             \/ OptionsExec(w) \/ OptionsCommit(w) \/ AfterRises(w) \/ Rollback(w) \/ LockTimeout(w)
             \/ AdminForm(w) \/ ClearCache(w)
    BY <2>9, QuietSafe
  <2> QED BY <1>2, <2>1, <2>2, <2>3, <2>4, <2>5, <2>6, <2>7, <2>8, <2>9
          DEF Arrive, Step, PostAdminStep, CommentStep, SiteAdminStep
<1> QED BY <1>1, <1>2 DEF Next

(* A step that changes nothing keeps everything. *)
LEMMA StutterInv == TableInv /\ UNCHANGED vars => TableInv'
<1> SUFFICES ASSUME TableInv, UNCHANGED vars PROVE TableInv'
  OBVIOUS
<1>1. UNCHANGED <<posts, post2cat, comments, cats, pages, options, nextId, cache, req, lost>>
  BY DEF vars
<1>2. TypeOK' /\ LocalsOK'
  BY <1>1 DEF TableInv, TypeOK, LocalsOK
<1>3. FreshIds' /\ PublishSync' /\ CommentCountExact' /\ StatusSplitNeedsStaleEdit'
      /\ LinksHaveCategories'
  BY <1>1 DEF TableInv, FreshIds, PublishSync, CommentCountExact, StatusSplitNeedsStaleEdit,
       LinksHaveCategories, Linked, Existing, CommentsOf
<1>4. KnownIds' /\ PostLockExclusive' /\ SendAlone'
  BY <1>1 DEF TableInv, KnownIds, Known, PostLockExclusive, LocksPost, InTx, SendAlone, At
<1>5. TxHolds'
  BY <1>1 DEF TableInv, TxHolds, InsertHolds, EditHolds, SendHolds, CommentHolds, At, Existing,
       WasOpen
<1> QED BY <1>2, <1>3, <1>4, <1>5 DEF TableInv

(* The invariant holds in every state the blog can reach, whatever the     *)
(* number of threads, posts, categories and comments, with transactions    *)
(* that wait, fail, time out or are cut off by a restart at any point.     *)
THEOREM TableInvariant == Spec => []TableInv
<1>1. TableInv /\ [Next]_vars => TableInv'
  <2>1. ASSUME TableInv, Next PROVE TableInv'
    <3>1. Types /\ Facts /\ TxInv
      BY <2>1, InvParts
    <3>2. Types'
      BY <2>1, <3>1, StepTypes
    <3>3. Facts' /\ TxInv'
      BY <2>1, <3>1, <3>2, StepSafe
    <3> QED BY <3>2, <3>3, InvParts, PTL
  <2> QED BY <2>1, StutterInv
<1> QED BY <1>1, InitInv, PTL DEF Spec

(* The tables, the cache and the local variables of the handlers keep      *)
(* their types: no handler writes a row it has not got the values for.     *)
THEOREM TypeCorrect == Spec => []TypeOK
<1>1. TableInv => TypeOK
  BY DEF TableInv
<1> QED BY <1>1, TableInvariant, PTL

(* post2cat.publish is posts.publish for every link, whatever edits,       *)
(* removals and publications run side by side.                             *)
THEOREM PublishInSync == Spec => []PublishSync
<1>1. TableInv => PublishSync
  BY DEF TableInv
<1> QED BY <1>1, TableInvariant, PTL

(* posts.comment_count is exact: the recounts in the transactions of the   *)
(* postback and of the erasure, with the row of the post held, suffice.    *)
THEOREM CommentCounts == Spec => []CommentCountExact
<1>1. TableInv => CommentCountExact
  BY DEF TableInv
<1> QED BY <1>1, TableInvariant, PTL

(* The two copies of is_open differ only after a form built from values    *)
(* that were outdated when it was written.                                 *)
THEOREM StatusSplit == Spec => []StatusSplitNeedsStaleEdit
<1>1. TableInv => StatusSplitNeedsStaleEdit
  BY DEF TableInv
<1> QED BY <1>1, TableInvariant, PTL

(* The removal of a category never leaves a link to it behind.             *)
THEOREM NoDanglingLinks == Spec => []LinksHaveCategories
<1>1. TableInv => LinksHaveCategories
  BY DEF TableInv
<1> QED BY <1>1, TableInvariant, PTL

=============================================================================
