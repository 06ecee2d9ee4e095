------------------------------- MODULE PostAdmin -------------------------------
(***************************************************************************)
(* /admin/post: the handler admin::post::prepare_shared, which writes,     *)
(* changes, publishes, unpublishes and removes posts.                      *)
(*                                                                         *)
(* The handler first reads is_open, the categories the post is in and the  *)
(* categories there are, each with a query of its own and outside any      *)
(* transaction, builds the form from them, and only then opens the         *)
(* transaction that writes.  What it writes depends on what it read.       *)
(***************************************************************************)
EXTENDS BlogData

(* A POST to /admin/post/<id>, or to /admin/post for a new one (id 0). *)
PostStart(w) ==
    /\ "post" \in Ops /\ IsIdle(w)
    /\ \E p \in {0} \cup PostId :
         req' = [req EXCEPT ![w] = [Idle EXCEPT
                    !.op = "post", !.post = p,
                    !.pc = IF p = 0 THEN "form" ELSE "is_open"]]
    /\ UNCHANGED <<db, cache, lost>>

(* SELECT is_open FROM posts; 404 when there is no such post. *)
PostIsOpen(w) ==
    /\ At(w, "post", "is_open")
    /\ IF posts[req[w].post] = NoRow
       THEN Finish(w)
       ELSE req' = [req EXCEPT ![w].open = posts[req[w].post].open,
                               ![w].pc = "in_use"]
    /\ UNCHANGED <<db, cache, lost>>

(* The categories the post is in become the list of those it can leave. *)
PostInUse(w) ==
    /\ At(w, "post", "in_use")
    /\ req' = [req EXCEPT ![w].inUse = Linked(req[w].post) \cap Existing,
                          ![w].pc = "form"]
    /\ UNCHANGED <<db, cache, lost>>

(***************************************************************************)
(* SELECT id,name FROM cats: those not in use become the list of those it  *)
(* can join.  Then the form is loaded: a form that does not validate, and  *)
(* "remove" on a new post, write nothing; otherwise the buttons and the    *)
(* boxes decide.  open_status is the is_open read, flipped by the button   *)
(* that publishes and unpublishes.                                         *)
(***************************************************************************)
PostSave(w, t, change, now, add, del) ==
    req' = [req EXCEPT ![w].op = IF req[w].post = 0 THEN "insert" ELSE "edit",
                       ![w].pc = "exec", ![w].text = t, ![w].change = change,
                       ![w].now = now, ![w].add = add, ![w].del = del,
                       ![w].open = Flipped(req[w].open, change)]

PostForm(w) ==
    /\ At(w, "post", "form")
    /\ \/ RenderAdmin(w)
       \/ req[w].post = 0 /\ Finish(w)
       \/ \E t \in Texts, change \in Flag, now \in Times,
             add \in SUBSET (Existing \ req[w].inUse), del \in SUBSET req[w].inUse :
            PostSave(w, t, change, now, add, del)
       \/ req[w].post # 0 /\ req' = [req EXCEPT ![w].op = "remove", ![w].pc = "exec"]
    /\ UNCHANGED <<db, cache, lost>>

-----------------------------------------------------------------------------
(***************************************************************************)
(* A new post: INSERT INTO posts, then, for every box, INSERT INTO         *)
(* post2cat and the rise of its trigger.  A category that has gone fails   *)
(* the foreign key: the exception comes when the boxes before it have been *)
(* dealt with, and the id that was allocated is not used again.  When the  *)
(* ids are exhausted the first insertion fails.                            *)
(***************************************************************************)
JoinRises(r, can) == {CatTrigger(c, 0) : c \in r.add \cap can}
InsertRisesNoList(r) == {CatTrigger(c, 0) : c \in r.add}  \* variant without "cat_0"
InsertRises(r) == {CatTrigger(c, 0) : c \in r.add}
                    \cup (IF r.open = 1 THEN {AllPosts} ELSE {})

PostInsert(w) ==
    /\ At(w, "insert", "exec")
    /\ IF nextId.post > MaxPost THEN Finish(w)
       ELSE IF req[w].add \subseteq Existing
       THEN EnterWrite(w, [req[w] EXCEPT !.pc = "tx", !.post = nextId.post,
                                         !.rises = InsertRises(req[w])])
       ELSE EnterWrite(w, [req[w] EXCEPT !.pc = "fail", !.post = nextId.post,
                                         !.rises = JoinRises(req[w], Existing)])
    /\ nextId' = IF nextId.post <= MaxPost THEN [nextId EXCEPT !.post = @ + 1] ELSE nextId
    /\ UNCHANGED <<posts, post2cat, comments, cats, pages, options, cache, lost>>

PostInsertCommit(w) ==
    /\ At(w, "insert", "tx") /\ req[w].rises = {}
    /\ posts' = [posts EXCEPT ![req[w].post] =
                   [text |-> req[w].text, open |-> req[w].open,
                    publish |-> req[w].now, count |-> 0]]
    /\ post2cat' = [post2cat EXCEPT ![req[w].post] =
                      [c \in CatId |-> IF c \in req[w].add
                                       THEN [open |-> req[w].open, publish |-> req[w].now]
                                       ELSE NoRow]]
    /\ \/ Finish(w)
       \/ RenderAdmin(w)
    /\ UNCHANGED <<comments, cats, pages, options, nextId, cache, lost>>

-----------------------------------------------------------------------------
(* Removal: the comments, the links, the post, and two triggers. *)
RemoveRisesPostOnly(r) == {PostKey(r.post, 0)}  \* variant without "comments"
RemoveRises(r) == {CommentsKey, PostKey(r.post, 0)}

PostRemove(w) ==
    /\ At(w, "remove", "exec")
    /\ PostFree(w, req[w].post)
    /\ \A k \in CommentsOf(req[w].post) : CommentFree(w, k)
    /\ EnterWrite(w, [req[w] EXCEPT !.pc = "tx", !.rises = RemoveRises(req[w])])
    /\ UNCHANGED <<db, cache, lost>>

\* Variant without the DELETE FROM post2cat.
PostRemoveCommitKeepsLinks(w) ==
    /\ At(w, "remove", "tx") /\ req[w].rises = {}
    /\ comments' = [k \in CommentId |-> IF k \in CommentsOf(req[w].post)
                                        THEN NoRow ELSE comments[k]]
    /\ posts' = [posts EXCEPT ![req[w].post] = NoRow]
    /\ Finish(w)
    /\ UNCHANGED <<post2cat, cats, pages, options, nextId, cache, lost>>

PostRemoveCommit(w) ==
    /\ At(w, "remove", "tx") /\ req[w].rises = {}
    /\ comments' = [k \in CommentId |-> IF k \in CommentsOf(req[w].post)
                                        THEN NoRow ELSE comments[k]]
    /\ post2cat' = [post2cat EXCEPT ![req[w].post] = [c \in CatId |-> NoRow]]
    /\ posts' = [posts EXCEPT ![req[w].post] = NoRow]
    /\ Finish(w)
    /\ UNCHANGED <<cats, pages, options, nextId, cache, lost>>

-----------------------------------------------------------------------------
(***************************************************************************)
(* A change.  When the post has gone, the SELECT publish finds no row and  *)
(* the exception comes before any rise; a form that publishes has no such  *)
(* SELECT.  The insertion into post2cat fails when the post or a category  *)
(* to join has gone (foreign key) or the category was joined meanwhile     *)
(* (unique key), after the rises that come before it.  lost records a      *)
(* change that was decided on an is_open or a set of categories that is no *)
(* longer the one in the table.                                            *)
(***************************************************************************)
Publishing(r) == r.change = 1 /\ r.open = 1
EditRises(r) ==
    (IF r.change = 1 THEN {AllPosts} \cup {CatTrigger(c, 0) : c \in r.inUse} ELSE {})
      \cup {PostKey(r.post, 0)} \cup {CatTrigger(c, 0) : c \in r.add}
NoDate(r) == posts[r.post] = NoRow /\ ~Publishing(r)
JoinableUnchecked(r) ==  \* variant without the foreign key to cats
    IF posts[r.post] = NoRow THEN {} ELSE CatId \ Linked(r.post)
Joinable(r) == IF posts[r.post] = NoRow THEN {} ELSE Existing \ Linked(r.post)
FailRises(r) == (IF r.change = 1 THEN {AllPosts} ELSE {})
                  \cup {PostKey(r.post, 0)} \cup JoinRises(r, Joinable(r))
WasOpen(r) == Flipped(r.open, r.change)
EditIsStale(r) == /\ posts[r.post] # NoRow
                  /\ WasOpen(r) # posts[r.post].open \/ r.inUse # Linked(r.post)

PostEdit(w) ==
    /\ At(w, "edit", "exec") /\ PostFree(w, req[w].post)
    /\ IF NoDate(req[w]) THEN Finish(w) /\ UNCHANGED lost
       ELSE IF ~(req[w].add \subseteq Joinable(req[w]))
       THEN /\ EnterWrite(w, [req[w] EXCEPT !.pc = "fail", !.rises = FailRises(req[w])])
            /\ UNCHANGED lost
       ELSE /\ EnterWrite(w, [req[w] EXCEPT !.pc = "tx", !.rises = EditRises(req[w])])
            /\ lost' = IF EditIsStale(req[w]) THEN lost \cup {<<"post", req[w].post>>}
                                              ELSE lost
    /\ UNCHANGED <<db, cache>>

(***************************************************************************)
(* The row and the links as the commit leaves them.  Publishing stamps the *)
(* post and its links with the time of the request; any other change keeps *)
(* the date, and links joined now take over the date of the post.          *)
(***************************************************************************)
EditedPost(r) == [posts[r.post] EXCEPT
    !.text = r.text, !.open = r.open,
    !.publish = IF Publishing(r) THEN r.now ELSE @]
\* Variants: a link joined now is stamped with the time of the request; publishing
\* and unpublishing leave the links the post already has as they are.
EditedLinkNow(r, c) ==
    IF c \in r.del THEN NoRow
    ELSE IF c \in r.add THEN [open |-> r.open, publish |-> r.now]
    ELSE IF post2cat[r.post][c] = NoRow THEN NoRow
    ELSE [open |-> IF r.change = 1 THEN r.open ELSE post2cat[r.post][c].open,
          publish |-> IF Publishing(r) THEN r.now ELSE post2cat[r.post][c].publish]
EditedLinkKept(r, c) ==
    IF c \in r.del THEN NoRow
    ELSE IF c \in r.add THEN [open |-> r.open, publish |-> EditedPost(r).publish]
    ELSE post2cat[r.post][c]
EditedLink(r, c) ==
    IF c \in r.del THEN NoRow
    ELSE IF c \in r.add THEN [open |-> r.open, publish |-> EditedPost(r).publish]
    ELSE IF post2cat[r.post][c] = NoRow THEN NoRow
    ELSE [open |-> IF r.change = 1 THEN r.open ELSE post2cat[r.post][c].open,
          publish |-> IF Publishing(r) THEN r.now ELSE post2cat[r.post][c].publish]

PostEditCommit(w) ==
    /\ At(w, "edit", "tx") /\ req[w].rises = {}
    /\ IF posts[req[w].post] = NoRow
       THEN UNCHANGED <<posts, post2cat>>
       ELSE /\ posts' = [posts EXCEPT ![req[w].post] = EditedPost(req[w])]
            /\ post2cat' = [post2cat EXCEPT ![req[w].post] =
                              [c \in CatId |-> EditedLink(req[w], c)]]
    /\ RenderAdmin(w)
    /\ UNCHANGED <<comments, cats, pages, options, nextId, cache, lost>>

=============================================================================
