------------------------------- MODULE Comments -------------------------------
(***************************************************************************)
(* Comments: a visitor's postback (blog::post::postback) adds one, the     *)
(* administrator (admin::comment::prepare) changes or erases one.  Both    *)
(* keep posts.comment_count, the number that the lists of posts show.      *)
(***************************************************************************)
EXTENDS BlogData

(***************************************************************************)
(* POST /post/<id>/postback.  A comment that fails validation is not sent: *)
(* the page is rendered again, without being cached, and so it is for the  *)
(* preview button of the form once the post is found to be open.           *)
(***************************************************************************)
Postback(w) ==
    /\ "postback" \in Ops /\ IsIdle(w)
    /\ \E p \in PostId, z \in Spellings, t \in Texts :
         \/ Begin(w, "render_post", "row", p, z)
         \/ req' = [req EXCEPT ![w] = [Idle EXCEPT !.op = "send", !.pc = "select",
                        !.id = p, !.zeros = z, !.post = p, !.text = t]]
    /\ UNCHANGED <<db, cache, lost>>

(* SELECT is_open in the transaction, without a lock; 404 unless it is open. *)
SendSelect(w) ==
    /\ At(w, "send", "select")
    /\ IF posts[req[w].post] # NoRow /\ posts[req[w].post].open = 1
       THEN Goto(w, "exec") \/ Begin(w, "render_post", "row", req[w].id, req[w].zeros)
       ELSE Finish(w)
    /\ UNCHANGED <<db, cache, lost>>

(***************************************************************************)
(* INSERT INTO comments and UPDATE posts SET comment_count.  The insertion *)
(* checks the foreign key and so waits for a transaction that holds the    *)
(* post; it fails when the post has been removed since it was read, and    *)
(* when the ids are exhausted.                                             *)
(***************************************************************************)
SendRises(r) == {PostKey(r.post, 0), CommentsKey}

SendInsert(w) ==
    /\ At(w, "send", "exec") /\ PostFree(w, req[w].post)
    /\ IF posts[req[w].post] = NoRow \/ nextId.comment > MaxComment
       THEN Finish(w)
       ELSE EnterWrite(w, [req[w] EXCEPT !.pc = "tx", !.comment = nextId.comment,
                                         !.rises = SendRises(req[w])])
    /\ nextId' = IF nextId.comment <= MaxComment THEN [nextId EXCEPT !.comment = @ + 1]
                                                  ELSE nextId
    /\ UNCHANGED <<posts, post2cat, comments, cats, pages, options, cache, lost>>

(* The count is taken again from the table, with the new comment in it. *)
Recount(p, table) ==
    Cardinality({k \in CommentId : table[k] # NoRow /\ table[k].post = p})

SendCommit(w) ==
    /\ At(w, "send", "tx") /\ req[w].rises = {}
    /\ comments' = [comments EXCEPT ![req[w].comment] =
                      [post |-> req[w].post, text |-> req[w].text]]
    /\ posts' = [posts EXCEPT ![req[w].post].count = Recount(req[w].post, comments')]
    /\ Begin(w, "render_post", "row", req[w].id, req[w].zeros)
    /\ UNCHANGED <<post2cat, cats, pages, options, nextId, cache, lost>>

-----------------------------------------------------------------------------
(***************************************************************************)
(* POST /admin/comment/<id>: SELECT post_id in the transaction, without a  *)
(* lock; 404 when the comment is not there.                                *)
(***************************************************************************)
CommentStart(w) ==
    /\ "comment" \in Ops /\ IsIdle(w)
    /\ \E k \in CommentId, op \in {"erase", "amend"}, t \in Texts :
         /\ comments[k] # NoRow
         /\ req' = [req EXCEPT ![w] = [Idle EXCEPT !.op = op, !.pc = "exec",
                      !.comment = k, !.post = comments[k].post,
                      !.text = IF op = "amend" THEN t ELSE NoRow]]
    /\ UNCHANGED <<db, cache, lost>>

(***************************************************************************)
(* DELETE and the recount, or UPDATE of the text.  The rows may have gone  *)
(* since the SELECT: the statements then change nothing.                   *)
(***************************************************************************)
CommentRisesFeedOnly(r) == {CommentsKey}  \* variant without the page of the post
CommentRises(r) == {PostKey(r.post, 0), CommentsKey}

CommentExec(w) ==
    /\ req[w].op \in {"erase", "amend"} /\ req[w].pc = "exec"
    /\ CommentFree(w, req[w].comment)
    /\ req[w].op = "erase" => PostFree(w, req[w].post)
    /\ EnterWrite(w, [req[w] EXCEPT !.pc = "tx", !.rises = CommentRises(req[w])])
    /\ UNCHANGED <<db, cache, lost>>

\* Variant without the UPDATE of comment_count.
EraseCommitUncounted(w) ==
    /\ At(w, "erase", "tx") /\ req[w].rises = {}
    /\ comments' = [comments EXCEPT ![req[w].comment] = NoRow]
    /\ Finish(w)
    /\ UNCHANGED <<posts, post2cat, cats, pages, options, nextId, cache, lost>>

EraseCommit(w) ==
    /\ At(w, "erase", "tx") /\ req[w].rises = {}
    /\ comments' = [comments EXCEPT ![req[w].comment] = NoRow]
    /\ posts' = IF posts[req[w].post] = NoRow THEN posts
                ELSE [posts EXCEPT ![req[w].post].count = Recount(req[w].post, comments')]
    /\ Finish(w)
    /\ UNCHANGED <<post2cat, cats, pages, options, nextId, cache, lost>>

AmendCommit(w) ==
    /\ At(w, "amend", "tx") /\ req[w].rises = {}
    /\ comments' = IF comments[req[w].comment] = NoRow THEN comments
                   ELSE [comments EXCEPT ![req[w].comment].text = req[w].text]
    /\ Finish(w)
    /\ UNCHANGED <<posts, post2cat, cats, pages, options, nextId, cache, lost>>

=============================================================================
