------------------------------- MODULE BlogInv -------------------------------
(***************************************************************************)
(* The inductive invariant behind the properties of the tables: what the   *)
(* local variables of a request hold, and what a transaction may rely on   *)
(* between its statements and its commit because of the rows it holds.     *)
(***************************************************************************)
EXTENDS Blog

(* The ids and the values of a request, by handler (a list renders like a
   preview, without the id of a page). *)
LocalOK(r) ==
    /\ r.pc \in ReaderPcs => r.op \in ReaderOps
    /\ r.op \in PostViews => r.id \in PostId
    /\ r.op \in PageViews /\ (r.op = "display_page" \/ r.pc = "row") => r.id \in PageId
    /\ r.op \in {"feed_cat", "cat_remove"} => r.id \in CatId
    /\ r.op = "page" /\ r.pc = "exec" => r.id \in PageId
    /\ r.op = "post" => r.post \in {0} \cup PostId
    /\ r.op = "post" /\ r.pc \in {"is_open", "in_use"} => r.post \in PostId
    /\ r.op \in {"edit", "remove", "send", "erase", "amend"} => r.post \in PostId
    /\ r.op = "insert" /\ r.pc \in {"tx", "fail"} => r.post \in PostId
    /\ r.op = "send" => r.id \in PostId
    /\ r.op \in {"insert", "edit", "send", "amend", "options"} => r.text \in Texts
    /\ r.op \in {"insert", "edit"} => r.now \in Times
    /\ r.op \in {"erase", "amend"} => r.comment \in CommentId
    /\ r.op = "send" /\ r.pc = "tx" => r.comment \in CommentId
LocalsOK == \A w \in Workers : LocalOK(req[w])

(* Ids that have not been handed out yet are free. *)
FreshIds ==
    /\ \A p \in PostId : p >= nextId.post => posts[p] = NoRow
    /\ \A k \in CommentId : k >= nextId.comment => comments[k] = NoRow

(* A request that has read a row has an id that was handed out before. *)
Known(r) ==
    /\ r.op \in {"edit", "remove", "erase", "amend"} => r.post < nextId.post
    /\ r.op = "insert" /\ r.pc \in {"tx", "fail"} => r.post < nextId.post
    /\ r.op = "send" /\ r.pc # "select" => r.post < nextId.post
    /\ r.op = "post" /\ r.pc # "is_open" => r.post < nextId.post
    /\ r.op \in {"erase", "amend"} => r.comment < nextId.comment
KnownIds == \A w \in Workers : Known(req[w])

(* At most one transaction holds a post. *)
PostLockExclusive ==
    \A v, w \in Workers : \A p \in PostId : LocksPost(v, p) /\ LocksPost(w, p) => v = w

(* What the rows that a transaction holds guarantee until its commit. *)
InsertHolds(w) == At(w, "insert", "tx") =>
    /\ posts[req[w].post] = NoRow
    /\ req[w].add \subseteq Existing
EditHolds(w) == At(w, "edit", "tx") /\ posts[req[w].post] # NoRow =>
    /\ req[w].add \subseteq Existing
    /\ <<"post", req[w].post>> \notin lost => WasOpen(req[w]) = posts[req[w].post].open
SendHolds(w) == At(w, "send", "tx") =>
    /\ posts[req[w].post] # NoRow
    /\ req[w].comment < nextId.comment /\ comments[req[w].comment] = NoRow
CommentHolds(w) ==
    req[w].op \in {"erase", "amend"} /\ comments[req[w].comment] # NoRow =>
        comments[req[w].comment].post = req[w].post
TxHolds == \A w \in Workers :
    InsertHolds(w) /\ EditHolds(w) /\ SendHolds(w) /\ CommentHolds(w)

(* No other request knows of a comment that is still to be committed. *)
SendAlone ==
    \A v, w \in Workers :
       /\ At(w, "send", "tx")
       /\ At(v, "send", "tx") \/ req[v].op \in {"erase", "amend"}
       /\ req[v].comment = req[w].comment
       => v = w

(***************************************************************************)
(* Together: what the tables always satisfy, and what makes it inductive.  *)
(***************************************************************************)
TableInv ==
    /\ TypeOK /\ LocalsOK /\ FreshIds /\ KnownIds
    /\ PostLockExclusive /\ TxHolds /\ SendAlone
    /\ PublishSync /\ CommentCountExact /\ StatusSplitNeedsStaleEdit
    /\ LinksHaveCategories

=============================================================================
