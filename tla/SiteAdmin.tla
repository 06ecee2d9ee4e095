------------------------------- MODULE SiteAdmin -------------------------------
(***************************************************************************)
(* The rest of the administration: categories (admin::categories), pages   *)
(* (admin::page), the options of the blog (admin::options) and the button  *)
(* that empties the cache (admin::caching).                                *)
(*                                                                         *)
(* Categories and pages commit first and rise the triggers afterwards; the *)
(* options, like the posts, rise them inside the transaction.  Pages use   *)
(* no transaction: every statement commits by itself.                      *)
(***************************************************************************)
EXTENDS BlogData

(***************************************************************************)
(* A page of the administration, asked for or shown again because the form *)
(* did not validate: nothing but the options of the blog is read that the  *)
(* cache knows of.                                                         *)
(***************************************************************************)
AdminForm(w) ==
    /\ "admin" \in Ops /\ IsIdle(w)
    /\ RenderAdmin(w)
    /\ UNCHANGED <<db, cache, lost>>

(* A statement has committed; op says whether a form ("form") follows. *)
AfterCommit(w, op, rises) ==
    EnterWrite(w, [req[w] EXCEPT !.op = op, !.pc = "after", !.rises = rises])

(***************************************************************************)
(* A new category: INSERT INTO cats, commit, rise "cats".                  *)
(***************************************************************************)
CatRises(c) == {CatsTrigger, CatTrigger(c, 0)}

CatAdd(w) ==
    /\ "cat" \in Ops /\ IsIdle(w) /\ nextId.cat <= MaxCat
    /\ \E name \in Texts : cats' = [cats EXCEPT ![nextId.cat] = name]
    /\ nextId' = [nextId EXCEPT !.cat = @ + 1]
    /\ AfterCommit(w, "form", {CatsTrigger})
    /\ UNCHANGED <<posts, post2cat, comments, pages, options, cache, lost>>

(* A new name, which waits for transactions that have just joined it. *)
CatRename(w) ==
    /\ "cat" \in Ops /\ IsIdle(w)
    /\ \E c \in CatId, name \in Texts :
         /\ CatFree(w, c)
         /\ cats' = [cats EXCEPT ![c] = IF cats[c] = NoRow THEN NoRow ELSE name]
         /\ AfterCommit(w, "form", CatRises(c))
    /\ UNCHANGED <<posts, post2cat, comments, pages, options, nextId, cache, lost>>

(***************************************************************************)
(* Removal looks for a post in the category.  With one, and without the    *)
(* "cascade" box, nothing is removed; change notes that links go too.      *)
(***************************************************************************)
CatRemove(w) ==
    /\ "cat" \in Ops /\ IsIdle(w)
    /\ \E c \in CatId, cascade \in Flag :
         LET used == \E p \in PostId : post2cat[p][c] # NoRow
         IN \/ used /\ cascade = 0 /\ RenderAdmin(w)
            \/ /\ ~used \/ cascade = 1
               /\ req' = [req EXCEPT ![w] = [Idle EXCEPT !.op = "cat_remove",
                            !.pc = "exec", !.id = c, !.change = IF used THEN 1 ELSE 0]]
    /\ UNCHANGED <<db, cache, lost>>

(* The deletions fail on the foreign key if a post has joined meanwhile. *)
CatDelete(w) ==
    /\ At(w, "cat_remove", "exec")
    /\ LET c == req[w].id
           used == \E p \in PostId : post2cat[p][c] # NoRow
       IN /\ CatFree(w, c) /\ LinkFree(w, c)
          /\ IF used /\ req[w].change = 0
             THEN Finish(w) /\ UNCHANGED <<cats, post2cat>>
             ELSE /\ cats' = [cats EXCEPT ![c] = NoRow]
                  /\ post2cat' = [p \in PostId |-> [post2cat[p] EXCEPT ![c] = NoRow]]
                  /\ AfterCommit(w, "form", CatRises(c))
    /\ UNCHANGED <<posts, comments, pages, options, nextId, cache, lost>>

-----------------------------------------------------------------------------
(***************************************************************************)
(* Pages.  A new one rises "pages" when it is published at once.           *)
(***************************************************************************)
PageRisesNoList(i) == {PageKey(i, 0)}  \* variant without "pages"
PageRises(i) == {PageKey(i, 0), PagesTrigger}

PageInsert(w) ==
    /\ "page" \in Ops /\ IsIdle(w) /\ nextId.page <= MaxPage
    /\ \E t \in Texts, open \in Flag :
         /\ pages' = [pages EXCEPT ![nextId.page] = [text |-> t, open |-> open]]
         /\ IF open = 1 THEN AfterCommit(w, "page", {PagesTrigger})
                        ELSE RenderAdmin(w) \/ Finish(w)
    /\ nextId' = [nextId EXCEPT !.page = @ + 1]
    /\ UNCHANGED <<posts, post2cat, comments, cats, options, cache, lost>>

(* SELECT is_open, outside any transaction; 404 when there is no such page. *)
PageIsOpen(w) ==
    /\ "page" \in Ops /\ IsIdle(w)
    /\ \E i \in PageId :
         /\ pages[i] # NoRow
         /\ req' = [req EXCEPT ![w] = [Idle EXCEPT !.op = "page", !.pc = "exec",
                                          !.id = i, !.open = pages[i].open]]
    /\ UNCHANGED <<db, cache, lost>>

(* lost records a page whose is_open is no longer the one that was read. *)
PageLost(w) == lost' = IF pages[req[w].id] # NoRow /\ pages[req[w].id].open # req[w].open
                       THEN lost \cup {<<"page", req[w].id>>} ELSE lost

PageDelete(w) ==
    /\ At(w, "page", "exec")
    /\ pages' = [pages EXCEPT ![req[w].id] = NoRow]
    /\ IF req[w].open = 1 THEN AfterCommit(w, "page", PageRises(req[w].id))
                          ELSE Finish(w)
    /\ PageLost(w)
    /\ UNCHANGED <<posts, post2cat, comments, cats, options, nextId, cache>>

(* The cache is told of a page that is, or was, visible. *)
PageShownNow(status, change) == status = 1  \* variant that forgets a page just hidden
PageShown(status, change) == status = 1 \/ change = 1

PageUpdate(w) ==
    /\ At(w, "page", "exec")
    /\ \E t \in Texts, change \in Flag, stay \in BOOLEAN :
         LET status == Flipped(req[w].open, change)
         IN /\ stay => change = 0
            /\ pages' = [pages EXCEPT ![req[w].id] =
                           IF @ = NoRow THEN NoRow ELSE [text |-> t, open |-> status]]
            /\ IF PageShown(status, change)
               THEN AfterCommit(w, IF stay THEN "form" ELSE "page", PageRises(req[w].id))
               ELSE IF stay THEN RenderAdmin(w) ELSE Finish(w)
    /\ PageLost(w)
    /\ UNCHANGED <<posts, post2cat, comments, cats, options, nextId, cache>>

-----------------------------------------------------------------------------
(* The options of the blog, replaced in one transaction. *)
OptionsExec(w) ==
    /\ "options" \in Ops /\ IsIdle(w)
    /\ \A v \in Workers : ~At(v, "options", "tx")
    /\ \E t \in Texts :
         EnterWrite(w, [Idle EXCEPT !.op = "options", !.pc = "tx", !.text = t,
                                    !.rises = {OptionsKey}])
    /\ UNCHANGED <<db, cache, lost>>

OptionsCommit(w) ==
    /\ At(w, "options", "tx") /\ req[w].rises = {}
    /\ options' = req[w].text
    /\ RenderAdmin(w)
    /\ UNCHANGED <<posts, post2cat, comments, cats, pages, nextId, cache, lost>>

(* The administration page of the cache empties it. *)
ClearCache(w) ==
    /\ "clear" \in Ops /\ IsIdle(w)
    /\ CacheClear
    /\ RenderAdmin(w)
    /\ UNCHANGED <<db, lost>>

(***************************************************************************)
(* So does every request whose session has no language yet, or another one *)
(* than the request (blog::main), before the request is dispatched.        *)
(***************************************************************************)
NewLanguage(w) ==
    /\ "clear" \in Ops /\ IsIdle(w)
    /\ CacheClear
    /\ UNCHANGED <<db, req, lost>>

=============================================================================
