-------------------------------- MODULE MCLists --------------------------------
(***************************************************************************)
(* Small instances of Lists for TLC, in one run, as in MCBlog: a scenario  *)
(* says which requests arrive and which lists are asked for; one request   *)
(* at a time renders, beside one that writes.                              *)
(***************************************************************************)
EXTENDS Lists, TLC

CONSTANT ListScenarios   \* the scenarios of this run

VARIABLE scene

Plain == [workers |-> 1, texts |-> 1, times |-> 1, posts |-> 1, cats |-> 0, comments |-> 0,
          clear |-> FALSE, lists |-> {0}, last |-> 0, search |-> FALSE, evict |-> TRUE]
ListInstance ==
    [blog |->      \* two pages of the blog, the cache emptied
        [Plain EXCEPT !.times = 2, !.posts = 2, !.clear = TRUE, !.last = 1],
     category |->  \* two pages of a category, which comes, changes and goes
        [Plain EXCEPT !.times = 2, !.posts = 2, !.cats = 1, !.lists = {1}, !.last = 1,
                      !.evict = FALSE],
     search |->    \* a search, and the texts, comments and categories it shows
        [Plain EXCEPT !.texts = 2, !.cats = 1, !.comments = 1, !.search = TRUE,
                      !.evict = FALSE],
     two |->       \* the list read and the post changed at the same time
        [Plain EXCEPT !.workers = 2, !.evict = FALSE]]

ListWithin ==
    LET s == ListInstance[scene]
        busy == {w \in Workers : req[w].op # "idle"}
        texts == {posts[p].text : p \in {p \in PostId : posts[p] # NoRow}}
                   \cup ({cats[c] : c \in CatId} \ {NoRow}) \cup {options}
                   \cup ({req[w].text : w \in Workers} \ {NoRow})
    IN /\ Cardinality({w \in busy : req[w].op \in ReaderOps}) <= 1
       /\ Cardinality(busy) <= s.workers /\ Cardinality(texts) <= s.texts
       /\ \A w \in busy : /\ req[w].now <= s.times /\ req[w].post <= s.posts
                          /\ s.comments > 0 \/ req[w].op \notin {"send", "render_post"}
                          /\ s.cats > 0 \/ req[w].op \notin {"form", "cat_remove"}
                          /\ lreq[w].pc # "none" =>
                               /\ lreq[w].cat \in s.lists /\ lreq[w].page <= s.last
                               /\ s.search \/ lreq[w].q = NoRow
       /\ nextId.post <= s.posts + 1 /\ nextId.comment <= s.comments + 1
       /\ nextId.cat <= s.cats + 1

(* Ids are exhausted by the scenario as they are by MaxPost and MaxComment. *)
ListExhausted(w) ==
    /\ \/ At(w, "insert", "exec") /\ nextId.post > ListInstance[scene].posts
       \/ /\ At(w, "send", "exec") /\ PostFree(w, req[w].post)
          /\ nextId.comment > ListInstance[scene].comments
    /\ Finish(w)
    /\ UNCHANGED <<db, cache, lost, lists, lreq>>

(* One of the texts that are searched for is also the title of the blog. *)
MCListInit == ListInit /\ options \in Queries /\ scene \in ListScenarios
MCListNext ==
    \/ \E w \in Workers :
         /\ \/ ListStep(w) \/ OtherStep(w) \/ ListExhausted(w)
            \/ ListInstance[scene].clear /\ Emptied(w)
         /\ UNCHANGED scene /\ ListWithin'
    \/ ListInstance[scene].evict /\ ListEvict /\ UNCHANGED scene
MCListSpec == MCListInit /\ [][MCListNext]_<<listVars, scene>>

ListSymmetry == Permutations(Workers)

=============================================================================
