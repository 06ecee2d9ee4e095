# A TLA+ model of CppBlog

CppBlog is a blog engine written in C++ on the CppCMS framework.  One process
serves requests with several worker threads; all of them work on one SQL
database (through cppdb and its pool of connections), one page cache inside
the process (CppCMS's `mem_cache`), session files and uploaded files.  This directory holds TLA+ modules that model how these requests
interleave, TLC configurations that check them on small instances, and proofs
that TLAPS checks for instances of every size.

## 1. The system and its components

| Component | Source | State | Operations | What makes it hard |
|---|---|---|---|---|
| Post administration | `apps/admin/post.cpp` | `posts`, `post2cat` | new, save, publish, unpublish, join and leave categories, remove | reads before its transaction what it writes inside it; rises triggers before the commit; two copies of `is_open` and `publish` |
| Visitor comments | `apps/blog/post.cpp` | `comments`, `posts.comment_count`, the session | postback (send, preview) | reads `is_open` without a lock; derived count |
| Comment administration | `apps/admin/comment.cpp` | the same tables | change, erase | rows may be gone between SELECT and statement |
| Categories | `apps/admin/categories.cpp` | `cats`, `post2cat` | add, rename, remove (cascade) | emptiness is read first; rises after the commit |
| Pages | `apps/admin/page.cpp` | `pages` | insert, change, publish, unpublish, delete | no transaction; what is risen depends on an `is_open` read earlier |
| Options | `apps/admin/options.cpp` | `text_options` | replace | shown by every page of the site |
| Cache administration, language | `apps/admin/caching.cpp`, `apps/main.cpp` | the cache | empty it | empties it under running requests |
| Post and page views | `apps/blog/post.cpp`, `apps/blog/page.cpp` | cache entries `post_<id>`, `page_<id>` | display, preview | several queries, none in a transaction |
| Feeds | `apps/feed/feed.cpp` | entries `comments`, `rss_posts`, `rss_<id>` | comments, posts, per category | ordered and limited queries; triggers per listed post; keys made from the digits of the URL |
| Sidebar | `apps/blog/master.cpp`, the skins | entries `sidebar_info`, `sidebar` | load, render | cached twice, inside each other and inside every page |
| Options loader | `apps/basic_master.cpp` | entry `options` | prepare | also checks the version and upgrades the database |
| Page cache | `lib/cppcms/src/cache_storage.cpp`, `cache_interface.cpp` | entries, triggers, LRU list, timeouts | fetch, store, rise, clear, eviction | the only thing that keeps pages and tables together |
| Database | `sql/*.sql`, cppdb | tables, row locks | statements, commit, rollback | lock waits, timeouts, failing keys |
| Post lists and search | `apps/blog/summary.cpp`, `data/basic_master.*` | entries `summary_…`, `cat_count_…`, `cat_name_…`, `max_cat_id` | list, search | cached counts behind page numbers |
| Uploads | `apps/admin/upload.cpp`, `lib/cppcms/src/http_file.cpp` | files and parts of files | upload a chunk, ask, rotate | concurrent last chunks; a chunk sent again while it is still handled; a crash while assembling |
| Users, sessions, captcha | `apps/admin/users.cpp`, `apps/captcha.cpp`, `lib/cppcms/src/session_*.cpp` | `users`, the session in a cookie or a file | login, add, edit, delete, captcha, load, save, gc | one session in two places; responses lost or out of order; a file written in two steps |
| Configuration, upgrade | `apps/config.cpp`, `apps/basic_master.cpp` | `text_options`, `users`, schema | configure, upgrade | two first requests at once |
| Connection pool | `lib/cppdb/src/pool.cpp`, `conn_manager.cpp`, `backend.cpp` | idle connections, pools | open, close, clear, gc | locks given up between lookup and use; the clock read before the lock |
| LaTeX images | `apps/basic_master.cpp` (`tex_to_gif`) | image and temporary files | make an image | made by several requests at once; copied if on another device |
| Downloads, media | `apps/blog/download.cpp`, `apps/media.cpp` | files | serve a range | input and output only |
| Others | `apps/admin/summary.cpp`, `apps/blog/markdown.cpp`, `sql/migrate.cpp` | none | lists, conversions, migration | none of the above |

How they interact.  Handlers do not call each other.  They meet in the
database, where only row locks, keys and single statements protect them, and
in the cache.  A handler that shows something looks its key up, otherwise runs
its queries, records a *trigger* (a string) for everything it showed, and
stores the page with the triggers recorded.  Entries never expire.  A handler
that changes something *rises* triggers, which removes every entry that has
them.  Pieces (options, sidebar data, sidebar frame) are cached as well, and a
page that uses a cached piece takes its triggers over.

So the correctness of the program is mostly three things: the tables agree
with each other (the redundant columns `post2cat.is_open`, `post2cat.publish`,
`posts.comment_count`, and the references between tables); the triggers that
readers record fit the triggers that writers rise; and every request ends.

## 2. The modules

| Module | Models | Extends |
|---|---|---|
| `BlogData` | tables, cache, requests, row locks, cache operations | |
| `PostAdmin` | `admin::post` | `BlogData` |
| `Comments` | `blog::post::postback`, `admin::comment` | `BlogData` |
| `SiteAdmin` | `admin::categories`, `admin::page`, `admin::options`, `admin::caching`, `blog::main` | `BlogData` |
| `Views` | `blog::post`, `blog::page`, `feed::feed_master`, `basic_master::prepare`, `blog::master::load_sidebar`, the skins | `BlogData` |
| `Blog` | all of them together, rises, failures, restart; the specification and its properties | the four above |
| `BlogInv` | the inductive invariant of the tables, `TableInv` | `Blog` |
| `MCBlog` | small instances of `BlogInv` for TLC | `BlogInv` |
| `Paging`, `MCPaging` | `calc_pages`, `multi_page` as operators; a visitor who walks through a list | |
| `Lists`, `MCLists` | `blog::summary` on the tables and the cache of `Blog` | `Blog`, `Paging` |
| `TriggerCache` | what `base_cache` promises its callers (abstract) | |
| `MemCache`, `MCMemCache` | `mem_cache`: its indexes, counters and locks | instance of `TriggerCache` |
| `ConnPool`, `MCConnPool` | `connections_manager`, `pool`, `connection::dispose` | |
| `Uploads`, `MCUploads` | `admin::upload`, `http::file::save_to`, the uploader in the browser | |
| `Sessions`, `MCSessions` | `session_interface`, `session_dual`, `session_sid`, `session_cookies`, the file storage; `users`, `captcha`, the captcha of `blog::post` | |
| `Setup`, `MCSetup` | `config::configure`, `basic_master::prepare` and `upgrade` | |
| `TexImages` | `tex_to_gif` | |
| `TableProofs` | the theorems on the tables | `BlogInv`, TLAPS |
| `FreshProofs` | the theorems on what the cache shows: pages, feeds, sidebar (`FreshInv`) and lists (`ListInv`) | `TableProofs`, `Lists` |
| `PageProofs` | the theorems on the images of formulas and on page numbers | `TexImages`, `MCPaging` |
| `ConnPoolProofs` | the theorems on the connection pool | `ConnPool` |
| `MemCacheProofs` | the theorems on `mem_cache`, and the refinement | `MemCache` |
| `UploadsProofs` | the theorems on uploads | `Uploads` |
| `SetupProofs` | the theorems on configuration and upgrade | `Setup` |
| `SessionsProofs` | the theorems on sessions and captchas | `Sessions` |

### State

- `posts`, `post2cat`, `comments`, `cats`, `pages`, `options` are the committed
  tables.  A table is a total function on the ids that may be allocated, with
  `NoRow` for no row.  A text stands for all the content a form brings.
- `nextId` holds the auto-increment counters.  They are not rolled back.
- `cache` maps keys to entries.  An entry has a body, a sidebar, its triggers.
  The compressed and the plain copy of a page, which have the same triggers,
  are one entry.
- `req[w]` is the request that thread `w` serves: handler (`op`), place (`pc`),
  and its local variables.
- `lost` and the `clean` field are history variables; no action's guard reads
  them.  `lost` holds the posts and pages that were changed by a form built on
  values that were no longer those of the table.  `clean` says of a rendering
  that no writing request was under way at any time since it began.

### Granularity

One action is what other threads cannot interrupt.

- A SELECT outside a transaction is a step of its own on the committed tables.
- The statements of a transaction are one step (`…Insert`, `…Edit`,
  `…Remove`, `…Exec`), which needs the row locks and takes them.  Nobody else
  sees the effect before the commit, so the effect is applied by the commit
  step.  A statement that fails (foreign key, unique key, no row for a SELECT
  that needs one) leads to `"fail"` with the rises that come before it.
- Every rise is a step of its own, in the code's order (`Rank`).  Rises of
  posts, comments and options come before the commit, those of categories and
  pages after it.
- `Rollback` may end a transaction at any point, `LockTimeout` a wait, and
  `Restart` everything.  What was risen stays risen.
- Each cache operation is atomic, as callers may assume by the run `mem_cache`.
  The victim of an eviction is any entry, which includes the least recently
  used one.
- In the modules over files (`Uploads`, `Sessions`, `TexImages`) one system
  call is one step; a path that is opened for writing is truncated at once and
  filled later, and a rename is atomic.
- In `MemCache` and `ConnPool` a step is what happens between taking and
  giving back one lock; the time that the code reads before it takes the lock
  is a step of its own in `ConnPool`.  In `MemCache` the loops that delete
  entries are one step per entry.

The tables follow `sql/mysql.sql` (InnoDB): foreign keys, the unique key of
`post2cat`, row locks held to the end of the transaction, and an insertion of
a comment that waits for a transaction holding its post.

### Correspondence

`PROJECT.json` maps each definition to its lines.  In short: `PostStart`,
`PostIsOpen`, `PostInUse`, `PostForm` are the reads of `prepare_shared` up to
`form.validate()`; `PostInsert`/`PostInsertCommit`, `PostRemove`/
`PostRemoveCommit`, `PostEdit`/`PostEditCommit` its three transactions;
`Postback`, `SendSelect`, `SendInsert`, `SendCommit` the postback;
`CommentStart`, `CommentExec`, `EraseCommit`, `AmendCommit` the moderation;
`CatAdd`, `CatRename`, `CatRemove`, `CatDelete` and `PageInsert`,
`PageIsOpen`, `PageUpdate`, `PageDelete` the handlers of categories and pages;
`OptionsExec`, `OptionsCommit`, `ClearCache`, `NewLanguage` the rest of the
administration.  A view starts with `DisplayPost`, `DisplayPage`, `Preview`,
`FeedComments`, `FeedPosts` or `FeedCat`, runs its queries, goes through
`Options…` and, for pages of the site, `Frame`, `Info`, `SidePages`,
`SideCats`, `StoreInfo`, `StoreFrame`, and ends in `StorePage` or `Respond`.

`Lists` adds the variables `lists` (the cache entries of `blog::summary`) and
`lreq` (its local variables) and runs each of its lookups, queries and stores
as a step (`ListMax…`, `ListPage`, `ListName…`, `ListCount…`, `ListRows`,
`ListCategories`, `ListStorePage`); for options and sidebar it goes through
the actions of `Views`, and a rise of any other handler reaches its entries
(`OtherStep`).  The two sets of cache entries are kept apart because a list is
keyed by category, page and search; a rise or a clear acts on both in one step.

`MemCache` has the members of `mem_cache` as variables (`primary`, `triggers`,
`timeout`, `lru`, `size`, `triggers_count`) and a thread's call and place.
`FetchFind`, `FetchTouch`, `FetchCopy` are `fetch` (shared lock, `lru_mutex`,
shared lock); `RiseFind`, `RiseKill`, `RiseEnd` are `rise`; `StoreBegin`, the
steps of `check_limits`, `StoreInsert`, `StoreGivesUp` and `StoreFails` are
`store` with its allocations.  In `ConnPool` the history field `at` of an
entry and the variable `since` of `MemCache` (who was used after whom) are
read by properties only.

`Uploads` is about one file, named after its hash and size, as the server's
handlers and a browser make it.  `SaveOpen`/`SaveWrite` and `SaveMove` are the
two ways of `file::save_to`, `Rename` gives the chunk its name, `Check` is one
`access()` of the loop, `OpenOut` to `UnlinkPart` put the parts together, and
`Verify`, `Remove`, `Completed` are the end of the handler; `Digest` is the
way of a file of one chunk.  A path and the file that is open behind it are
kept apart by `out`: it says which name the file that a request writes has by
now, so that what two requests do through one `.part.lock` is what a rename
and an unlink make of it.  A part is read when it is opened.  On the side of
the browser (`media/webuploader`) `Send` starts a chunk, `Break` is a broken
connection, after which the uploader sends the chunk again at once
(`chunkRetry` in `jq.js`) whether or not the first handler has ended, `GiveUp`
a file that failed, and `Elsewhere` a chunk from another tab or user.  When a
part has gone that is to be read, the loop around `eof()` never ends if it is
the first one (`Spin`); for a later one `eof()` is still true of the part
before, nothing is read, and the request goes on to compare the hash.

`Sessions` follows one browser: `Load` is `session_interface::load`, the
handlers change `data`, and the five `Save…` actions are the branches of
`session_interface::save` and of the storages below it.  `Reply` and
`ReplyLost` bring the cookie to the browser or do not.  `left` is the session
of the last cookie that arrived.  A process that is killed in `save_to_file`
leaves the new header before a mixture of the new data and the old
(`WrittenInPart`, `Mixed`).

## 3. The properties

Tables:

- `PublishSync`: a post and its links carry the same date, so the list of the
  blog and the list of a category show posts in the same order.
- `CommentCountExact`: `comment_count` is the number of comments, and no
  comment belongs to a post that has gone.
- `StatusSplitNeedsStaleEdit`: the copies of `is_open` in `posts` and
  `post2cat` differ only for a post that was edited by a form with outdated
  values.  The condition is needed: two administrators who load the form of
  the same post and use it one after the other can make them differ.
- `LinksHaveCategories`: no link to a category that is not there.
- `TableInv`: the inductive invariant (section 5).

Cache.  Each says that while nobody writes, a *clean* entry shows what the
tables hold: `PostPageFresh`, `PageFresh`, `SidebarFresh`,
`CommentsFeedFresh`, `PostFeedsFresh`, `OptionsFresh`.  They relate the
triggers of every reader to the rises of every writer, through cached pieces
stored by other requests, eviction, clearing and restarts.

What they do not say, because it does not hold of the code:

- An entry built *while* a request writes may be stale for ever: triggers of
  posts, comments and options are risen before the commit, and a request that
  renders in between reads the old rows and stores them after the rise.  This
  is why entries carry `clean`.
- The sidebar may show *more* posts in a category than there are: neither
  removing a post nor leaving a category rises the category.  `SidebarFresh`
  claims that it never shows fewer, and that the lists of pages and of
  categories are exact.
- Entries under a key with leading zeros (`/rss/01`) are not risen by number,
  so the feeds are claimed fresh under their plain key only.
- Pages changed on an outdated `is_open` (`lost`) are exempt from `PageFresh`.

Lists:

- `ListedPostsCurrent`: a cached page of a list or a search shows only posts
  that are open and in the list, as they are now.
- `FirstPageFresh`: the first page shows the newest posts.  Later pages may be
  outdated after a removal further up, which rises only the removed post, and
  a search may miss a post that was edited to match; neither is claimed.
- `CountNeverLow`: the cached count never hides a page that exists.
- `CategoriesFound`: no category that exists is answered with 404 because of
  the cached largest id, and cached names are right.  The *absence* of a
  category is cached too (an empty `cat_name_<id>`), under a trigger that its
  creation does not rise, so a page of a category asked for before it existed
  stays 404 until something else rises it; this is not claimed.
- `EveryRowOnce`, `NeighboursLinked`, `RedirectsOnce`: the pages partition the
  list, a page links to its neighbours and to pages that exist only, and a
  redirect leads to a page.

Page cache (`MemCache`):

- `Implements`: the refinement of `TriggerCache`.  A caller of the real cache,
  with its locks taken and given up and its allocations failing, sees nothing
  that a cache with atomic operations would not show; in particular, after a
  `rise` has returned no entry with the trigger is found, and a `store` that
  runs out of memory leaves an empty cache or the old one.
- `CacheInv`: the four indexes and both counters agree, the LRU list is in the
  order of the last uses (`UsedInOrder`), the limit holds, and
  the locks exclude each other.
- `RightEntryGoes`: an entry is thrown out for room only if it is past its
  time, or no entry is and every other entry was used after it.
- `LockReleased`: the loop that makes room under the write lock ends.

Connections (`ConnPool`):

- `EveryConnectionOwned`: every open connection is with exactly one session or
  exactly once in a pool.
- `PoolInv` adds: there is one pool, its counter and limit hold, and a broken
  connection is never in a pool or on its way there.
- `IdleTimeBound`: nobody is given a connection that was idle for longer than
  `@pool_max_idle`.  The comment "all is sorted by time" (`pool.cpp`) is not
  quite true, since the clock is read before the lock is taken; an entry past
  its time can therefore outlive a collection behind a younger one.  It is
  never handed out, which is what the property says.

Files and sessions:

- `PartsWhole`: a file named `.part` is a whole chunk, except one that two
  requests were saving at once.  That happens when a connection breaks and the
  uploader sends the chunk again, or when the same file is uploaded twice; both
  requests write `.part.lock`, and the rename of the first may publish what the
  second has just truncated.  Even then the second one is still writing it.
- `WholeUnlessOverlap`: what is reported as completed is the file, and
  `ExistsIsWhole`: what the check before an upload would find by its size is
  the file.  Both except two requests that work on the final file at once, and
  nothing else that is sent again or elsewhere; the second also excepts a
  process killed before it could remove a damaged file.  `CompletedIsWhole`,
  without the first exception, does not hold (section 4).
- `UploadedInTheEnd`: one chunk at a time, an upload gets through.  Broken
  connections are excepted: with the same chunk sent twice two requests can put
  the parts together, and one may be left in the loop of `Spin`.
- `CaptchaOnce`: a captcha is compared with one answer.  `SessionKept`: a
  request finds the session that the browser was last told of, in whichever of
  the two places; after a crash perhaps one that had begun to be saved, or
  none, but never a mixture of two, as a half-written file contains.
  `NoFileLeft`: no file without a browser that knows its id.  `NewIdOnLogin`: a
  login never continues under an id known before it.
  The first three hold for a browser that sends one request at a time (the
  first and the third also need a process that is not killed).  With requests
  in parallel the last response wins: one that began before a logout can put
  the session back, and a cleared session can be saved again by a request that
  had loaded it.  A process that is killed before it saves leaves a captcha
  that can be answered once more.
- `ConfiguredWhole`, `UpgradedWhole`, `CachedWhole`: first configuration and
  upgrade leave all or nothing, and only that is cached.
- `ShownIsWhole`, `KeptIsWhole`: an image of a formula that is shown, or kept,
  is whole (in the first case if it could be renamed into place).

Liveness: `Answered`, every request ends; `LockReleased`; `UploadedInTheEnd`.

## 4. The runs

| Run | Module | Instance | Shows |
|---|---|---|---|
| `posts` | `MCBlog` | 2 threads; scenarios `tables`, `comments`, `post_page`, `post_edits` | the table properties and the inductive invariant; pages of posts against edits, publication, removal, postbacks, moderation |
| `site` | `MCBlog` | scenarios `comment_feed`, `comment_feed_two`, `pages`, `sidebar`, `sidebar_two`, `feeds`, `evict` | feeds, pages, options and sidebar; the cache emptied, restarts, eviction |
| `answered` | `MCBlog` | 2 threads, 1 post, 1 category, weak fairness | every request ends |
| `lists` | `MCLists` | scenarios `blog`, `category`, `search`, `two`; pages of one post | the pages of lists |
| `paging` | `MCPaging` | up to 24 records, page sizes 0 (that is 10), 1, 2 | the arithmetic of pages and links |
| `mem_cache` | `MCMemCache` | a cache of 2 entries; 2 threads on 2 keys, or 1 thread on 3 | the refinement and the cache's own invariants |
| `conn_pool` | `MCConnPool` | 3 sessions, 3 connections, a pool of 2, a clock to 3 | the connection pool |
| `uploads` | `MCUploads` | 1 to 3 chunks one at a time, with a crash, a damaged chunk, a chunk sent again or from elsewhere; 2 at once, with a crash or a damaged chunk | what uploads leave on the disk; an upload gets through |
| `upload_race` | `MCUploads` | 2 chunks at once | violates `CompletedIsWhole` |
| `sessions` | `MCSessions` | 2 captchas, 2 session ids, 2 users; one request at a time with time and a lost response or a crash, or two at once with a crash | the session of a browser |
| `setup` | `MCSetup` | 2 requests, versions 1 to 3, a post, a crash | configuration and upgrade |
| `tex_images` | `TexImages` | 3 requests, one or two devices, a crash | images of formulas |

Constants.  `MaxPost`, `MaxCat`, `MaxComment`, `MaxPage` limit the ids that
can be allocated, `CacheLimit` the entries of the cache, `FeedLimit` the length
of a feed and `PageSize` that of a page (10 in the code), and `Ops` names the
kinds of requests that arrive.  The other bounds are `MaxTime`, `MaxCrashes`,
`MaxDamages`, `MaxStrays` (chunks sent again or from elsewhere, uploads given
up), `MaxLost` and `MaxRecords`.  `MCUploads` also limits what goes wrong in one
behaviour: any two of a crash, a damaged chunk and a stray for one or two
chunks, one of them, or a crash and a damaged chunk, for three, a crash or a
damaged chunk for two at once.  `MCSessions` limits the captchas of requests in
parallel to one.

Scenarios.  `MCBlog` and `MCLists` have a variable that is chosen at the start
and says which requests arrive, how many threads serve them, and how many rows
and texts there are (`Instance`, `ListInstance`): one run is the sum of several
small instances, not their product.  A scenario only leaves requests out, so
that a step of a scenario is a step of `Blog`; `Exhausted` ends a request that
needs an id the scenario does not have, as `MaxPost` does in `Blog`.
`MCMemCache`, `MCSessions` and `MCUploads` choose between a few shapes in the
same way.

Why these bounds are enough to be interesting.  Two threads give every overlap
of a writer with a reader or with another writer; a third one adds no new kind
of conflict, since every conflict in the code is about one row or one entry
between two requests, and the proofs cover any number of threads.  At most one of the two requests renders a page at a time (two
readers change nothing but the cache), except in `sidebar_two`.  One row
per table suffices where the property is about a row; the feeds, the lists and
the sidebar, which order and count, have two posts.  Feed and page are limited
to one post so that a post can fall out of them.  `CacheLimit` is 4, which the
entries of the other scenarios do not exceed and those of `evict` do; there
every order of eviction occurs.  The upload with three chunks has a first, a
middle and a last part; two at once is the least for the race.  One chunk sent
twice is enough for two requests on one `.part.lock`, and a crash or a damaged
chunk can come on top.  Three sessions
on a pool of two make the pool overflow.  The clock of `sessions` goes past
`Timeout`, that of `conn_pool` past `LifeTime` with an entry in the pool.

The violation.  `upload_race` shows that two requests that bring the last two
chunks can both find all parts in place (`upload.cpp:111`); the second opens
the finished file, and so truncates it, after the first has compared its hash
and before it answers "Upload completed!".  Then it waits for ever for the end
of a part that was unlinked (`upload.cpp:129`; in two chunks at once it is the
first part), which is `Spin` in the model.
The uploader in the browser sends three chunks at a time, so this takes no
unusual user.  `WholeUnlessOverlap` shows that this is the only way.

Symmetry is used in the runs of safety properties only, for threads, texts,
requests, connections, pools and session ids, which are compared for equality
and nothing else.

Deadlock is checked everywhere but in `sessions`, where the browser stops when
the captchas, session ids and responses of the bounds are used up.

Fairness.  `FairSpec` has weak fairness of `Step(w)` for every thread: the
operating system runs the thread and the database answers.  It asks nothing of
arrivals, restarts, or of a particular outcome.  A thread that waits for a row
may find the row free and taken again in turns; since the statement is enabled
when the row is free and `LockTimeout` when it is not, `Step(w)` stays enabled
and weak fairness is enough.  The timeout is what InnoDB guarantees
(`innodb_lock_wait_timeout`); without it the run finds the starving request.
`MCFairSpec` is the same for the instance of the run.

`FairCache` has weak fairness of every thread's work inside the cache, not of
calls, of the clock or of failing allocations: a thread that has the lock is
run until it gives it back.  `FairUploads` lets handlers run and the browser
send its chunks, ask, and start again when an upload came to nothing, as its
user does; nothing is asked of crashes or of damaged data, which are bounded.

## 5. The proofs

`TableProofs` proves, for arbitrary constants that satisfy the assumptions of
`BlogData` (bounds are natural numbers, limits positive, `NoRow` is no row,
text or entry; nothing about the number of threads):

    TableInvariant   Spec => []TableInv
    TypeCorrect      Spec => []TypeOK
    PublishInSync    Spec => []PublishSync
    CommentCounts    Spec => []CommentCountExact
    StatusSplit      Spec => []StatusSplitNeedsStaleEdit
    NoDanglingLinks  Spec => []LinksHaveCategories

None of these is inductive by itself, since a commit writes what was decided
steps before.  `TableInv` adds:

- `LocalsOK`: what the local variables of each handler hold;
- `FreshIds`, `KnownIds`: ids not handed out are free, and requests know only
  ids that were handed out;
- `PostLockExclusive`: at most one transaction holds a post;
- `TxHolds`: what a transaction may rely on between its statements and its
  commit, because of the rows it holds: the post of an insertion does not
  exist yet and its categories still do, the `is_open` an edit relies on is
  the one in the table unless the post is in `lost`, the post of a comment to
  be sent is still there, a comment's post does not change;
- `SendAlone`: nobody else knows of a comment that is about to be committed.

The argument: a commit changes rows of one post, on which it holds the lock;
by `PostLockExclusive` no other open transaction depends on these rows, except
through the categories, whose removal `CatFree` and `LinkFree` hold back.  For
the count, the commit of a postback adds exactly one comment that was free
(`SendAlone`, `FreshIds`), and both it and the erasure store the recount
itself; a change of text keeps the set of comments of every post; a removal
takes all of them.

The lemmas come in two parts: per action, that types and local variables are
preserved (`TypeOK`, `LocalsOK`); then one lemma per group of actions for the
rest: steps that change no table, and each action that does.

`FreshProofs` proves, under the same assumptions, that the triggers which the
views record and the triggers which the handlers rise fit each other:

    FreshInvariant           Spec => []FreshInv
    OptionsAlwaysFresh       Spec => []OptionsFresh
    PostPageAlwaysFresh      Spec => []PostPageFresh
    PageAlwaysFresh          Spec => []PageFresh
    SidebarAlwaysFresh       Spec => []SidebarFresh
    CommentsFeedAlwaysFresh  Spec => []CommentsFeedFresh
    PostFeedsAlwaysFresh     Spec => []PostFeedsFresh

The properties speak of moments at which no handler is writing (`Quiet`), so
they are far from inductive.  `FreshInv` says what holds in between:

- `CacheFresh`: an entry made by a clean response has recorded the triggers of
  what it shows (`EntryRecorded`), and it shows what the tables hold
  (`EntryFresh`) or a request that has committed is about to rise one of its
  triggers (`Overdue`).  Only categories and pages commit first and rise after
  (`AfterOps`).
- `RisenGone`: the other handlers rise inside the transaction.  What such a
  request has risen already is in no clean entry any more; when it commits,
  nothing is left to rise, so no entry has a trigger of its change.  It stays so
  because a response that began or went on while the request was writing is not
  clean (`CleanAlone`), and what it stores is not spoken of.
- `ReaderFresh`: by `CleanAlone` again, what a clean response has read up to
  its place is what the tables hold, and what it recorded are the triggers of
  it.  A cached piece that it takes over is fresh by `CacheFresh`, since nobody
  writes and so nothing is overdue.
- `LinksRead`: publishing rises the categories of the form, while it changes
  the links of the table.  They are the same unless the post was changed by a
  form built on outdated values, which `lost` records.
- `FreeIds`: an id that was not handed out is free, so a new category or page
  is not one that an entry shows already.

For each commit there is one lemma that an entry without the triggers of the
commit stays fresh: `OnePost` (all that touches a post; the feeds are the
hard part, since a post that leaves or enters the latest ones changes which
others are among them, see `FeedsKept`), `OneCategory`, `AmendFresh`,
`OptionsFreshStep`.  A page that is saved without having been open rises
nothing; `UnseenStep` shows that no entry shows it, by the `is_open` it was
read with.  `EntryStays` says which parts of the tables each kind of entry
depends on; every step that leaves those alone is done by it.  For a view,
`StoreStep` reduces a store to the freshness of the entry stored.

Before the proof TLC checked `FreshInv` as an invariant on the instances of the
runs `posts` (671,507 states) and `site` (986,147 states).

The second half of `FreshProofs` does the same for the lists and searches of
`summary`, under the assumptions of `Lists` on its categories and page numbers:

    ListsInvariant            ListSpec => [](TableInv /\ FreshInv /\ ListInv)
    ListedPostsAlwaysCurrent  ListSpec => []ListedPostsCurrent
    FirstPageAlwaysFresh      ListSpec => []FirstPageFresh
    CountNeverTooLow          ListSpec => []CountNeverLow
    CategoriesAlwaysFound     ListSpec => []CategoriesFound

`ListInv` is inductive together with `FreshInv`, which says which requests are
clean.  That `TableInv` and `FreshInv` hold under `ListSpec` too is part of the
theorem: the other handlers take steps of `Blog`, and the handler of a list
changes no table and no other entry, and of its request only what both
invariants allow (`ListTables`, `ListCache`).  `ListInv` says:

- `ListFresh`: each of the four kinds of entries (largest id, name, count, page)
  has recorded its triggers (`ListRecords`) and is right (`ListCurrent`), unless
  a commit has yet to rise one of them (`ListOverdue`).  The kinds are right in
  different senses.  A page shows posts of its list as they are now; a first
  page shows the newest ones besides; a count or a largest id is an upper bound
  only, because what leaves a list does not rise the list.
- `ReadsList`, `ListPlace`: what a clean request has read so far, and where its
  request stands in `Blog` while the handler of the list runs.
- `ListRisen`: what a transaction has risen is in no clean entry of a list.

The hard steps are commits to a post (`OnePostLists`).  A removal rises no
list, so counts stay too high and later pages short, which the invariant
allows; but every page that shows the post has recorded the post's trigger
(`RowsRecorded`), so a first page that is still there did not show it, and its
rows stay the newest (`NewestStays`).  If the commit rises no trigger of a list,
no post has entered that list or moved in it (`PostLeaves`); a post that was
changed by a form built on outdated values may have, which is why the counts
and the newest posts are claimed under `NoPostLost` only.  `ListedPostsCurrent`
needs no such condition and is stated without.  TLC also checked `ListInv`, on
the instances of the run `lists` (405,970 states).

`ConnPoolProofs` proves, for any number of sessions, pools and connections,
any `@pool_size` and any `@pool_max_idle` (the assumptions of `ConnPool`):

    PoolInvariant     Spec => []PoolInv
    ConnectionsOwned  Spec => []EveryConnectionOwned
    NeverIdleTooLong  Spec => IdleTimeBound

`PoolInv` is inductive.  The proofs use it in another form, `Work`, in which
the places of the pools' lists are replaced by the set `In(idle[p])` of the
connections in a list and by `Distinct(idle[p])`, no connection twice.  Then
`get`, `put`, `clear_pool`, `gc` and `dispose` are all one exchange (`Exchange`,
`OwnsStep`): a session and a pool have the same connections between them before
and after, less those that are closed.  What the loop over expired entries
leaves is the list without its first entries (`FreshDrops`), by the least
number at which the loop stops.  That `gc` closes nobody's connection, and that
no second pool comes to life beside one in use, is `OnePool`: a session that
will give a connection back has a pointer to the pool, and `gc` drops a pool
only when there is none.

For the idle time, `put` reads the clock before it has the lock, so the entries
are not in the order of the times they carry (`used`), and the loop may stop at
one with expired ones behind it.  The entries are in the order of the times
they were put in (`at`), and `used <= at` (`TimeInv`).  The loop stops at an
entry that is not expired; the last entry was put in no earlier.  So it has not
been in the pool for longer than the limit, whatever time it carries.

`MemCacheProofs` proves, for any finite sets of keys and triggers, any number
of threads and any limit:

    IndexesCorrect        CacheSpec => []CacheInv
    RightEntryAlwaysGoes  CacheSpec => RightEntryGoes
    CacheRefines          CacheSpec => Implements

The inductive invariant `Inv` is `CacheInv` with types: `IndexOK` (hash table,
triggers, times, LRU list and both counters agree, and the list is in the order
of the last uses), `WithinLimit`, and `LockedOut` (nobody is inside while a
writer is).  The LRU list needs a history to be compared with: `since[k]` are
the keys used after `k`, and `UsedInOrder` (`Follows`) says that a key further
to the front is in the `since` of every key behind it; without it the victim of
`check_limits` could be any entry.  Every operation of the class is an
`Insert` or a removal of one key in all four indexes; the removals of `rise`
happen one by one while `kill_list[t]` is what is left under the trigger, which
`ThreadOK` keeps, since no other thread gets the lock.  That the entry thrown
out by time is the one with the earliest time is a least-number argument.

The refinement maps a `fetch` to the instant it is under the shared lock
(`SeenCalls`, `SeenAnswers`): from then on its answer is fixed although the
reader has still to touch the list and to copy.  No writer comes between, by
`LockedOut`.  Every other step is a step of `TriggerCache` (a store with its
evictions is a number of losses and then a store) or changes nothing that a
caller sees.

`UploadsProofs` proves, for any number of requests, chunks, crashes, damaged
chunks, and chunks sent again or from elsewhere while they are still handled:

    PartsAlwaysWhole      Spec => []PartsWhole
    CompletedAlwaysWhole  Spec => []WholeUnlessOverlap
    ExistingIsWhole       Spec => []ExistsIsWhole

`UploadInv` adds to `PartsWhole`: `RequestOK`, what a request has found so far;
`LocksWhole`, a `.part.lock` that a request is about to rename is whole, unless
the chunk was saved twice at once and the other one is writing this file now,
which is what `PartsWhole` needs when the rename comes; `FilesThere` and
`Alone`, as long as no two requests work on the file at once, it is what the
one that does has read, so the hash is that of the file; and for the check by
size alone, `Undamaged`: when no data was damaged, every chunk is itself or
still empty, so after n chunks the file is shorter than n or their beginning
(`Steps`), hence whole when it has the size.  An empty part, which a chunk saved
twice can leave, therefore never makes a file of the right size.

`SetupProofs` proves, for any number of requests, forms, users and posts:

    AlwaysConfiguredWhole  Spec => []ConfiguredWhole
    AlwaysUpgradedWhole    Spec => []UpgradedWhole
    AlwaysCachedWhole      Spec => []CachedWhole

`SetupInv` says that the open transaction is that of the one request in the
middle of it (`OneWriter`), what it has written so far (`ConfigureOK`,
`UpgradeOK`), and that the committed database, what the transaction sees and
what each reader has read are whole.  The first statement of the configuration
deletes the mark, so `work` need not be whole until the mark is written again,
which is the reason for `ConfigureOK` instead of `Whole(work)`.

`SessionsProofs` proves, for any number of requests, ids, users, lost responses
and crashes:

    LoginAlwaysNewId   Spec => []NewIdOnLogin
    CaptchaAlwaysOnce  Spec => []CaptchaOnce
    SessionAlwaysKept  Spec => []SessionKept
    NoFileEverLeft     Spec => []NoFileLeft

Each action is first described by what it does to the state of its request and
to the files (`HandleEffect`, `ShortEffect`, `IdEffect`, `FileEffect`,
`ReplyEffect`...), then each invariant is shown to survive each effect:

- `IdInv`: an id belongs to sessions with a user or to sessions without.  The
  point is an id that was made and not written yet: `NotYet` says that nobody
  else knows it.  A request that found a session keeps its kind of user unless
  it asked for a new id (`RequestOfOne`), which `login` and `logout` do.
- `CaptchaInv`: captchas are only used by handlers whose session goes to the
  server or is cleared (`CaptchasKept`); with one request at a time and no
  crash, what the file of the cookie has was not compared with an answer
  (`FreshFile`), even when the response with the next cookie is lost, since the
  file is rewritten under the same id.
- `WaitInv`: with one request at a time and no lost response, crashes allowed:
  the session the browser was told of is where its cookie says (`KeptWith`), or
  a process was killed since; a file that can be read then has that session or
  one that was being saved (`SessionThere`), since a mixture does not match its
  header.  `SessionKept` follows.
- `StillInv`: with no crash either, no other file is alive (`OnlyLive`).

`PageProofs` proves, for any number of requests and crashes, and for lists of
any length and pages of any size:

    ImagesShownWhole     Spec => []ShownIsWhole
    ImagesKeptWhole      Spec => []KeptIsWhole
    EveryRowShown        WalkSpec => []EveryRowOnce
    NeighboursAreLinked  WalkSpec => []NeighboursLinked
    OneRedirect          WalkSpec => RedirectsOnce

For the images, `OneDevice` says that nothing is copied on one device, so the
final name is whole from the first rename on, and `Written` that without a
crash every partial image has a request that is still writing it.  For the
pages, `TotalBounds` brackets the number of pages between two multiples of the
page size; row `i` is then on page `i \div s` and on no other (`OnePage`).
`LinksAround` and `LinksInside` are about the links `multi_page` makes, and
`Corrected` says that a corrected number is not corrected again.

All these invariants were also checked with TLC, on the instances of the runs.

What stays with TLC is `Answered`, `LockReleased` and `UploadedInTheEnd`:
liveness under fairness, and ENABLED, are outside the prover's reach.  So is
induction over data: in `Lists` and in the feeds the result of ORDER BY with
LIMIT is a set of the newest rows, any of those that agree in the order, not
what a sort computes.

## 6. Not modelled, and the plan

Abstractions to keep in mind: a query of a reader never fails; the author of
a post and the foreign key to `users` are left out of `BlogData`; validation of
forms is a choice; the database is InnoDB (under PostgreSQL's READ COMMITTED
the recount of two postbacks would need its own analysis, and SQLite's schema
has no foreign keys); in `Setup` writers exclude each other from their first
statement on.

Known behaviour of the code that is outside the properties:

- A session goes on working after its user was deleted, and two administrators
  who delete each other at the same moment leave no user: each is only kept
  from deleting the user of its own session (`users.cpp`).
- `stats()` counts pairs of an entry and a trigger, where `cache_interface.h`
  speaks of triggers.
- A download of a range (`download.cpp`) announces the length of the range and
  sends the rest of the file.

Not modelled: `users::edit`; the CSRF token, the exposed cookies and the
encryption of the session cookie (cryptography); the rotated copy of an
uploaded image (ImageMagick); downloads and media, which only read files; the
lists of the administration, which read and are never cached; Markdown, XSS
filter, forms and templates (text conversion); the migration tool, which runs
alone; the statement cache of cppdb; the shared-memory and network variants of
the cache, which the blog's configuration does not use.  Most of the tree's
lines are the libraries CppCMS, booster and cppdb as their authors ship them
(servers, drivers, encodings, bindings for other languages).  Of these the
parts were modelled that the blog's correctness rests on (cache, sessions,
pool, saved uploads); the rest keeps no state that the blog shares between
requests, so the share of lines that the map covers stays small.

Order of the plan:

1. (done) `BlogData`, `PostAdmin`, `Comments`, `SiteAdmin`, `Views`, `Blog`:
   the tables, the cache as a specification, and all handlers that write them.
2. (done) `BlogInv`, `TableProofs`: the tables' invariants proved.
3. (done) `TriggerCache`, `MemCache` and the refinement between them.
4. (done) `Paging`, `Lists`.
5. (done) `Uploads`.
6. (done) `Sessions`, without `users::edit`.
7. (done) `Setup`.
8. (done) `TexImages`, `ConnPool`.
9. (done) `ConnPoolProofs`, `MemCacheProofs`, `UploadsProofs`, `SetupProofs`,
   `SessionsProofs`.
10. (done) `FreshProofs`: the freshness of posts, pages, feeds, sidebar and
    options, from an invariant that ties the triggers of an entry to the rises
    that are due.
11. (done) `PageProofs`, and the second half of `FreshProofs` on `Lists`: every
    invariant that a run checks is now a theorem.
