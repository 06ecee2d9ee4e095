-------------------------------- MODULE Setup --------------------------------
(***************************************************************************)
(* A database before its first use: config::configure writes the options   *)
(* and the first user in one transaction, and basic_master::prepare, which *)
(* every request runs, upgrades a database of version 2 and caches the     *)
(* options of a configured one.  Several requests may do so at once, and   *)
(* the process may be killed between two statements.                       *)
(***************************************************************************)
EXTENDS Naturals, FiniteSets

CONSTANTS Requests,
          Forms,       \* contents of the configuration form
          Names,       \* user names
          Posts,       \* posts, each with one row of post2cat
          Versions,    \* values of dbversion that the database may start with
          MaxCrashes,  \* bound
          None

Expected == 3          \* CPPBLOG_DBVERSION
Texts == {"blog_title", "blog_description", "contact"}

ASSUME VersionsAssumption == Versions \subseteq Nat /\ MaxCrashes \in Nat
ASSUME NoneAssumption == None \notin Requests

VARIABLES db,       \* the committed database
          work,     \* what the open transaction sees
          writer,   \* the request whose transaction has written
          pc, form, name,
          seen,     \* the options that prepare has read
          cache,    \* the cached options, or None
          crashes

vars == <<db, work, writer, pc, form, name, seen, cache, crashes>>

Goes(r, from, to) == pc[r] = from /\ pc' = [pc EXCEPT ![r] = to]

(***************************************************************************)
(* cppdb::transaction on the database: the first statement that writes     *)
(* waits for other writers, the effects are seen at the commit, and an     *)
(* exception or the end of the process takes them back.                    *)
(***************************************************************************)
WriteThrough(r, new) ==  \* variant without a transaction
    /\ writer \in {None, r}
    /\ writer' = r /\ work' = new /\ db' = new
Write(r, new) ==
    /\ writer \in {None, r}
    /\ writer' = r /\ work' = new /\ UNCHANGED db
View(r) == IF writer = r THEN work ELSE db
Commit(r) == writer = r /\ db' = work /\ writer' = None /\ work' = None
Rollback == writer' = None /\ work' = None /\ UNCHANGED db

-----------------------------------------------------------------------------
(* config::configure, POST.  The test of is_configured before it only sets *)
(* a redirect header; the handler goes on either way.                      *)
Configure(r) ==
    /\ Goes(r, "idle", "delete")
    /\ \E f \in Forms, n \in Names : /\ form' = [form EXCEPT ![r] = f]
                                     /\ name' = [name EXCEPT ![r] = n]
    /\ UNCHANGED <<db, work, writer, seen, cache, crashes>>

DeleteOptions(r) ==
    /\ Goes(r, "delete", "mark")
    /\ Write(r, [View(r) EXCEPT !.texts = [k \in Texts |-> None], !.configured = FALSE])
    /\ UNCHANGED <<form, name, seen, cache, crashes>>

(* INSERT INTO text_options: is_configured, then the three texts. *)
After(k) == CASE k = "mark" -> "blog_title" [] k = "blog_title" -> "blog_description"
              [] k = "blog_description" -> "contact" [] k = "contact" -> "user"
InsertOption(r) ==
    /\ pc[r] \in {"mark"} \cup Texts
    /\ Goes(r, pc[r], After(pc[r]))
    /\ Write(r, IF pc[r] = "mark" THEN [View(r) EXCEPT !.configured = TRUE]
                ELSE [View(r) EXCEPT !.texts[pc[r]] = form[r]])
    /\ UNCHANGED <<form, name, seen, cache, crashes>>

(* A name that is taken is refused, and everything before it with it. *)
InsertUser(r) ==
    /\ name[r] \notin View(r).users
    /\ Goes(r, "user", "commit")
    /\ Write(r, [View(r) EXCEPT !.users = @ \cup {name[r]}])
    /\ UNCHANGED <<form, name, seen, cache, crashes>>
DuplicateUser(r) ==
    /\ name[r] \in View(r).users
    /\ Goes(r, "user", "idle")
    /\ Rollback
    /\ UNCHANGED <<form, name, seen, cache, crashes>>
ConfigureCommit(r) ==
    /\ Goes(r, "commit", "idle")
    /\ Commit(r)
    /\ UNCHANGED <<form, name, seen, cache, crashes>>

-----------------------------------------------------------------------------
(* basic_master::prepare: nothing to do on a hit; otherwise the options as *)
(* they are committed.                                                     *)
Prepare(r) ==
    /\ cache = None
    /\ Goes(r, "idle", "read")
    /\ seen' = [seen EXCEPT ![r] = db]
    /\ UNCHANGED <<db, work, writer, form, name, cache, crashes>>

(* The version that was read decides; upgrade() knows only how to get from *)
(* 2 to 3.                                                                 *)
CheckVersion(r) ==
    /\ \/ seen[r].version = Expected /\ Goes(r, "read", "checked")
       \/ seen[r].version = 2 /\ Goes(r, "read", "links")
       \/ seen[r].version \notin {2, Expected} /\ Goes(r, "read", "idle")
    /\ UNCHANGED <<db, work, writer, form, name, seen, cache, crashes>>

UpgradeLinksOpen(r) ==  \* variant whose subselect is not tied to the row
    /\ Goes(r, "links", "version")
    /\ Write(r, [View(r) EXCEPT !.link = [p \in Posts |-> TRUE]])
    /\ UNCHANGED <<form, name, seen, cache, crashes>>
UpgradeLinks(r) ==
    /\ Goes(r, "links", "version")
    /\ Write(r, [View(r) EXCEPT !.link = View(r).open])
    /\ UNCHANGED <<form, name, seen, cache, crashes>>
UpgradeVersion(r) ==
    /\ Goes(r, "version", "upgraded")
    /\ Write(r, [View(r) EXCEPT !.version = 3])
    /\ UNCHANGED <<form, name, seen, cache, crashes>>
UpgradeCommit(r) ==
    /\ Goes(r, "upgraded", "checked")
    /\ Commit(r)
    /\ UNCHANGED <<form, name, seen, cache, crashes>>

StoreAnyOptions(r) ==  \* variant that does not ask whether the blog is configured
    /\ Goes(r, "checked", "idle")
    /\ cache' = seen[r].texts
    /\ UNCHANGED <<db, work, writer, form, name, seen, crashes>>
StoreOptions(r) ==
    /\ Goes(r, "checked", "idle")
    /\ cache' = IF seen[r].configured THEN seen[r].texts ELSE cache
    /\ UNCHANGED <<db, work, writer, form, name, seen, crashes>>

-----------------------------------------------------------------------------
(* An administrator publishes a post meanwhile (PostAdmin), in a           *)
(* transaction of its own.                                                 *)
Flip(p) ==
    /\ writer = None
    /\ db' = [db EXCEPT !.open[p] = ~@, !.link[p] = ~db.open[p]]
    /\ UNCHANGED <<work, writer, pc, form, name, seen, cache, crashes>>

Crash ==
    /\ crashes < MaxCrashes /\ crashes' = crashes + 1
    /\ pc' = [r \in Requests |-> "idle"]
    /\ Rollback /\ cache' = None
    /\ UNCHANGED <<form, name, seen>>

Init ==
    /\ db \in [configured: {FALSE}, texts: {[k \in Texts |-> None]}, users: {{}},
               version: Versions, open: [Posts -> BOOLEAN], link: [Posts -> BOOLEAN]]
    /\ db.version = Expected => db.link = db.open
    /\ work = None /\ writer = None /\ cache = None /\ crashes = 0
    /\ pc = [r \in Requests |-> "idle"]
    /\ form = [r \in Requests |-> None] /\ name = [r \in Requests |-> None]
    /\ seen = [r \in Requests |-> db]

Step(r) ==
    \/ Configure(r) \/ DeleteOptions(r) \/ InsertOption(r) \/ InsertUser(r)
    \/ DuplicateUser(r) \/ ConfigureCommit(r)
    \/ Prepare(r) \/ CheckVersion(r) \/ UpgradeLinks(r) \/ UpgradeVersion(r)
    \/ UpgradeCommit(r) \/ StoreOptions(r)

Next == \/ \E r \in Requests : Step(r)
        \/ \E p \in Posts : Flip(p)
        \/ Crash

Spec == Init /\ [][Next]_vars

-----------------------------------------------------------------------------
(* Whatever fails and whoever else configures, a configured blog has all   *)
(* its options, all from one form, and a user to administer it with.       *)
ConfiguredWhole ==
    db.configured => /\ \E f \in Forms : \A k \in Texts : db.texts[k] = f
                     /\ db.users # {}

(* A database that says it has version 3 has the is_open of every post in  *)
(* post2cat, which lists and feeds go by, also when several requests       *)
(* upgrade it and posts are published meanwhile.                           *)
UpgradedWhole == db.version = Expected => db.link = db.open

(* The options are cached only after the blog was configured, and whole.   *)
CachedWhole == cache # None => \E f \in Forms : \A k \in Texts : cache[k] = f

=============================================================================
